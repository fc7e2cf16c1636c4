-------------------------------- MODULE TeConfig --------------------------------
(***************************************************************************)
(* The TE configuration: XML documents that set the environment and define  *)
(* collaterals, dictionaries, the CFG table and the access to registers     *)
(* (read_te_cfg of htd_info/htd_collaterals_parser.py).                      *)
(*                                                                         *)
(* A document is a record of the sequences of its nodes, see NoDocument.  A  *)
(* text is a sequence of words.  What stands in a document is an expression: *)
(* a sequence of tokens [kind, s] of kind "text", "env" ($s) or "fun" (s()). *)
(* No name is the beginning of another one, so that replacing $s in a text  *)
(* replaces nothing else.                                                   *)
(***************************************************************************)
EXTENDS Integers, Sequences, FiniteSets, SequencesExt, Functions, CommandLine

CONSTANTS
    Documents,      \* [text -> document]: the XML files that exist
    FunctorValue,   \* [path -> text]: what the functor of a file returns
    Digits          \* words that are digits

NoDocument == [functors |-> <<>>, setenvs |-> <<>>, imports |-> <<>>, splits |-> <<>>,
               collaterals |-> <<>>, dictionaries |-> <<>>, cfgs |-> <<>>,
               accesses |-> <<>>, patmods |-> <<>>]

\* What the process knows of its configuration.
NoConfig == [failed |-> FALSE, env |-> NoMap, cmdEnv |-> {}, envOnly |-> FALSE,
             functors |-> NoMap, sourceme |-> <<>>, colls |-> NoMap,
             dicts |-> NoMap, order |-> <<>>, cfg |-> NoMap, cats |-> {},
             dynamic |-> {}, access |-> NoMap]

Fail(te) == [te EXCEPT !.failed = TRUE]

IsInt(text) == text # <<>> /\ \A i \in DOMAIN text : text[i] \in Digits

-----------------------------------------------------------------------------
(***************************************************************************)
(* util_resolve_unix_env and resolve_functor_call.  Bad stands for a text   *)
(* whose evaluation ends the program; with -te_cfg_env an unknown name of   *)
(* the environment makes the whole text empty instead.                      *)
(***************************************************************************)
Bad == <<"bad">>

Unknown(expr, te) == \E i \in DOMAIN expr :
    expr[i].kind = "env" /\ expr[i].s \notin DOMAIN te.env

Called(name, te) ==
    IF name \notin DOMAIN te.functors THEN <<name>>       \* stays in the text
    ELSE IF te.functors[name] \in DOMAIN FunctorValue THEN FunctorValue[te.functors[name]]
    ELSE Bad

Token(t, te) ==
    CASE t.kind = "text" -> <<t.s>>
      [] t.kind = "env" -> te.env[t.s]
      [] t.kind = "fun" -> Called(t.s, te)

Resolved(expr, te) ==
    IF Unknown(expr, te) THEN IF te.envOnly THEN <<>> ELSE Bad
    ELSE IF \E i \in DOMAIN expr : expr[i].kind = "fun" /\ Called(expr[i].s, te) = Bad THEN Bad
    ELSE FlattenSeq([i \in DOMAIN expr |-> Token(expr[i], te)])

-----------------------------------------------------------------------------
(***************************************************************************)
(* evaluate_filter.  A filter is [env, exp, noEnv, functor]; an expression  *)
(* matches a text that contains it.  Without filter_exp, filter_env filters *)
(* nothing.                                                                 *)
(***************************************************************************)
NoFilter == [env |-> {}, exp |-> None, noEnv |-> {}, functor |-> None]

Matches(exp, text) == \E i \in DOMAIN text : text[i] = exp

EnvFilter(f, te) ==
    IF f.env = {} \/ f.exp = None THEN "in"
    ELSE IF Cardinality(f.env) > 1 \/ ~(f.env \subseteq DOMAIN te.env) THEN "error"
    ELSE IF \A n \in f.env : Matches(f.exp, te.env[n]) THEN "in" ELSE "out"

FunctorFilter(f, te) ==
    IF f.functor = None THEN "in"
    ELSE IF f.functor \notin DOMAIN te.functors \/ ~IsInt(Called(f.functor, te)) THEN "error"
    ELSE IF Called(f.functor, te) = <<"0">> THEN "in" ELSE "out"

Filter(f, te) ==
    IF EnvFilter(f, te) # "in" THEN EnvFilter(f, te)
    ELSE IF f.noEnv \cap DOMAIN te.env # {} THEN "out"
    ELSE FunctorFilter(f, te)

\* Every handler goes on with a node that its filter lets in, passes one that
\* is filtered out, and ends the program when the filter is wrong.
Filtered(te, f, admitted) ==
    IF te.failed THEN te
    ELSE CASE Filter(f, te) = "in" -> admitted
           [] Filter(f, te) = "out" -> te
           [] OTHER -> Fail(te)

-----------------------------------------------------------------------------
(***************************************************************************)
(* Functors, handle_te_cfg_xml_functors: a name may come again with the     *)
(* same path only.                                                          *)
(***************************************************************************)
DefineFunctor(te, f) ==
    IF f.name \in DOMAIN te.functors /\ te.functors[f.name] # f.path THEN Fail(te)
    ELSE [te EXCEPT !.functors = Put(@, f.name, f.path)]

(***************************************************************************)
(* The environment, handle_te_cfg_xml_env_setup.  One node may set several  *)
(* names in order; the filter of the node is evaluated before each.  What   *)
(* the command line set is left alone.                                      *)
(***************************************************************************)
Sourced(te, node, name) ==
    IF te.envOnly /\ ~node.noSourceme /\ Got(te.env, name) \notin {None, <<>>}
      THEN [te EXCEPT !.sourceme = Append(@, <<name, te.env[name]>>)] ELSE te

SetAppending(te, node, set) ==   \* mutant: the value is added to what there is
    LET v == Resolved(set.value, te)
    IN  IF te.failed \/ set.name \in te.cmdEnv THEN te
        ELSE Filtered(te, node.filter,
               IF v = Bad THEN Fail(te)
               ELSE [te EXCEPT !.env = Put(@, set.name,
                       IF set.name \in DOMAIN @ THEN @[set.name] \o v ELSE v)])
SetOverCommandLine(te, node, set) ==   \* mutant
    LET v == Resolved(set.value, te)
    IN  Filtered(te, node.filter,
                 IF v = Bad THEN Fail(te) ELSE [te EXCEPT !.env = Put(@, set.name, v)])
Set(te, node, set) ==
    LET v == Resolved(set.value, te)
        after == [te EXCEPT !.env = Put(@, set.name, v)]
    IN  IF te.failed THEN te
        ELSE IF set.name \in te.cmdEnv THEN Sourced(te, node, set.name)
        ELSE Filtered(te, node.filter,
                      IF v = Bad THEN Fail(te) ELSE Sourced(after, node, set.name))

\* What the nodes of a document set, in order.
Settings(doc) == FlattenSeq([i \in DOMAIN doc.setenvs |->
    LET node == doc.setenvs[i]
    IN  [k \in DOMAIN node.sets |-> [node |-> node, set |-> node.sets[k]]]])

-----------------------------------------------------------------------------
(***************************************************************************)
(* One document of the list of get_xml_docs: first its functors, then its   *)
(* environment, then its imports, which are appended to the list.  An       *)
(* import with optional="1" is read only if its file is the name of a known *)
(* environment variable; files that do not exist end the program.           *)
(***************************************************************************)
Prepared(te, doc) ==
    LET defined == FoldLeft(LAMBDA t, f : IF t.failed THEN t ELSE DefineFunctor(t, f),
                            te, doc.functors)
    IN  FoldLeft(LAMBDA t, s : Set(t, s.node, s.set), defined, Settings(doc))

IsLoaded(import, te) ==
    import.optional = "1" => \E n \in DOMAIN te.env :
        import.file = <<[kind |-> "env", s |-> n]>>

\* The name of the file is resolved for environment names only.
FileOf(expr, te) == IF Unknown(expr, te) THEN Bad ELSE Resolved(expr, [te EXCEPT !.functors = NoMap])

ImportsExist(te, doc) == \A i \in DOMAIN doc.imports :
    IsLoaded(doc.imports[i], te) => FileOf(doc.imports[i].file, te) \in DOMAIN Documents

ImportedFiles(te, doc) ==
    FoldLeft(LAMBDA files, i : IF IsLoaded(i, te) THEN Append(files, FileOf(i.file, te)) ELSE files,
             <<>>, doc.imports)

\* Splits of the main document are resolved before any environment is set.
SplitsExist(te, doc) == \A i \in DOMAIN doc.splits : FileOf(doc.splits[i], te) \in DOMAIN Documents
SplitFiles(te, doc) == [i \in DOMAIN doc.splits |-> FileOf(doc.splits[i], te)]

-----------------------------------------------------------------------------
(***************************************************************************)
(* Collaterals and dictionaries.                                            *)
(***************************************************************************)
\* A later definition of a name replaces an earlier one; without a type
\* attribute the file must be an .xml one.
DefineCollateral(te, c) ==
    LET path == Resolved(c.path, te)
        type == IF c.type # None THEN c.type ELSE IF Matches(".xml", path) THEN "xml" ELSE None
    IN  Filtered(te, c.filter,
                 IF path = Bad \/ type = None THEN Fail(te)
                 ELSE [te EXCEPT !.colls = Put(@, c.name, [path |-> path, type |-> type])])

\* The collaterals a dictionary refers to, in nodes and then in its attribute;
\* each must be defined and of the type of the one before it.
Refers(acc, name) ==
    IF acc.te.failed THEN acc
    ELSE IF \/ name \notin DOMAIN acc.te.colls
            \/ acc.refs # <<>> /\ acc.te.colls[Last(acc.refs)].type # acc.te.colls[name].type
      THEN [acc EXCEPT !.te = Fail(@)]
    ELSE [acc EXCEPT !.refs = Append(@, name)]

RefNode(acc, ref) ==
    IF acc.te.failed THEN acc
    ELSE CASE Filter(ref.filter, acc.te) = "in" -> Refers(acc, ref.name)
           [] Filter(ref.filter, acc.te) = "out" -> acc
           [] OTHER -> [acc EXCEPT !.te = Fail(@)]

References(te, d) ==
    LET nodes == FoldLeft(LAMBDA a, r : RefNode(a, r), [te |-> te, refs |-> <<>>], d.refs)
    IN  IF d.attr = None THEN nodes ELSE Refers(nodes, d.attr)

\* Every entry needs a key, and a node if it is read from XML
\* (traverse_cfg_xml_node).
EntriesOk(te, refs, d) ==
    /\ d.entries # <<>>
    /\ \A i \in DOMAIN d.entries :
          /\ d.entries[i].key # None
          /\ te.colls[Last(refs)].type = "xml" => d.entries[i].node # None

DefineDictionary(te, d) ==
    LET r == References(te, d)
        entity == [colls |-> r.refs, entries |-> d.entries, large |-> d.large,
                   patterns |-> d.patterns]
        old == IF d.name \in DOMAIN te.dicts THEN te.dicts[d.name] ELSE <<>>
    IN  Filtered(te, d.filter,
          IF r.te.failed \/ r.refs = <<>> THEN Fail(te)
          ELSE IF ~EntriesOk(te, r.refs, d) THEN Fail(te)
          ELSE [te EXCEPT !.dicts = Put(@, d.name, Append(old, entity)),
                          !.order = IF old = <<>> THEN Append(@, d.name) ELSE @])

-----------------------------------------------------------------------------
(***************************************************************************)
(* The CFG table, read_cfg: a function of paths <<category, key>> or, for a *)
(* Var with further attributes, <<category, key, attribute>>.               *)
(***************************************************************************)
IsUnder(path, top) == Len(path) >= Len(top) /\ SubSeq(path, 1, Len(top)) = top
Assign(cfg, path, v) ==
    Put([p \in {q \in DOMAIN cfg : ~IsUnder(q, path)} |-> cfg[p]], path, v)

\* A key that has a value of its own takes no attributes: TypeError.
IsScalar(cfg, path) == path \in DOMAIN cfg

VarPath(cat, var) ==
    IF var.attr = None THEN <<cat, var.key>> ELSE <<cat, var.key, var.attr>>

ReadVar(te, cat, var) ==
    LET v == Resolved(var.value, te)
        path == VarPath(cat, var)
    IN  Filtered(te, var.filter,
                 IF v = Bad \/ (var.attr # None /\ IsScalar(te.cfg, <<cat, var.key>>))
                   THEN Fail(te)
                 ELSE [te EXCEPT !.cfg = Assign(@, path, v)])

\* A category holds either Var nodes or nodes of its own, which are merged
\* into what the category has (traverse_cfg_entries, util_merge_dictionaries).
ReadCategory(te, cfg) ==
    LET opened == [te EXCEPT !.cats = @ \cup {cfg.cat},
                             !.dynamic = IF cfg.dynamic THEN @ \cup {cfg.cat} ELSE @]
        values == [p \in DOMAIN cfg.other |-> Resolved(cfg.other[p], te)]
        kept == {p \in DOMAIN te.cfg : \A top \in DOMAIN values : ~IsUnder(p, <<cfg.cat>> \o top)}
        read == {<<cfg.cat>> \o p : p \in DOMAIN values}
    IN  Filtered(te, cfg.filter,
          IF cfg.vars # <<>> /\ DOMAIN cfg.other # {} THEN Fail(te)
          ELSE IF cfg.vars # <<>> THEN FoldLeft(LAMBDA t, v : ReadVar(t, cfg.cat, v), opened, cfg.vars)
          ELSE [opened EXCEPT !.cfg = [p \in kept \cup read |->
                                         IF p \in kept THEN @[p] ELSE values[Tail(p)]]])

AllOf(docs, Nodes(_)) == FlattenSeq([i \in DOMAIN docs |-> Nodes(Documents[docs[i]])])

ReadCollaterals(te, docs) ==
    FoldLeft(LAMBDA t, c : DefineCollateral(t, c), te, AllOf(docs, LAMBDA d : d.collaterals))
ReadDictionaries(te, docs) ==
    FoldLeft(LAMBDA t, d : IF t.failed THEN t ELSE DefineDictionary(t, d), te,
             AllOf(docs, LAMBDA d : d.dictionaries))
ReadCfg(te, docs) ==
    FoldLeft(LAMBDA t, c : ReadCategory(t, c), te, AllOf(docs, LAMBDA d : d.cfgs))

-----------------------------------------------------------------------------
(***************************************************************************)
(* cfg_command_line_override.  A key may be a path; an existing number      *)
(* stays a number; a new key needs a category with                          *)
(* allow_dynamic_assignment.                                                *)
(***************************************************************************)
Above(path) == {SubSeq(path, 1, n) : n \in 1..Len(path)-1}
Known(cfg, path) == \E p \in DOMAIN cfg : IsUnder(p, path)

Override(te, path, v) ==
    LET exists == Known(te.cfg, path)
    IN  IF te.failed THEN te
        ELSE IF path[1] \notin te.cats THEN Fail(te)
        ELSE IF Above(path) \cap DOMAIN te.cfg # {} THEN Fail(te)   \* a value has no keys
        ELSE IF path \in DOMAIN te.cfg /\ IsInt(te.cfg[path]) /\ ~IsInt(v) THEN Fail(te)
        ELSE IF ~exists /\ path[1] \notin te.dynamic THEN Fail(te)
        ELSE [te EXCEPT !.cfg = Assign(@, path, v)]

OverrideAll(te, given) ==
    FoldLeft(LAMBDA t, path : Override(t, path, given[path]), te, SetToSeq(DOMAIN given))

\* Without a choice, or with a wrong one, images are compressed as JSON.
Compressor == <<"INFO", "collateral_compressor">>
ChooseCompressor(te) ==
    IF "INFO" \notin te.cats THEN Fail(te)
    ELSE IF Got(te.cfg, Compressor) \in {<<"pickle">>, <<"json">>} THEN te
    ELSE [te EXCEPT !.cfg = Assign(@, Compressor, <<"json">>)]

\* Aliases of signals from the files of HTD_SIGNALS_MAP and SBFT_SIGNALS_MAP,
\* in this order, which must exist; the first definition of an alias wins,
\* CFG before both.
Alias(te, l) ==
    IF te.failed \/ Len(l) < 2 THEN Fail(te)
    ELSE IF Known(te.cfg, <<"FlowSignals", l[1]>>) THEN te
    ELSE [te EXCEPT !.cfg = Assign(@, <<"FlowSignals", l[1]>>, <<l[2]>>),
                    !.cats = @ \cup {"FlowSignals"}]

ReadSignals(te, signals) ==
    LET named == {n \in {"HTD_SIGNALS_MAP", "SBFT_SIGNALS_MAP"} : n \in DOMAIN te.env}
        linesOf(n) == IF n \in named THEN signals[te.env[n]] ELSE <<>>
    IN  IF \E n \in named : te.env[n] \notin DOMAIN signals THEN Fail(te)
        ELSE FoldLeft(LAMBDA t, l : Alias(t, l), te,
                      linesOf("HTD_SIGNALS_MAP") \o linesOf("SBFT_SIGNALS_MAP"))

-----------------------------------------------------------------------------
(***************************************************************************)
(* Register access, read_RegAccInfo: a category once only, of a dictionary  *)
(* that was built.                                                          *)
(***************************************************************************)
ReadAccess(te, a, built) ==
    LET dict == Resolved(a.dictionary, te)
    IN  Filtered(te, a.filter,
                 IF a.cat \in DOMAIN te.access \/ dict = Bad THEN Fail(te)
                 ELSE IF dict # <<"NONE">> /\ dict \notin built THEN Fail(te)
                 ELSE [te EXCEPT !.access = Put(@, a.cat, dict)])

ReadAccesses(te, docs, built) ==
    FoldLeft(LAMBDA t, a : IF t.failed THEN t ELSE ReadAccess(t, a, built), te,
             AllOf(docs, LAMBDA d : d.accesses))

-----------------------------------------------------------------------------
(***************************************************************************)
(* A further document, read_cfg_file: its CFG entries replace what there is, *)
(* overrides included, and its access to registers is added.  Its functors,  *)
(* settings and imports are not read.                                        *)
(***************************************************************************)
ReadCfgFile(te, name, built) ==
    IF te.failed \/ name \notin DOMAIN Documents THEN Fail(te)
    ELSE ReadAccesses(ReadCfg(te, <<name>>), <<name>>, built)

ReadCfgFiles(te, names, built) ==
    FoldLeft(LAMBDA t, name : ReadCfgFile(t, name, built), te, names)
=============================================================================
