------------------------------ MODULE CommandLine ------------------------------
(***************************************************************************)
(* The command line of htd_te_manager.py: the environment it overrides,     *)
(* the modes it selects, and its division into arguments of the manager and *)
(* of the flows (htd_te_manager.py:483-566, format_arguments and            *)
(* parse_flow_arguments_from_command_line of htd_te_manager_utilities.py).   *)
(*                                                                         *)
(* A command line is a sequence of words as the split at " -" leaves them:  *)
(*   [kind |-> "flow", n |-> i]    -flow<i>    [kind |-> "end", n |-> i]  -flow<i>-*)
(*   [kind |-> "arg", name |-> k, value |-> v] -k v   (v = None: no value)   *)
(*   [kind |-> "help", name |-> k] -help, -h, -cmd_help                      *)
(*   [kind |-> "single", name |-> k]  -k                                     *)
(* Names are strings; what the regular expressions ^ENV: and ^CFG: tell     *)
(* apart is given by the constants EnvArgs and CfgArgs.                      *)
(***************************************************************************)
EXTENDS Integers, Sequences, FiniteSets, SequencesExt, Functions

CONSTANTS
    None,           \* no value
    EnvArgs,        \* [argument name -> environment name] of the -ENV: arguments
    CfgArgs,        \* [argument name -> path in CFG] of the -CFG: arguments
    Clocks,         \* names of clocks, arguments of the manager too
    Declared,       \* arguments that the manager declares
    FlowClasses     \* flow classes of the libraries

ASSUME NamesApart ==
    /\ DOMAIN EnvArgs \cap DOMAIN CfgArgs = {}
    /\ (Clocks \cup Declared) \cap (DOMAIN EnvArgs \cup DOMAIN CfgArgs) = {}
    /\ \A a \in DOMAIN CfgArgs : CfgArgs[a] \in Seq(Range(CfgArgs[a]))
    \* no override names a part of another one
    /\ \A a, b \in DOMAIN CfgArgs : IsPrefix(CfgArgs[a], CfgArgs[b]) => a = b

\* Names of the environment that the manager sets itself, from its modes and
\* from -te_cfg, after -ENV: did; what they say is read off the command line
\* here, and they are no part of the environment.
OwnNames ==
    {"HTD_CMD_OVERRITEN_ENV_LIST", "HTD_TE_HELP_MODE", "HTD_TE_CMD_HELP_MODE",
     "HTD_TE_COLLATERALS_HELP_MODE", "HTD_TE_CFG_ENV_ONLY", "HTD_TE_COLLATERALS_COMPILE_MODE",
     "HTD_TE_COLLATERALS_COMPILE_EXCLUDE", "HTD_TE_INFO_UI_HELP", "HTD_TE_CFG",
     "HTD_TE_COLLATERALS_HACK", "HTD_COLLECT_RTL_SIGNALS_MODE"}
ASSUME OwnNamesApart == Range(EnvArgs) \cap OwnNames = {}

NoMap == [x \in {} |-> None]
Put(f, k, v) == [x \in DOMAIN f \cup {k} |-> IF x = k THEN v ELSE f[x]]
Got(f, k) == IF k \in DOMAIN f THEN f[k] ELSE None
OnTopOf(f, g) == [k \in DOMAIN f \cup DOMAIN g |-> IF k \in DOMAIN f THEN f[k] ELSE g[k]]

-----------------------------------------------------------------------------
(***************************************************************************)
(* -ENV: is looked for in the whole of sys.argv, flows included, before     *)
(* anything else is read.  HTD_CMD_OVERRITEN_ENV_LIST names what it set.     *)
(***************************************************************************)
IsEnvWord(w) == w.kind = "arg" /\ w.name \in DOMAIN EnvArgs
SetByWord(env, w) == IF IsEnvWord(w) THEN Put(env, EnvArgs[w.name], w.value) ELSE env

EnvGiven(line) == FoldLeft(LAMBDA env, w : SetByWord(env, w), NoMap, line)

Overwritten(line) == DOMAIN EnvGiven(line)

HasWord(line, name) == \E i \in DOMAIN line :
    line[i].kind \in {"arg", "single"} /\ line[i].name = name

Helps(line) == \E i \in DOMAIN line : line[i].kind = "help"
HelpMode(line) == \E i \in DOMAIN line : line[i].kind = "help" /\ line[i].name = "cmd_help"
EnvOnlyMode(line) == HasWord(line, "te_cfg_env")
CompileMode(line) == HasWord(line, "collateral_compile")

\* -collateral_exclude needs -collateral_compile.
ModesClash(line) == HasWord(line, "collateral_exclude") /\ ~CompileMode(line)

-----------------------------------------------------------------------------
(***************************************************************************)
(* format_arguments: flow is the number of the flow in progress.  A new     *)
(* -flow<j> while one is in progress just switches to flow j.               *)
(***************************************************************************)
Outside == -1
NoArguments == [ok |-> TRUE, flow |-> Outside, flows |-> NoMap, args |-> NoMap]

Broken(p) == [p EXCEPT !.ok = FALSE]

ArgumentOfFlow(p, w) ==
    IF w.kind # "arg" \/ w.value = None THEN Broken(p)
    ELSE LET old == IF p.flow \in DOMAIN p.flows THEN p.flows[p.flow] ELSE NoMap
         IN  [p EXCEPT !.flows = Put(@, p.flow, Put(old, w.name, w.value))]

ArgumentOfManager(p, w) ==
    CASE w.kind = "help" -> [p EXCEPT !.args = Put(Put(@, "help", <<"1">>), "silent_mode", <<"1">>)]
      [] w.kind = "single" -> p
      [] w.kind = "end" -> Broken(p)
      [] w.kind = "arg" ->
           IF w.value = None THEN Broken(p)
           ELSE LET old == IF w.name \in DOMAIN p.args THEN p.args[w.name] ELSE <<>>
                IN  [p EXCEPT !.args = Put(@, w.name, Append(old, w.value))]

EndOfFlow(p) ==
    IF p.flow \notin DOMAIN p.flows \/ "flow_name" \notin DOMAIN p.flows[p.flow]
      THEN Broken(p) ELSE [p EXCEPT !.flow = Outside]

Word(p, w) ==
    IF ~p.ok THEN p
    ELSE IF w.kind = "flow" THEN [p EXCEPT !.flow = w.n]
    ELSE IF w.kind = "end" /\ w.n = p.flow THEN EndOfFlow(p)
    ELSE IF p.flow # Outside THEN ArgumentOfFlow(p, w)
    ELSE ArgumentOfManager(p, w)

Arguments(line) ==
    LET p == FoldLeft(LAMBDA q, w : Word(q, w), NoArguments, line)
    IN  IF p.flow # Outside THEN Broken(p) ELSE p

\* The words of sys.argv come in pairs, or the manager refuses to run.
WordLength(w) == IF w.kind = "arg" /\ w.value # None THEN 2 ELSE 1
Paired(line) ==
    FoldLeft(LAMBDA n, w : n + WordLength(w), 0, line) % 2 = 0

-----------------------------------------------------------------------------
(***************************************************************************)
(* The overrides of CFG, kept until the TE configuration was read           *)
(* (parsing_command_line_for_tecfg).  Only those outside the flows count,   *)
(* the last of equal ones wins.                                             *)
(***************************************************************************)
CfgGiven(line) ==
    LET args == Arguments(line).args
        names == DOMAIN args \cap DOMAIN CfgArgs
    IN  [path \in {CfgArgs[n] : n \in names} |->
           Last(args[CHOOSE n \in names : CfgArgs[n] = path])]

\* The documents of -load_cfg, in their order (parsing_command_line_for_cfg).
Loaded(line) ==
    LET args == Arguments(line).args
    IN  IF "load_cfg" \in DOMAIN args THEN args["load_cfg"] ELSE <<>>

-----------------------------------------------------------------------------
(***************************************************************************)
(* parse_flow_arguments_from_command_line.                                  *)
(***************************************************************************)
Passed == {"tecfg", "te_cfg", "help", "collect_rtl_signals"}

KnownToManager(name) ==
    name \in Passed \cup DOMAIN EnvArgs \cup DOMAIN CfgArgs \cup Clocks \cup Declared

ManagerArgsOk(args) == \A name \in DOMAIN args : KnownToManager(name)

ManagerArgList(args) == (DOMAIN args \cap Declared) \ (Clocks \cup Passed)

\* The table of revisions, CFG["FLOWREV_TABLE"], turns a flow into another
\* class; an entry must have the attribute rev and no other.
RevisionsOf(type, cfg) ==
    {path \in DOMAIN cfg : Len(path) >= 2 /\ path[1] = "FLOWREV_TABLE" /\ path[2] = type}

RevisionOk(type, cfg) ==
    RevisionsOf(type, cfg) \subseteq {<<"FLOWREV_TABLE", type, "rev">>}

Revised(type, cfg) ==
    IF RevisionsOf(type, cfg) = {} THEN <<type>>
    ELSE <<type, cfg[<<"FLOWREV_TABLE", type, "rev">>]>>

FlowParams(given) == [k \in DOMAIN given \ {"flow_name"} |-> given[k]]

ParamsOk(given) ==
    /\ "flow_name" \in DOMAIN given
    /\ DOMAIN given \cap (DOMAIN EnvArgs \cup DOMAIN CfgArgs) = {}

-----------------------------------------------------------------------------
(***************************************************************************)
(* The flow EXTERNAL_TEST runs a test file.  A test is a record of a base   *)
(* name and a type; files is the set of files that exist at the given place *)
(* or, with local = TRUE, in the working directory.                         *)
(***************************************************************************)
External(type, given) == type = <<"EXTERNAL_TEST">> /\ "src" \in DOMAIN given

Missing == [base |-> "", type |-> "", local |-> FALSE]
Cmdline == [base |-> "cmdline", type |-> "", local |-> FALSE]
Path(t) == [test |-> t, parse |-> FALSE, ignore |-> FALSE, found |-> TRUE]
Module(t) == [test |-> t, parse |-> TRUE, ignore |-> FALSE, found |-> TRUE]
Ignored == [test |-> Missing, parse |-> FALSE, ignore |-> TRUE, found |-> TRUE]
NotFound == [test |-> Missing, parse |-> FALSE, ignore |-> FALSE, found |-> FALSE]

FileTypeEnv ==
    [espf |-> "HTD_FILE_TYPE_ESPF", itpp |-> "HTD_FILE_TYPE_ITPP", pac |-> "HTD_FILE_TYPE_PAC",
     py |-> "HTD_FILE_TYPE_PY", e |-> "HTD_FILE_TYPE_E", sv |-> "HTD_FILE_TYPE_SV",
     obj |-> "HTD_FILE_TYPE_OBJ"]
Enabled(type, env) ==
    type = "spf" \/ (type \in DOMAIN FileTypeEnv /\ Got(env, FileTypeEnv[type]) # <<"disable">>)

\* What is asked for; cmdline means the test named by the environment.  With
\* TESTNAME alone, os.getenv is subscripted (:233), which raises.
Source(given, env) ==
    IF given["src"] = Cmdline
      THEN Got(env, "TEST_FULL_NAME")
      ELSE given["src"]

Exact(t, files, env) ==
    IF t \notin files \/ ~Enabled(t.type, env) THEN NotFound
    ELSE CASE t.type \in {"spf", "espf", "itpp"} -> Path(t)
           [] t.type \in {"pac", "py"} -> Module(t)
           [] t.type \in {"e", "sv", "obj"} -> Ignored
           [] OTHER -> NotFound

LocalTypes == <<"spf", "espf", "itpp", "pac", "py">>

\* The first type of the list that exists in the working directory wins; what
\* was found before stays if there is none.
Local(t, exact, files, env) ==
    LET here(type) == [base |-> t.base, type |-> type, local |-> TRUE]
        found == SelectSeq(LocalTypes, LAMBDA type : here(type) \in files /\ Enabled(type, env))
    IN  IF found = <<>> THEN exact
        ELSE IF found[1] \in {"pac", "py"} THEN Module(here(found[1])) ELSE Path(here(found[1]))

Test(given, files, env) ==
    LET t == Source(given, env)
        exact == Exact(t, files, env)
    IN  IF t = None THEN NotFound
        ELSE IF exact.ignore \/ (exact.found /\ given["src"] # Cmdline) THEN exact
        ELSE Local(t, exact, files, env)

\* A parsed file is a module that defines its flow; the name comes from the
\* environment.  All parameters of the flow are replaced.
ModuleFlow(env) ==
    IF "PACMAN_NAME" \in DOMAIN env THEN env["PACMAN_NAME"]
    ELSE IF "TESTNAME" \in DOMAIN env THEN env["TESTNAME"]
    ELSE None

ExternalParams(given, test, env) ==
    LET flavor == [k \in {"flow_flavor"} |-> Got(given, "flow_flavor")]
    IN  IF ~test.parse THEN Put(flavor, "test_path", test.test)
        ELSE IF "PACMAN_ARGS" \in DOMAIN env THEN env["PACMAN_ARGS"] @@ flavor
        ELSE flavor

-----------------------------------------------------------------------------
(***************************************************************************)
(* The flow objects that the command line asks for.                         *)
(***************************************************************************)
FlowObject(given, cfg, files, env) ==
    LET type == Revised(given["flow_name"], cfg)
        test == Test(given, files, env)
        external == External(type, given)
        flow == IF external /\ test.parse THEN <<ModuleFlow(env)>> ELSE type
        known == (external /\ test.parse) \/ flow \in FlowClasses
    IN  [ok |-> /\ external => test.found
                /\ flow # <<None>>
                /\ (external /\ test.ignore) \/ known,
         ignored |-> external /\ test.ignore,
         external |-> external,
         type |-> flow,
         params |-> IF external THEN ExternalParams(given, test, env)
                    ELSE FlowParams(given)]

FlowObjects(line, cfg, files, env) ==
    LET flows == Arguments(line).flows
    IN  [n \in DOMAIN flows |->
           IF ParamsOk(flows[n]) /\ RevisionOk(flows[n]["flow_name"], cfg)
             THEN FlowObject(flows[n], cfg, files, env)
           ELSE [ok |-> FALSE, ignored |-> FALSE, external |-> FALSE, type |-> <<>>,
                 params |-> NoMap]]

FlowsOk(objects) == \A n \in DOMAIN objects : objects[n].ok
FlowsKept(objects) == {n \in DOMAIN objects : ~objects[n].ignored}
=============================================================================
