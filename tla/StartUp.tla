-------------------------------- MODULE StartUp --------------------------------
(***************************************************************************)
(* The start of htd_te_manager.py up to the flows it will execute: the       *)
(* command line (CommandLine), the documents of the TE configuration         *)
(* (TeConfig), and the dictionaries made of the collaterals, large ones by   *)
(* processes of their own (CollateralParts).                                 *)
(*                                                                         *)
(* The master process reads one document at a time, then all definitions,    *)
(* and then works off the jobs: one collateral of a dictionary, or one entry *)
(* of a dictionary on a large collateral.  The processes of the parts of a   *)
(* large collateral run beside it; they share nothing but the files of the   *)
(* parts.                                                                    *)
(***************************************************************************)
EXTENDS TeConfig, CollateralParts

CONSTANTS
    Starts,         \* what the program may be started with: records of the command
                    \* line, the environment, the main document and the test files
    Texts,          \* [path -> text] of the collaterals
    Signals,        \* [path -> lines] of the files of signal aliases
    ProcNum,        \* processes for heavy parts, and for light ones
    LightNum,
    MaxKills        \* bound: processes of parts that are killed from outside

ASSUME DigitsAgree == DigitWords = Digits

IsSequence(s) == s \in Seq(Range(s))

\* A command line is made of words, and flows are numbered.
ASSUME StartAssumption ==
    \A s \in Starts :
        /\ IsSequence(s.line)
        /\ \A i \in DOMAIN s.line : /\ s.line[i].kind \in {"flow", "end", "arg", "help", "single"}
                                    /\ s.line[i].kind = "flow" => s.line[i].n \in Nat
        /\ s.main \in DOMAIN Documents
        /\ DOMAIN s.env \cap OwnNames = {}

\* The nodes of a document have an order, and so have the names that one of
\* them sets; values and names of files are made of tokens.
IsExpression(expr) == \A i \in DOMAIN expr : expr[i].kind \in {"text", "env", "fun"}
ASSUME DocumentAssumption ==
    \A name \in DOMAIN Documents :
        LET doc == Documents[name]
        IN  /\ DOMAIN doc = DOMAIN NoDocument
            /\ \A nodes \in DOMAIN doc : IsSequence(doc[nodes])
            /\ \A i \in DOMAIN doc.setenvs :
                  /\ IsSequence(doc.setenvs[i].sets)
                  /\ \A k \in DOMAIN doc.setenvs[i].sets :
                        /\ IsExpression(doc.setenvs[i].sets[k].value)
                        /\ doc.setenvs[i].sets[k].name \notin OwnNames
            /\ \A i \in DOMAIN doc.imports : IsExpression(doc.imports[i].file)
            /\ \A i \in DOMAIN doc.cfgs : IsSequence(doc.cfgs[i].vars)
            /\ \A i \in DOMAIN doc.dictionaries : IsSequence(doc.dictionaries[i].refs)

\* A text is a sequence of lines, or of blocks that are finite.
IsXml(text) == \A i \in DOMAIN text : "subs" \in DOMAIN text[i]
ASSUME TextAssumption ==
    /\ \A path \in DOMAIN Texts :
          LET text == Texts[path]
          IN  /\ IsSequence(text)
              /\ IsXml(text) => \A i \in DOMAIN text :
                    /\ DOMAIN text[i] = {"node", "vals", "subs"}
                    /\ IsFiniteSet(DOMAIN text[i].vals)
                    /\ IsSequence(text[i].subs)
                    /\ \A k \in DOMAIN text[i].subs : IsFiniteSet(DOMAIN text[i].subs[k].vals)
    /\ \A path \in DOMAIN Signals : IsSequence(Signals[path])

VARIABLES
    start,      \* the element of Starts
    phase,      \* where the master is
    te,         \* what it knows of its configuration
    tops,       \* the main document and its splits (te_xfg_docs_xml_list)
    roots,      \* documents of the walk that are still to be begun
    queue,      \* documents of the current one that are still to be read
    docs,       \* documents read
    walked,     \* the environment and the documents at the end of the first walk
    jobs,       \* what is still to be parsed
    res,        \* the dictionary in progress
    coll,       \* the large collateral in progress: its result so far
    parts,      \* its parts
    proc,       \* part -> "none", "running", "ended", "dead" or "master"
    file,       \* part -> what its file holds
    merged,     \* number of parts merged
    kills,
    built,      \* [dictionary -> content]
    flows       \* the flow objects

walkVars == <<tops, roots, queue, docs>>
buildVars == <<res, coll, parts, proc, file, merged>>
vars == <<start, phase, te, walkVars, walked, jobs, buildVars, kills, built, flows>>

Line == start.line
Alive == {i \in DOMAIN proc : proc[i] = "running"}

Init ==
    /\ start \in Starts
    /\ phase = "env" /\ te = NoConfig
    /\ tops = <<>> /\ roots = <<>> /\ queue = <<>> /\ docs = <<>>
    /\ walked = [env |-> NoMap, docs |-> <<>>]
    /\ jobs = <<>> /\ res = Nothing /\ coll = Nothing
    /\ parts = <<>> /\ proc = <<>> /\ file = <<>> /\ merged = 0
    /\ kills = 0 /\ built = NoMap /\ flows = NoMap

-----------------------------------------------------------------------------
(***************************************************************************)
(* sys.argv: environment and modes, then the main document and its splits.   *)
(***************************************************************************)
ReadCommandLine ==
    /\ phase = "env"
    /\ LET env == OnTopOf(EnvGiven(Line), start.env)
           now == [te EXCEPT !.env = env, !.cmdEnv = Overwritten(Line),
                             !.envOnly = EnvOnlyMode(Line)]
           main == Documents[start.main]
           ok == ~ModesClash(Line) /\ Arguments(Line).ok /\ SplitsExist(now, main)
       IN  /\ te' = now
           /\ phase' = IF ok THEN "walk" ELSE "failed"
           /\ tops' = IF ok THEN <<start.main>> \o SplitFiles(now, main) ELSE <<>>
           /\ roots' = tops'
    /\ UNCHANGED <<start, queue, docs, walked, jobs, buildVars, kills, built, flows>>

\* One document of get_xml_docs; its imports are read after those before it.
ReadDocument ==
    /\ phase \in {"walk", "rewalk"}
    /\ queue # <<>> \/ roots # <<>>
    /\ LET name == IF queue # <<>> THEN Head(queue) ELSE Head(roots)
           doc == Documents[name]
           next == Prepared(te, doc)
           ok == ~next.failed /\ ImportsExist(next, doc)
       IN  /\ te' = next
           /\ docs' = Append(docs, name)
           /\ queue' = (IF queue # <<>> THEN Tail(queue) ELSE <<>>)
                       \o (IF ok THEN ImportedFiles(next, doc) ELSE <<>>)
           /\ roots' = IF queue # <<>> THEN roots ELSE Tail(roots)
           /\ phase' = IF ok THEN phase ELSE "failed"
    /\ UNCHANGED <<start, tops, walked, jobs, buildVars, kills, built, flows>>

WalkEnds == queue = <<>> /\ roots = <<>>

\* Collaterals, dictionaries and CFG of all the documents; with -te_cfg_env
\* the file of the environment is written and the program ends.
Define ==
    /\ phase = "walk" /\ WalkEnds
    /\ LET colls == ReadCollaterals(te, docs)
           dicts == ReadDictionaries(colls, docs)
           next == ReadCfg(dicts, docs)
       IN  /\ te' = next
           /\ phase' = IF next.failed THEN "failed"
                       ELSE IF next.envOnly THEN "ended" ELSE "override"
    /\ walked' = [env |-> te.env, docs |-> docs]
    /\ UNCHANGED <<start, walkVars, jobs, buildVars, kills, built, flows>>

-----------------------------------------------------------------------------
(***************************************************************************)
(* The jobs of parse_all_collaterals.  Text collaterals count as large       *)
(* unless the dictionary says no, XML ones if it says yes, user ones never.  *)
(***************************************************************************)
IsLarge(entity, type) ==
    \/ type = "xml" /\ entity.large = "yes"
    \/ type \in {"csv", "tab"} /\ entity.large # "no"

JobsOf(d, entity, c) ==
    LET job == [dict |-> d, type |-> c.type, path |-> c.path,
                patterns |-> entity.patterns, entries |-> entity.entries,
                large |-> IsLarge(entity, c.type), collEnds |-> TRUE]
        n == Len(entity.entries)
    IN  IF ~job.large THEN <<job>>
        ELSE [i \in 1..n |-> [job EXCEPT !.entries = <<@[i]>>, !.collEnds = (i = n)]]

DictJobs(d, now) == FlattenSeq([e \in DOMAIN now.dicts[d] |->
    FlattenSeq([c \in DOMAIN now.dicts[d][e].colls |->
                  JobsOf(d, now.dicts[d][e], now.colls[now.dicts[d][e].colls[c]])])])

Excluded == IF CompileMode(Line) THEN start.exclude ELSE {}
AllJobs(now) ==
    LET order == SelectSeq(now.order, LAMBDA d : d \notin Excluded)
    IN  FlattenSeq([i \in DOMAIN order |-> DictJobs(order[i], now)])

\* With -cmd_help no collateral is read.
Overrides ==
    /\ phase = "override"
    /\ LET next == OverrideAll(te, CfgGiven(Line))
           done == IF next.failed THEN next ELSE ChooseCompressor(next)
           ok == /\ ~done.failed
                 /\ "HTD_COLLATERALS_SAVED_IMAGE" \in DOMAIN te.env
                 /\ HelpMode(Line) \/ Excluded \subseteq Range(done.order)
       IN  /\ te' = done
           /\ phase' = IF ok THEN "parse" ELSE "failed"
           /\ jobs' = IF ok /\ ~HelpMode(Line) THEN AllJobs(done) ELSE <<>>
    /\ UNCHANGED <<start, walkVars, walked, buildVars, kills, built, flows>>

\* The end of a job with the result r of its dictionary so far.
DictEnds == Len(jobs) = 1 \/ jobs[2].dict # Head(jobs).dict
JobEnds(r) ==
    /\ jobs' = Tail(jobs)
    /\ built' = IF DictEnds THEN Put(built, Head(jobs).dict, r) ELSE built
    /\ res' = IF DictEnds THEN Nothing ELSE r
    /\ coll' = Nothing /\ parts' = <<>> /\ proc' = <<>> /\ file' = <<>> /\ merged' = 0

Stop ==
    /\ phase' = "failed"
    /\ UNCHANGED <<start, te, walkVars, walked, jobs, buildVars, kills, built, flows>>

Job == Head(jobs)
Entry == Job.entries[1]
Parsing == phase = "parse" /\ jobs # <<>>
CompressorName == te.cfg[Compressor][1]

\* A collateral must exist, and one of type xml be XML.
Readable ==
    Job.path \in DOMAIN Texts /\ (Job.type = "xml" => IsXml(Texts[Job.path]))

ParseSmall ==
    /\ Parsing /\ ~Job.large /\ Readable
    /\ LET r == Whole(Job.type, Job.entries, res, Texts[Job.path], Job.patterns)
       IN  IF r.ok
             THEN /\ JobEnds(r.res)
                  /\ UNCHANGED <<start, phase, te, walkVars, walked, kills, flows>>
           ELSE Stop

NoCollateral == Parsing /\ ~Readable /\ Stop

Divide ==
    /\ Parsing /\ Job.large /\ Readable /\ proc = <<>>
    /\ parts' = Parts(Job.type, Entry, Texts[Job.path])
    /\ proc' = [i \in DOMAIN parts' |-> "none"]
    /\ file' = [i \in DOMAIN parts' |-> Wrong]
    /\ parts' # <<>>
    /\ UNCHANGED <<start, phase, te, walkVars, walked, jobs, res, coll, merged, kills,
                   built, flows>>

\* A block that gives no part at all: there is nothing to merge.
NoParts ==
    /\ Parsing /\ Job.large /\ Readable /\ proc = <<>>
    /\ Parts(Job.type, Entry, Texts[Job.path]) = <<>>
    /\ JobEnds(res)
    /\ UNCHANGED <<start, phase, te, walkVars, walked, kills, flows>>

Submitted == {i \in DOMAIN proc : proc[i] # "none"}
NextPart == SubmitOrder(Job.type, parts, Cardinality(Submitted) + 1)
Submitting == Parsing /\ proc # <<>> /\ Submitted # DOMAIN proc

\* Heavy parts get one of ProcNum processes, light ones one of LightNum; a
\* part that gets none is processed by the master.
Parallel == Job.type = "xml" =>
    Cardinality(Alive) < IF Size(parts[NextPart][1]) > Heavy THEN ProcNum ELSE LightNum

Submit ==
    /\ Submitting /\ Parallel
    /\ proc' = [proc EXCEPT ![NextPart] = "running"]
    /\ UNCHANGED <<start, phase, te, walkVars, walked, jobs, res, coll, parts, file,
                   merged, kills, built, flows>>

ProcessSerially ==
    /\ Submitting /\ ~Parallel
    /\ LET r == InFile(Job.type, Entry, parts[NextPart], CompressorName)
       IN  IF r.ok
             THEN /\ proc' = [proc EXCEPT ![NextPart] = "master"]
                  /\ file' = [file EXCEPT ![NextPart] = r]
                  /\ UNCHANGED <<start, phase, te, walkVars, walked, jobs, res, coll,
                                 parts, merged, kills, built, flows>>
           ELSE Stop

\* A process ends well with its file written, or with an exception.
WorkerEnds(i) ==
    /\ i \in Alive   \* also after an error of the master, which waits for them
    /\ LET r == InFile(Job.type, Entry, parts[i], CompressorName)
       IN  /\ proc' = [proc EXCEPT ![i] = IF r.ok THEN "ended" ELSE "dead"]
           /\ file' = [file EXCEPT ![i] = r]
    /\ UNCHANGED <<start, phase, te, walkVars, walked, jobs, res, coll, parts, merged,
                   kills, built, flows>>

WorkerKilled(i) ==
    /\ i \in Alive /\ kills < MaxKills
    /\ kills' = kills + 1
    /\ proc' = [proc EXCEPT ![i] = "dead"]
    /\ UNCHANGED <<start, phase, te, walkVars, walked, jobs, res, coll, parts, file,
                   merged, built, flows>>

\* The merge waits for the process of the next part in its order, then loads
\* its file, which raises if it is not there.
Merging == Parsing /\ proc # <<>> /\ Submitted = DOMAIN proc /\ merged < Len(parts)
NextMerged == MergeOrder(Job.type, parts, merged + 1)
Joined(i) == proc[i] # "running"

\* An XML part goes into the dictionary at once; of a csv collateral only the
\* part loaded last is kept (return res).
MergePart ==
    /\ Merging /\ Joined(NextMerged)
    /\ LET r == file[NextMerged]
       IN  IF r.ok
             THEN /\ merged' = merged + 1
                  /\ res' = IF Job.type = "xml" THEN Merge(res, r.res) ELSE res
                  /\ coll' = CASE Job.type = "xml" -> coll
                               [] Job.type = "csv" -> r.res
                               [] Job.type = "tab" -> Merge(coll, r.res)
                  /\ UNCHANGED <<start, phase, te, walkVars, walked, jobs, parts, proc,
                                 file, kills, built, flows>>
           ELSE Stop

AllButOneMerged == merged >= Len(parts) - 1    \* mutant
AllMerged == merged = Len(parts)

EndLarge ==
    /\ Parsing /\ proc # <<>> /\ AllMerged
    /\ IF Job.collEnds
         THEN JobEnds(Merge(res, coll))
       ELSE /\ jobs' = Tail(jobs)
            /\ parts' = <<>> /\ proc' = <<>> /\ file' = <<>> /\ merged' = 0
            /\ UNCHANGED <<res, coll, built>>
    /\ UNCHANGED <<start, phase, te, walkVars, walked, kills, flows>>

-----------------------------------------------------------------------------
(***************************************************************************)
(* After the collaterals: signals, the second walk over the same documents,  *)
(* the access to registers, the documents of -load_cfg, and the flows.       *)
(***************************************************************************)
AfterSignals == IF CompileMode(Line) \/ HelpMode(Line) THEN "load" ELSE "rewalk"

SignalAliases ==
    /\ phase = "parse" /\ jobs = <<>>
    /\ LET next == ReadSignals(te, Signals)
       IN  /\ te' = next
           /\ phase' = IF next.failed THEN "failed" ELSE AfterSignals
           /\ roots' = tops /\ docs' = <<>>
    /\ UNCHANGED <<start, tops, queue, walked, jobs, buildVars, kills, built, flows>>

RegisterAccess ==
    /\ phase = "rewalk" /\ WalkEnds
    /\ LET next == ReadAccesses(te, docs, {<<d>> : d \in DOMAIN built})
       IN  /\ te' = next
           /\ phase' = IF next.failed THEN "failed" ELSE "load"
    /\ UNCHANGED <<start, walkVars, walked, jobs, buildVars, kills, built, flows>>

\* Also before the collaterals are compiled or help is given, which ends the run.
LoadCfg ==
    /\ phase = "load"
    /\ LET next == ReadCfgFiles(te, Loaded(Line), {<<d>> : d \in DOMAIN built})
       IN  /\ te' = next
           /\ phase' = IF next.failed THEN "failed"
                       ELSE IF CompileMode(Line) \/ Helps(Line) THEN "ended" ELSE "flows"
    /\ UNCHANGED <<start, walkVars, walked, jobs, buildVars, kills, built, flows>>

MakeFlows ==
    /\ phase = "flows"
    /\ LET objects == FlowObjects(Line, te.cfg, start.files, te.env)
           ok == /\ Paired(Line)
                 /\ ManagerArgsOk(Arguments(Line).args)
                 /\ FlowsOk(objects)
       IN  /\ phase' = IF ok THEN "ended" ELSE "failed"
           /\ flows' = IF ok THEN [n \in FlowsKept(objects) |-> objects[n]] ELSE flows
    /\ UNCHANGED <<start, te, walkVars, walked, jobs, buildVars, kills, built>>

Over == phase \in {"ended", "failed"}
Ended == Over /\ Alive = {} /\ UNCHANGED vars

Master ==
    \/ ReadCommandLine \/ ReadDocument \/ Define \/ Overrides
    \/ ParseSmall \/ NoCollateral \/ Divide \/ NoParts \/ Submit \/ ProcessSerially
    \/ MergePart \/ EndLarge
    \/ SignalAliases \/ RegisterAccess \/ LoadCfg \/ MakeFlows

Worker(i) == WorkerEnds(i) \/ WorkerKilled(i)

Next == Master \/ (\E i \in DOMAIN proc : Worker(i)) \/ Ended

Spec == Init /\ [][Next]_vars

-----------------------------------------------------------------------------
(***************************************************************************)
(* What the command line says holds at every later point: an environment    *)
(* name keeps the last value given by -ENV: although documents set it, on   *)
(* both walks; a -CFG: override stands once it was made, but for a choice   *)
(* of the compressor that is none, and but for a path that a document of    *)
(* -load_cfg names, or one above it, once it was read; and when the flows   *)
(* are made, a flow has exactly the arguments between its two marks         *)
(* (htd_te_manager.py:496, :603; htd_collaterals_parser.py:429, :551,       *)
(* :1245; htd_te_manager_utilities.py:21, :111).                            *)
(***************************************************************************)
GivenValue(words, name) ==
    LET at == {i \in DOMAIN words : words[i].kind = "arg" /\ words[i].name = name}
    IN  words[Max(at)].value

WordsFor(name) == {i \in DOMAIN Line : IsEnvWord(Line[i]) /\ EnvArgs[Line[i].name] = name}
EnvKept ==
    \A name \in Range(EnvArgs) :
        phase # "env" /\ WordsFor(name) # {} =>
            name \in DOMAIN te.env /\ te.env[name] = Line[Max(WordsFor(name))].value

Overridden ==
    phase \in {"parse", "rewalk", "load", "flows"} \/ (phase = "ended" /\ ~te.envOnly)
NoChoice(path, v) ==
    IsUnder(path, Compressor) /\ ~(path = Compressor /\ v \in {<<"pickle">>, <<"json">>})
\* What a category of a document names, and whether one of -load_cfg has done so.
Targets(cfg) ==
    IF cfg.vars # <<>> THEN {VarPath(cfg.cat, cfg.vars[i]) : i \in DOMAIN cfg.vars}
    ELSE {<<cfg.cat>> \o top : top \in DOMAIN cfg.other}
Names(doc, path) == \E i \in DOMAIN doc.cfgs : \E p \in Targets(doc.cfgs[i]) : IsUnder(path, p)
NamedAgain(path) ==
    \E name \in Range(Loaded(Line)) \cap DOMAIN Documents : Names(Documents[name], path)
SetAgain(path) == phase \in {"flows", "ended"} /\ NamedAgain(path)

CfgKept ==
    Overridden => \A path \in DOMAIN CfgGiven(Line) :
        ~NoChoice(path, CfgGiven(Line)[path]) /\ ~SetAgain(path) =>
            path \in DOMAIN te.cfg /\ te.cfg[path] = CfgGiven(Line)[path]

\* Flows one after the other, each with its own number.
Marks(kind) == {i \in DOMAIN Line : Line[i].kind = kind}
Bracketed ==
    /\ \A i \in Marks("flow") : \E j \in Marks("end") :
          /\ j > i /\ Line[j].n = Line[i].n
          /\ \A k \in i+1..j-1 : Line[k].kind \notin {"flow", "end"}
    /\ \A i, j \in Marks("flow") : Line[i].n = Line[j].n => i = j

Inside(n) ==
    LET first == CHOOSE i \in Marks("flow") : Line[i].n = n
        last == CHOOSE j \in Marks("end") : Line[j].n = n
    IN  SubSeq(Line, first + 1, last - 1)

FlowsKeepArguments ==
    Bracketed => \A n \in DOMAIN flows :
        flows[n].type # <<"EXTERNAL_TEST">> /\ ~flows[n].external =>
            flows[n].params =
                [k \in {Inside(n)[i].name : i \in DOMAIN Inside(n)} \ {"flow_name"} |->
                    GivenValue(Inside(n), k)]

CommandLineKept == EnvKept /\ CfgKept /\ FlowsKeepArguments

(***************************************************************************)
(* The documents are walked a second time before the access to registers is  *)
(* read, in the environment the first walk left (htd_collaterals.py:390).    *)
(* The environment stays what it was when CFG was read, and the same         *)
(* documents are read, if no setting or filter of the first walk reads a     *)
(* name that is set there or later, no import depends on one that is set     *)
(* later, and no value calls a functor that only a later document defines    *)
(* (its name stays in the text then, htd_collaterals_parser.py:1042).         *)
(***************************************************************************)
NamesIn(expr, kind) == {expr[i].s : i \in {j \in DOMAIN expr : expr[j].kind = kind}}
Reads(s) == NamesIn(s.set.value, "env") \cup s.node.filter.env \cup s.node.filter.noEnv
ImportReads(doc) == UNION {NamesIn(doc.imports[i].file, "env") : i \in DOMAIN doc.imports}

SetFrom(settings, j) == {settings[k].set.name : k \in j..Len(settings)}
SetAfter(i) == UNION {SetFrom(Settings(Documents[walked.docs[k]]), 1) : k \in i+1..Len(walked.docs)}

Calls(doc) == UNION {NamesIn(Settings(doc)[j].set.value, "fun") : j \in DOMAIN Settings(doc)}
Functors(doc) == {doc.functors[i].name : i \in DOMAIN doc.functors}
Defining(name) == {k \in DOMAIN walked.docs : name \in Functors(Documents[walked.docs[k]])}

ReadsBehind == \A i \in DOMAIN walked.docs :
    LET doc == Documents[walked.docs[i]]
        settings == Settings(doc)
    IN  /\ \A j \in DOMAIN settings :
              Reads(settings[j]) \cap (SetFrom(settings, j) \cup SetAfter(i)) = {}
        /\ ImportReads(doc) \cap SetAfter(i) = {}
        /\ \A name \in Calls(doc) : Defining(name) # {} => \E k \in Defining(name) : k <= i

SecondWalkStable ==
    phase = "flows" /\ ReadsBehind => te.env = walked.env /\ docs = walked.docs

(***************************************************************************)
(* A dictionary made of large collaterals by processes is the one a single   *)
(* process makes of them, whatever the order in which the processes end and  *)
(* whichever of them dies, for collaterals where the two readers agree:      *)
(* a csv text of one part without titles and blank lines, a tab text where   *)
(* no entry reads the end of a line that is no number, and an XML text whose *)
(* keys are distinct texts and whose blocks are not divided                  *)
(* (htd_collaterals_parser.py:2320-2388, :2644-2684).                        *)
(***************************************************************************)
ReadersAgree(type, entries, text) ==
    CASE type = "csv" ->
           /\ Len(text) <= LinesPerPart
           /\ Len(entries) = 1
           /\ \A i \in DOMAIN text : text[i].kind \in {"row", "comment", "dash"}
      [] type = "tab" -> \A i \in DOMAIN text : \A e \in DOMAIN entries :
           LET words == text[i].words
               read(x) == {x.key} \cup Range(x.fields)
               all == read(entries[e]) \cup
                        UNION {read(entries[e].subs[n]) : n \in DOMAIN entries[e].subs}
           IN  /\ words # <<>>
               /\ \/ Len(words) - 1 \notin all
                  \/ Last(words) \in Digits /\ Len(words) - 1 # entries[e].key
               /\ \A n \in DOMAIN entries[e].subs : entries[e].subs[n].key # Len(words) - 1
      [] type = "xml" ->
           \A e \in Range(entries) :
              LET own == {i \in DOMAIN text : text[i].node = e.node}
              IN  /\ \A i \in own : /\ e.key \in DOMAIN text[i].vals
                                    /\ text[i].vals[e.key] \notin Digits
                                    /\ Size(text[i]) <= SecondLevel
                  /\ \A i, j \in own : text[i].vals[e.key] = text[j].vals[e.key] => i = j
      [] OTHER -> TRUE

InOnePiece(d) ==
    LET pieces == FlattenSeq([e \in DOMAIN te.dicts[d] |->
            [c \in DOMAIN te.dicts[d][e].colls |->
               [entity |-> te.dicts[d][e], coll |-> te.colls[te.dicts[d][e].colls[c]]]]])
    IN  FoldLeft(LAMBDA r, p : IF r.ok THEN Whole(p.coll.type, p.entity.entries, r.res,
                                                  Texts[p.coll.path], p.entity.patterns)
                               ELSE r,
                 Good(Nothing), pieces)

AllAgree(d) == \A e \in DOMAIN te.dicts[d] : \A c \in Range(te.dicts[d][e].colls) :
    ReadersAgree(te.colls[c].type, te.dicts[d][e].entries, Texts[te.colls[c].path])

LargeAsSmall ==
    \A d \in DOMAIN built : AllAgree(d) => InOnePiece(d) = Good(built[d])

(***************************************************************************)
(* When a large collateral is done, every part of it was processed to its    *)
(* end, and nothing that its file holds is missing in the dictionary: no     *)
(* value, unless another part has something above or below it, and nothing   *)
(* of a list, unless another part has something else there; of a csv         *)
(* collateral this holds for the last part only (return res, :2605).         *)
(***************************************************************************)
Disputed(p) == \E j \in DOMAIN parts : \E q \in DOMAIN file[j].res : Below(p, q) \/ Below(q, p)
ListOnly(p) ==
    \A j \in DOMAIN parts : p \in DOMAIN file[j].res => file[j].res[p].kind = "list"
HeldIn(into, i) ==
    \A p \in DOMAIN file[i].res : file[i].res[p] # Empty /\ ~Disputed(p) =>
        /\ p \in DOMAIN into
        /\ ListOnly(p) => /\ into[p].kind = "list"
                          /\ file[i].res[p].vals \subseteq into[p].vals

PartsMerged ==
    [][Parsing /\ proc # <<>> /\ jobs' # jobs =>
         \A i \in DOMAIN parts :
            /\ proc[i] \in {"ended", "master"}
            /\ file[i].ok
            /\ Job.type = "tab" => HeldIn(coll, i)
            /\ Job.type = "xml" => HeldIn(res, i)
            /\ Job.type = "csv" /\ i = Len(parts) => coll = file[i].res]_vars
=============================================================================
