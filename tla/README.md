# Verification of the Pacman core

TLA+ models of the Pacman core (`src/`): the test executer that turns flows,
segments and actions written in Python into a stream of DUT commands, and the
parts around it that keep state. Every definition is translated from the code;
`PROJECT.json` maps it to the lines it stands for.

## The system

| Component | Where | State it keeps | Operations |
|---|---|---|---|
| Manager | `tools/htd_te/bin/htd_te_manager.py` | the flows of the command line, the current pass | verification pass, run pass, checkpoint |
| Command line | `htd_te_manager.py`, `htd_te_manager_utilities.py` | arguments of the manager and of each flow | split, normalise, override environment and CFG |
| Flows | `htd_basic_flow.py` | stop flag, current segment, verification mode, per-action command-line arguments | `exec_action`, `exec_segment`, pre/post run, `post_verify` |
| Segments | `htd_basic_segment.py` | sub-sequences to trigger, arguments | `exec_action`, `execute_segment`, extension check |
| Actions | `htd_basic_action.py` | arguments | `pre_run`, `run`, `post_run`, inner actions |
| Argument containers | `htd_arguments_container.py` | declared and assigned arguments, bit ranges | declare, set, override, rename, delete, verify |
| History manager | `htd_history_manager.py` | blacklist, results, labels, kept in a checkpoint file | capture, look up, save, restore |
| Logger | `htd_info/htd_logger.py` | collect mode, collected errors | `error`, `has_collected_errors` |
| Player | `tools/htd_hpl/bin` | silent flag, label counts, ratio of the test clock, synchronisation | commands to the ITPP, SPF, XDP or socket interface |
| Signal manager | `htd_hpl_signal_manager.py` | none of its own; signals of the DUT | set, force, release, pulse, wait |
| Action library | `actions_lib` | history of STF stops, TAP fields and breakpoint actions | STF, MCI, TAP, register, breakpoint, signal ... commands |
| Patmods | `htd_info/htd_patmod_manager.py` | variables, their usages and groups | read, find for a register, relate |
| TE configuration | `htd_collaterals_parser.py`, `htd_collaterals.py` | environment, CFG, collaterals, dictionaries | walk over the documents, override, register access |
| Collateral parsers | `htd_collaterals_parser.py` | a dictionary in progress; files of parts | parse whole, divide, parse in processes, merge |
| Collateral image cache | `htd_collaterals_parser.py`, `filelock.py` | dictionary images on disk and their lock files | lock, load, compile, save |
| Collateral dictionaries | `htd_info`, `collaterals_ui` | parsed dictionaries | look-ups |
| Player APIs | `tools/htd_hpl/bin/hpl_tap_*_api.py` | per interface | formatting of commands |
| Information service | `htd_info/htd_unix_socket*`, `info_service.py` | a socket connection | request, reply |

The manager overrides environment and CFG from the command line, reads the
documents of the TE configuration, makes dictionaries of the collaterals or loads
their images, and creates one object per flow of the command line.  It executes
all flows in ascending order with the error collection on (verification), exits if
an error was collected, and executes all of them again (run).  A flow's
`flow_run` is user code that calls segments and actions; a segment's
`segment_run` calls actions; an action verifies its arguments in `pre_run`, and its
`run` drives the DUT through the player and may call inner actions.  Calls are
ordinary Python calls in one thread.  The components share state through module
globals: the player's silent flag, the logger's error list, the history manager's
container, and a class attribute that stops all segments.  Two things are shared
beyond the process: the checkpoint of the history, by successive invocations, and
the images of collaterals, by all processes of a site, guarded by file locks.
Large collaterals are parsed by child processes that hand their results back in
files.

What is hard: the verification pass executes the very code of the run pass, and
only a flag keeps it off the DUT; flags are set and cleared by nested calls that
do not count; flow objects are executed twice and carry state over; a collected
error lets the handler go on; the history outlives the pass and the process, and
an action decides by it what it need not send; the same text is parsed by two
readers, one for large files and one for small ones; and processes that do not
know each other write the same image files.

What makes each part correct:

- executer: nothing is driven before everything is verified; silence, stops and
  errors end where they should;
- actions: what an action names reaches the DUT, what it does not name stays, and
  what the process remembers of the DUT is so, whatever actions came before and in
  both passes;
- history: only completed invocations leave entries, and all of theirs are in force;
- argument container: the last write of a bit counts;
- command line and configuration: what the user gave overrides the documents, and the
  documents mean the same each time they are walked;
- collaterals: a dictionary does not depend on how many processes made it, and an
  image is written by one process at a time.

## Modules

| Module | Models |
|---|---|
| `TestExecuter` | manager, flows, segments, actions, with the parts of logger, player and history manager they use |
| `TwoPassRun` | what an invocation promises: verify all flows, then run all flows, then save; abandoned at any point, it saves nothing |
| `DocumentedArguments` | three descriptions of arguments that the code does not live up to |
| `TestExecuterProofs` | theorems about `TestExecuter` |
| `CheckpointHistory` | the history manager and its checkpoint over several invocations |
| `CheckpointHistoryProofs` | theorems about `CheckpointHistory` |
| `ArgumentContainer` | the argument container: declared arguments and register fields in ranges of bits |
| `ArgumentContainerProofs` | theorems about `ArgumentContainer` |
| `FoldFacts` | what a fold over a sequence computes, for any operator: induction for the proofs about folds |
| `ActionSession` | a script of actions, verified and run; composes the eight modules below |
| `ActionSessionProofs`, `StfNetworkProofs` | theorems about `ActionSession`; the second about the test network of its STF actions and the registers of its stops |
| `StfAction`, `StfPackets` | the STF action and the test network it selects and writes; packets given bit by bit (`direct_packet`, `stf2mci`, MCI) |
| `TapAction` | the TAP action on one data register |
| `TapShift`, `Patmods` | the TAP action as the SPF interface writes it, with labels and patmods; the patmod manager |
| `CrAccess` | the control register action in several scopes |
| `Breakpoints` | UBP and UBPTRIGGER on breakpoint machines |
| `Signals` | signal actions, delays, clocks, synchronisation of SPF |
| `PlayerOutput` | ratio of the test clock and indexed labels |
| `StartUp` | the start of the manager; composes the three modules below |
| `StartUpProofs` | theorems about `StartUp`: division and merge of collaterals, the command line, the two walks over the documents |
| `CommandLine` | words, flows, arguments of the command line, external tests |
| `TeConfig` | documents of the TE configuration |
| `CollateralParts` | readers of csv, tab, user and xml texts, division and merge |
| `CollateralCache` | `parse_all_collaterals` executed by several processes that share a directory of images, with the file locks |
| `ImageStore` | what the images promise: one that nobody bypasses is written at most once, by one process, and stays whole |
| `CollateralCacheProofs` | theorems about `CollateralCache` |
| `MCTestExecuter`, `MCCheckpointHistory`, `MCArgumentContainer`, `MCActionSession`, `MCStartUp`, `MCCollateralCache` | small instances |

### TestExecuter

User code is arbitrary: at any point inside a flow it may call any segment of
`Segments` or any action of `Calls`, an executing action may call inner ones or
write to the DUT, and any of them may return.  A step is one call, one DUT write
or one return, since nothing else runs in between.

| Variable | Code |
|---|---|
| `mode`, `phase`, `flow`, `inFlow` | where the main part of `htd_te_manager.py` is; `nocheck` is `-check 0`, `runtime` is `verify_at_runtime` |
| `inSegment`, `current`, `ext` | `segment_run` on the stack; `__current_segment`; `__sequence_extend_per_action` entries not accessed |
| `pending` | the calls of the segment on the Python stack whose sub-sequence (`sequence_extend`) executes, outermost first |
| `frames` | the `run()` calls on the Python stack, outermost first |
| `stopFlow`, `stopAll` | `__stop_flow` of each flow; `htd_base_flow.__stop_all_segments` |
| `silent`, `errors` | `htdPlayer.silent_mode`; `htdte_logger` has collected errors |
| `accessed` | the `accessed` marks of `__per_action_arguments` |
| `locks`, `saved` | the blacklist; whether `save_history` was reached |
| `event`, `writes` | history variables: what the last step drove, and the last write of each register since it was last locked |

| Action | Code |
|---|---|
| `StartFlow`, `EndFlow` | `__execute_flow` before and after `flow_run` |
| `EndVerification`, `EndRun` | the ends of the two loops of the manager |
| `CallShut`, `CallIgnored`, `CallDisabled`, `CallGated`, `CallRuns` | the ways through `htd_segment.exec_action`, `htd_base_flow.exec_action` and `exec_action_obj` up to `run()` |
| `CallWaits`, `EndSubsequence` | a call whose "pre" sub-sequence begins, before which the stop of all segments is tested for the last time; the end of a "post" one, after which the stop is raised |
| `Drive`, `Return` | `run()` itself; `post_run`, blacklist and the rest of the call |
| `CallSegment`, `EndSegment` | `exec_segment` around `segment_run` |

`CmdSpared` are the names whose only arguments on the command line are ones that
`post_verify` does not look at (`not_declared:`, `disable_segment`, `disable_action`).

A Python exception is not caught anywhere, so it ends the process: `crashed`.
`failed` stands for the manager's exit with code 257.

### CheckpointHistory

Several invocations, one after the other, share the checkpoint.  An entry of the
history is abstracted to who captured it: the invocation and the pass.

| Variable | Code |
|---|---|
| `phase`, `inv`, `conf` | where `main` is; the number of the invocation and its command line (flow 1, `force_history_chkpt`, `reset_history`, `skip_history_file`, `check`, `history_chkpt_file`) |
| `store` | `htd_history_mgr.container` |
| `file` | the checkpoint: nothing, a container, or `Torn` while it is written or after its writer died |
| `completed`, `announced` | history variables: who has saved, who has said "deleting by FLOW1 sequence" |

| Action | Code |
|---|---|
| `Invoke`, `BeginRun` | `__history_init` before the verification pass and before the run pass |
| `Capture` | a capture into the blacklist or the TAP history (`RunOnly`: in the run pass only), the STF history or a parametric table |
| `BeginSave`, `EndSave`, `EndUnsaved` | `save_history` opens the file in place, and has written it; a run with `skip_history_file` |
| `Abort` | an error, or the death of the process at any point |

### ArgumentContainer

| Variable | Code |
|---|---|
| `args` | the entries: declared with a type and one value, or a list of ranges of a register field |
| `status`, `errors` | still running, verified or ended by an exception; whether an error was collected |
| `given` | history variable: what each name was assigned, in order |
| `calls` | bounds the calls |

`Set`, `Override`, `Declare`, `SetObligatory`, `Delete`, `Rename` and
`VerifyObligatory` are the methods of the container.  `Inserted` is
`insert_not_declared_argument_value` with its cases in the order of the code: its loop
passes the entries that the new range lies strictly inside of, and the first other one
(`Deciding`) says whether the range is appended, replaces it, cuts it or ends in an
exception.

### ActionSession

A flow is a script of actions, here all of one family, since actions of different
families keep what they know apart.  Every step executes one action to its end
(arguments verified, then `run`), as nothing else runs in between.  User code is
arbitrary: it chooses any action of the family next.

| Variable | Code |
|---|---|
| `phase` | the pass, or how it ended; `rejected` in the verification, `failed` in the run |
| `te`, `resets` | the part of TE_cfg the family reads; `reset_history` |
| `family`, `script`, `at` | the actions verified so far; how many of them have run |
| `know` | what the process keeps: the tables of the history manager, `stf_gid_track`, the player, the patmods |
| `dut` | what the DUT is told: the stops of the network, the data register, control registers, breakpoint machines, signals; and the stimulus meant for it |

| Action | Code |
|---|---|
| `Verify(a)` | `exec_action` in the verification pass: silent, the DUT sees nothing |
| `BeginRun` | the second `__history_init` |
| `Run` | `exec_action` of the next action in the run pass |
| `Close` | the end of the SPF stimulus, with its template of patmods |

The eight modules are functions, from an action and what is known to what is known
then and what the DUT is told; `Do` picks the family:

| Family | Functions | Code |
|---|---|---|
| STF | `VerifyStf`, `RunOps` | `htd_stf_action.py`: verification makes a list of ops and already records their effect; the run writes them |
| PKT | `PacketOk`, `PacketsOf` | `direct_packet`, `stf2mci` and `htd_mci_action.py` |
| TAP | `TapOk`, `Clash`, `Sent`, `Captured` | `htd_tap_action.py` |
| SPF | `RelateAll`, `PatmodsOf`, `ShiftOk`, `Command`, `Template` | `send_cmd`, `high_level_tap_bfm_transactor`, `htd_patmod_manager.py` |
| XREG | `CrOk`, `RunCr`, `Waits` | `htd_cr_access_action.py` |
| UBP | `DoUbp`, `DoTrigger` | `htd_ubp_action.py`, `htd_ubptrigger_action.py` |
| SIG | `SignalOk`, `DoSignals` | `htd_signal_action.py`, `htd_hpl_signal_manager.py` |
| GEN | `GenOk`, `Ratioed`, `Counted`, `Played` | `htd_gen_action.py`, `htd_player_ui.py` |

The properties hold for scripts that keep clear of the divergences listed below, and
the conditions are operators named after what they ask: `SoundStf` (stops are
deselected once, and together with others only after those below them or elsewhere in
the network; a selection does not wait and has one group),
`WritingStf` (whole fields are written, and at least one unless the write is incremental),
`SoundTap` and `IncrementalTap` (a field has one name, ranges fit), `SoundBreak` (no
trigger is shared on purpose), `SoundShift`, `Shareable`, `Loud`, `Separate`.  Most of
these divergences were met as counterexamples to the property without its condition,
or as proofs of it that failed.

### StartUp

| Variable | Code |
|---|---|
| `start`, `phase` | the command line, environment and documents; where the master is |
| `te` | environment, CFG, collaterals, dictionaries, register access known so far |
| `tops`, `roots`, `queue`, `docs` | the main document and its splits; documents still to be begun, still to be read, read |
| `walked` | the environment after the first walk |
| `jobs`, `res`, `coll`, `merged` | what is still to be parsed; the dictionary and the large collateral in progress |
| `parts`, `proc`, `file` | its parts, the processes that parse them, and the files they leave |
| `built`, `flows` | the finished dictionaries; the flow objects |
| `kills` | bounds the deaths of processes |

| Action | Code |
|---|---|
| `ReadCommandLine` | `main` up to `format_arguments` |
| `ReadDocument`, `Define`, `Overrides` | `get_xml_docs`; `read_te_cfg` for collaterals, dictionaries and CFG; the CFG of the command line |
| `ParseSmall`, `NoCollateral` | a collateral in one piece; one without a file |
| `Divide`, `NoParts`, `Submit`, `ProcessSerially` | a large one: division, and the two pools for heavy and light parts |
| `WorkerEnds`, `WorkerKilled` | `process_handler_proceed_*_part`; its death |
| `MergePart`, `EndLarge` | the merge of the files, in the order of the code |
| `SignalAliases`, `RegisterAccess` | the end of `htd_collaterals`, with the second walk |
| `LoadCfg` | `parsing_command_line_for_cfg`: the documents of `-load_cfg`, with `read_cfg_file` |
| `MakeFlows` | `main` from the arguments of the manager to the flow objects |

### CollateralCache

A process goes through its dictionaries in the order of `te_cfg_col_order`, twice:
the first loop locks each image and loads it or leaves it to the second loop,
which parses and saves.  One step is what a process does between two points where
another one can see or change the lock files and the images.

| Variable | Code |
|---|---|
| `pc`, `at` | the statement and the dictionary of the two loops: `acquire`, `check` (`os.path.exists`), `load`, `parse`, `write`; or how the process ended |
| `todo` | `not_saved_dictionaries` |
| `gaveUp` | history variable: dictionaries whose `acquire` raised an `OSError` |
| `holder` | the flock of each lock file |
| `image` | what is on disk: nothing, a whole image, or one that its last opener has not finished |

| Action | Code |
|---|---|
| `Skip` | `continue` on the exclude list; a dictionary that was loaded |
| `Acquire`; `Denied`, `TimeOut` | `FileLock.acquire`; the lock file cannot be opened, or the wait timed out, both swallowed as `OSError` |
| `Saved`, `Load` | an image exists: release its lock, then load it; one that is not whole cannot be decoded |
| `NotSaved` | there is none: remember it, fail if it must be compiled and may not be, release the lock if an entity is not compiled |
| `Parse`; `Open`, `Finish` | parse a dictionary that is not saved; truncate, write and close the image of one that is, and release its lock |
| `Error` | any error of the second loop, through the `finally` |
| `Kill` | the process dies; the operating system drops its locks |

Processes differ in whether they may open the lock files (`Openers`), write to the
directory (`Writers`), are configured to compile (`Compilers`), and whether their
wait may time out (`Impatient`).  A dictionary is the sequence of its entities, of
which only "is it compiled?" matters.

## Runs

| Run | Configuration | What it shows |
|---|---|---|
| `control` | two flows, the second silent, both aligned; seven kinds of calls; a segment with a sub-sequence; all three modes | no path through a call leaves the silent flag wrong, the verification pass drives nothing, invalid arguments are never driven, stop flags do not leak from one pass into the other, unused command-line names are found before the DUT is touched, collected errors fail the invocation, and the invocation implements `TwoPassRun` |
| `segments` | two flows in cluster mode, vertical and IP segments with sub-sequences, a register that outer and inner actions write, read, lock and unlock, any restored blacklist | after `stop_segment_at_action` only the calls around the stopping one go on, for good and never while verifying; vertical segments drive nothing in cluster mode; a locked register is overwritten without an error only by an inner or an unlocking action |
| `history` | three invocations with any of eight command lines | an invocation starts from what completed ones captured, the checkpoint is in force in its passes, a torn one blocks it, and a failed one leaves nothing |
| `arguments` | any five calls on two names | what was written last is what the register gets, unless ranges cut or one is inside all others; an obligatory argument found assigned has a value |
| `session` | any script of up to three actions of each family, with and without `reset_history` | what was verified runs; a write reaches the stops it names; the history agrees with the DUT; incremental writes keep what they do not name; what is named arrives, fires, lasts as long as it should; labels, patmods and synchronisation of the stimulus |
| `startup` | some 5300 command lines and configurations | environment and CFG of the command line win, but for the paths that a document of `-load_cfg` names after the overrides were made (`SetAgain`; without it TLC finds an override undone); the second walk reads the same documents and changes nothing if nothing reads behind itself (`ReadsBehind`; without any one of its parts TLC finds a configuration that the second walk changes); a dictionary made by processes is the one a single process makes, where the two readers agree; nothing of a finished part is missing, whoever ends or dies first |
| `cache` | three processes: one that may time out, one that never does, one of another user; three dictionaries, of which the second is never saved | images are written under their locks, found images are loaded whole, locks are kept only for writing, the cache implements `ImageStore`, and everyone ends |
| `segment_stop_doc` | a segment with `stop_flow` | it ends the process (`htd_basic_flow.py:900`) |
| `silent_action_doc` | nested silent actions | the outer one drives the DUT after the inner one returned (`htd_basic_action.py:346`) |
| `lock_doc` | a locked register | an inner action overrides it, no error (`htd_basic_flow.py:667`) |
| `history_doc` | as `history` | flow 1 says it deletes the checkpoint, and a later invocation restores it (`htd_te_manager.py:397`) |
| `cache_timeout_doc` | two processes, one image | after a timeout an image is written without its lock (`htd_collaterals_parser.py:2751`) |

The last five are expected to find their property violated.

### Bounds

- `control`, `segments`: `MaxSteps` bounds the API calls and DUT writes of one
  execution of a flow.  Four suffice for an outer action that calls an inner one, with
  another action after them that drives, or for three nested ones of which any drives:
  every interference between two calls through the shared flags needs at most two
  nested calls and one to observe.
  `MaxDepth` is 3 because the code distinguishes only outer (0) and inner calls, and
  an inner call of an inner one is the first that is called by an inner.  Two flows
  are the least with a "next flow" that inherits state; one register, as the locks of
  two do not mix (`LocksKept` is proved for any number).  In `segments`, depth 2: a lock,
  the inner and the outer write that may break it, and one call of a segment; or a
  segment, the call that waits, the one that stops, and one more.  Registers are keyed by
  `get_action_indexing`; a register has one field, as the blacklist compares field by
  field.
- `history`: three invocations are the least in which one restores what an earlier one
  saved after another failed between them; one key of each kind, as keys do not
  interact.
- `arguments`: a register of five bits holds two ranges, one around both, one inside that
  and a bit apart, so that the loop passes an entry and stops at another one; five calls
  declare, write three ranges and verify.
- `session`: three actions, since the first sets up what the second changes and the
  third uses.  STF: two hubs, one under the other, with an endpoint each, and
  `MaxGid` 3; a group, its neighbour and one more to move to.  Packets of 20 bits
  and data registers of up to 47 bits cross a word and a triple of packets.  TAP: four
  bits in four fields that overlap each other, two of them from the same bit on.  XREG:
  three bits in two scopes, with and without RTL nodes.  Breakpoints: six actions on the machines of two agents, of which
  some share a machine.  Signals: two pins and two RTL names, clocks of three
  periods.  Patmods: documents with and without sections, groups, whole and partial
  usages, and usages of a register in another network.
- `startup`: `LinesPerPart`, `SecondLevel`, `Heavy`, `ProcNum` and `LightNum` stand for
  the code's numbers of lines and bytes; with two lines per part a text has up to
  three parts, both pools are used, and one process (`MaxKills`) may die.
- `cache`: two processes each take the locks of two images that are saved, the least
  for a deadlock, with an image between them that is not saved, and a third process
  that holds no lock at all.  A dictionary whose last entity is compiled and an earlier
  one is not (saved after its lock was released) is left to the theorems, which hold
  for any dictionaries.

`history`, `arguments` and `session` do not check for deadlock: a user may stop
invoking, calling or testing at any time.  The others do; in `startup` and `cache` that
is the check that nobody waits for what nobody will do.

### Fairness

In `TestExecuter`, `FairSpec` adds weak fairness of `Next` as a whole: the process is
single-threaded and user code is finite, so it keeps executing until main exits.
Nothing is assumed of user code but that it returns (the bound `MaxSteps`).
In `CollateralCache`, `FairSpec` adds weak fairness of `Proceed(p)` for each process:
processes keep running, and one that waits for a lock polls it every five seconds.
A lock is not handed out fairly, so a process may be overtaken; `EveryoneEnds` holds
nevertheless, as everyone takes a lock once.  No timeout, error or death is owed.
`StartUp` states no liveness: a step of the master evaluates whole documents and texts,
and to ask of every state whether it is enabled is too costly; its steps form no cycle
(each takes a document or a job away, or moves a part on; documents that import each
other are not in the instances), and its deadlock check covers the waits.

## Proofs

All for any constants that satisfy the named assumption of the module.

`TestExecuterProofs`:

- `TypeCorrect`: `TypeOK` is an invariant.
- `SilenceHolds`: the inductive invariant `Silence`.  `SilentBetweenActions`
  alone is not inductive, as it says nothing of the time while actions execute;
  `Silence` adds that during the verification pass the player is silent whenever
  an action executes.  Every way out of `exec_action_obj` must restore it.
- `SilentBetween` and `VerificationSafe`: `SilentBetweenActions` and
  `VerificationDrivesNothing` follow from it.

On top of types and silence:

- `StopsHold`: the action property `StopAllHolds`, step by step, with the invariant that
  the stop is not raised while verifying.  `Underway` counts the calls of the segment on
  the stack: a call that gets past its sub-sequence moves from `pending` to `frames`, one
  that returns may move back to wait for the sub-sequence after it, and a call that
  begins finds the stop.
- `RunUnstopped`: by `StopsBehind`, while a pass is on only the flow that executes and,
  in the run pass, those before it can be stopped.  `StoppedFlowDrains`: the action
  property `StopFlowDrains`, step by step.
- `TyposFound`: by `NamesBehind`, flows that verification has left without an error have
  picked up all their names that `post_verify` looks at.
- `InvalidSafe` and `ClusterSafe`: by `ValidStack` and `UnmaskedStack`, every frame of the
  run pass has valid arguments, and began while no vertical segment was current (nor does
  one that waits for its sub-sequence, as a vertical segment makes no calls);
  the properties speak only of the moment of a write.
- `LocksKept`: by `LockedOrPending`.  Between the write of a register and the return of
  its action the blacklist is behind; `Pending` says that then the outermost frame
  is the one that will lock the new value.
- `TwoPassImplemented`: initial states and every step of `TestExecuter` map to those of
  `TwoPassRun`, or stutter.

`CheckpointHistoryProofs`, for any command lines and number of invocations:

- `HistoryTyped`: `TypeOK`.
- `HistoryClean`: `FromCompleted`, and with it that the verification pass leaves no lock
  and that `reset_history` hides everything older, from the inductive invariant
  `Provenance`.  What a process knows must be trusted together with what is in the
  file, since each becomes the other.
- `HistoryInForce` and `TornCheckpointBlocks`: `CheckpointInForce` and `TornBlocks`, which
  are inductive together.

`ArgumentContainerProofs`, for any names, types, widths and assignments:

- `ObligatoryHolds`: `ObligatoryHasValue`, by `ContainerInv`: as long as no error is
  collected, a declared argument that counts as assigned has a value, and the list of a
  field is never emptied, whatever `insert_not_declared_argument_value` splits.
- `ContainerTypeCorrect`: `TypeOK`, from the same invariant.
- `LastWriteCounts`: `LastWriteWins`, by `FieldInv`: as long as each assignment to a field
  is apart from the earlier ranges, covers or lies inside them, and is not dropped, every
  entry is one of the assignments `given`, every assignment that no later one covers has
  its entry (`StandingKept`: so the loop finds where to stop), and the last one that has a
  bit is the same in both.  The induction is over the calls.

`ActionSessionProofs`, for any network, register, machines, signals and clocks, any
actions and scripts of any length.  `WellFormed` says which part of a script has run, and
that knowledge and DUT have their parts; `StfEffect` to `SpfEffect` say which of them
an action of each family can change.

- `SynchronisesFirst`: `SyncStartsFirst`, by `SyncInv`: the flag of the interface survives
  the verification, in which nothing is emitted, so the run pass has to find it unset,
  or its start in the stimulus.
- `DelaysAreExact`: the action property `TimeKept`, step by step; division rounds up.
- `VerifiedRunsAgain`: `VerifiedRuns` of all families but SPF, by `SessionInv`.  STF and
  UBP: what an action makes of the history, and whether it is rejected, depends on the
  history and the action alone (`Judgement`), so the run pass, which begins with nothing
  remembered, tells the story of the verification again (`StoryInv`).  TAP: the
  verification remembers nothing, the run pass only fields that the script names, with
  values that fit (`TapInv`).  GEN: what is restored was set before (`ClockInv`).  The
  others are judged by their arguments alone (`AcceptedInv`).
- `GroupsRemembered`: `GroupsTrue`, by `GroupsInv`.  For the ops of one action `Leads` says
  that writing them takes the network from the groups the history had to those it has
  now; it is proved for each way in which an action makes ops, the programming of hubs,
  which are put into the scratch group and back, included.
  `MachinesInv` (every configured action has its machines) and `RatioInv` say the same of
  the breakpoint machines and of the ratio of the test clock.
- `TriggersFire`: the action property `FiresNamed`, by `ArmedInv`: between the actions of the run
  pass a machine is enabled for an action that the table has as enabled, or for one that
  arms its machines again.  Within a trigger (`Midway`) it may also be enabled for an action that is
  being triggered, and no other rival of those is left.  A pin belongs to one trigger since
  a digit is known from its bits (`DigitBits`).
- `LabelsStayClear`: `LabelsClear`, by `CommandInv`, which says it of the last command and
  that the patmods known are lists of usages with lists of what relates to them
  (`PatLists`: what is read is, `AllRead`, and relating more keeps it, `AllRelated`).  Each patmod
  that is announced has a name of the register, and stands on bits of it that lie under
  the place of its entry (`AllCovered`), of which the action clears the labels; in a raw
  shift both count from the register.
- `KeptInv`, for the TAP half of `IncrementalKeeps`: the register holds what is
  remembered of it, and, where nothing is remembered, the reset values of the fields that
  no other reaches into from below (`Holding`).  The defaults that an incremental write adds
  lie apart from each other and from what is named (`DefaultsApart`).

Its last sections are the lemmas about a network that the next module builds on: what a
selection tells SPF, where packets go, what one write makes of registers and history.

`StfNetworkProofs`, for any tree of hubs and stops, any groups and scripts of any length:

- `WritesArrive`: `WritesReach`, by `NetInv`, which says what holds between two actions.
  Where SPF programs the network (`ToldNet`), a stop is tracked in the group that the
  history has it in, and the grouping that was printed last is the one tracked: each op
  of a selection keeps the first (`TrackFollows`), its last op prints (`LastPrints`).
  Where the action programs it (`OwnNet`), the registers of the hubs are remembered as
  they are (`Carried`), and the history is `Sound`: a hub is counted in a group at least
  as often as stops below it are in the group, one that is counted carries it, and one
  that carries a group carries the scratch group too.  `Sound` alone says that a
  plain write arrives.  For a selection it has to survive the plan (`PlanAt`: the counts
  keep up with the stops that have moved, `Into`, and the hubs are planned in an order in
  which none is passed over, `OrderOk`), and each of the writes that carry it out has to
  arrive, those to hubs that are programmed half-way included (`Reached`): from above,
  a hub is programmed after all those above it carry what it is addressed by; from
  below, before any of them gives that up.  `BottomUp` and `OneGroup` (one group, and not
  the scratch group) are needed here.
- `RemembersTruly`: `HistoryTrue`, the registers of stops and hubs by `RecallInv`, for a script
  that only writes.  `Recalls` says of the ops of one action that they lead the network to
  registers that are remembered as they are (`Faithful`), unless they lose a write; that
  none is lost is what `NetInv` adds (`RegStep`).  Being remembered is
  not inductive.  A write sends all fields of the user: those that it does not name as
  they are remembered or, where nothing is, as default, so a field that was never
  written has to be at its default.  A bank in no group is written too, with a packet that no
  stop hears, so its output has to be off already.  And a write must never be addressed to
  such a bank otherwise: what is remembered of group 0 is nothing (`ZeroUnknown`).  The other
  parts follow from `GroupsInv`, `MachinesInv` and `RatioInv`.
- `FieldsStay`: the action property `IncrementalKeeps`.  On a network the fields that an incremental
  write leaves out are sent again from the history (`FieldsKept`), which `RecallInv` has true
  before the step; in a TAP register it is `KeptInv`.

`FoldFacts` proves what those proofs need of folds.  A definition by recursion over
a data structure cannot be reasoned about with the induction theorems of the library,
which take an operator as a parameter.  Here the induction is stated with sets instead:
a set that holds 0 and with each number its successor holds all numbers, which follows
from `WFMin` (`SetInduction`).  From it `FoldSteps` gets the values between the elements of
a fold, for any operator, and `FoldHolds` that what each step keeps, the fold keeps; each
proof instantiates the module with its own operators.  One theorem is about the library:
`FlattenSeq` of sequences over a set is one over that set (`FlatType`).

`StartUpProofs`, for any command line, environment, documents, texts and numbers of lines,
parts and processes:

- `NothingIsLost`: the action property `PartsMerged`, by `PartsInv`.  What `MergedSoFar` says of
  each part that was merged has to survive the parts merged after it: a merge only
  replaces what lies above or below something it brings (`MergeKeeps`), which is why a
  value that no other part disputes stays.  Both pools together submit every part
  once, and the merge takes every part once, each in an order of its own
  (`OrdersArePermutations`), so after as many merges as there are parts none is left out.  A
  file that was merged was written by a process that ended well, or by the master (`Filling`).
- `CommandLineStands`: `CommandLineKept`, from three invariants.  `EnvInv`: no step, of either
  walk, touches a name that the command line set.  `CfgInv`: an override stands since
  `Overrides`; overrides are made one after the other, so none may lie above or below
  another one that it would replace (`GivenApart`), and what is added later (the
  compressor, aliases of signals) goes around what is there.  A document of `-load_cfg`
  replaces without asking, so what stands through it is stated by what it names
  (`NamedAgain`): a category keeps every path that is under none of its own
  (`ReadCategoryKeeps`), and so document by document (`LoadCfgKeeps`); that the paths are
  given as a list of documents is read off the words (`LoadedIsList`).  `FlowsInv`: reading
  the words one by one divides the line as its marks do (`LineDivides`).
- `SecondWalkIsStable`: `SecondWalkStable`, by `WalkInv`, which keeps the history of the first
  walk: the configuration and the documents still to be read, before and after each
  document (`IsHistory`).  The environments of the two walks differ while the second one is
  on, since it begins with what the first left.  What holds is `Between`: each name has
  either the value that the first walk had at this point or the one it had at its end.
  A setting that does not read behind itself gets from either the same value, and that
  value the name keeps to the end unless it is set again (`SettingsAgain`); an import that
  does not depend on a later setting finds the same file (`ImportsAgain`); all functors
  are known from the beginning of the second walk, so one that the first walk did not know
  yet must not be called (`DocumentAgain`).  So the second walk takes the same document at
  each step (`WalkAgain`) and, where nothing is left, ends like the first (`WalkEndsAgain`).

`CollateralCacheProofs`, for any processes, dictionaries, permissions and faults:

- `CacheTypeCorrect`: `TypeOK` is an invariant.
- `CacheInvariant`: the inductive invariant `CacheInv`, in layers that build on each
  other: `Order` (what is left to write lies behind the first loop), `Locking` (a
  process that is still to write an image holds its lock), `Owned` (an image that is
  not whole is being written by the process it names, or that process failed or
  died), `Existent` (a found image does not vanish), `Settled` (nobody with the
  lock is still to write an image that was found under the lock) and `Storing` (an
  image that nobody bypasses is absent until its one writer opens it).
- `LocksHeld`, `LocksForWriting`, `LoadsAreWhole`: the three safety properties of the
  run.  `LoadsWhole` is not inductive: that nobody is writing the image when it is
  loaded depends on nobody being about to, which is `Settled`, and that depends on
  who holds the lock since when.
- `StoreImplemented`: `Spec` implements `ImageStore!Spec` under the refinement that
  maps `bypassed` to the images some process does without the lock of.

The proofs rest on the named assumptions of the modules and nothing else.  Those about the
actions of a session (`ArgumentAssumption`) give arguments the types that
`verify_arguments` insists on, and for SPF say that arguments and the nodes of a patmod
come in lists; those of `StartUp` say that nodes of documents and words are
sequences, that flows are numbered, that the main document exists, that a block of XML
has finitely many attributes, and that nobody gives the manager a name that it sets itself
(`OwnNames`): neither `-ENV:` nor the environment nor a document.

Only model-checked:

- liveness (`ErrorsFail`, `EveryoneEnds`), which the prover cannot state steps for;
- `ActionSession!TypeOK`: that no hub counts below zero follows from `Sound` only for the
  scripts that `WritesReach` speaks of;
- `VerifiedRuns` of SPF, where both passes relate patmods to the same tables, and
  `TemplateDeclares`: a part that is related again replaces the bits it had, which are sorted
  by `SortSeq`, recursive and opaque to the provers;
- `NamedReaches`, what becomes of single bits on their way to the DUT;
- `LargeAsSmall` of `startup`: it compares two readers of the same text, of which the one in
  parts sorts them by size and strips and joins their words: `SortSeq` and `SelectSeq`
  again.

## Where code and description differ

Four descriptions given to `declare_arg`, a message about the checkpoint and a comment
on the locks of the cache are checked as violated properties (above).  Others met while
modelling, without a run of their own.  Here the models do what the code does, and the
properties that would fail carry a condition that keeps clear of it.

Executer and segments:

- `stop_flow` of an action takes effect before its `run()` (`htd_basic_flow.py:620`),
  so its inner actions are ignored, although the description speaks of stopping
  after the action.  `htd_basic_action.py:345` sets another, dead attribute.
- `stop_segment_at_action` is said to stop the segment after the action
  (`htd_basic_segment.py:156`).  The stop is tested before the sub-sequences that precede an
  action (:296) and not again after them (:312), so when one of those executes the action to
  stop at, the enclosing action still runs; and the sub-sequences that follow the stopping
  action run before the stop is raised (:315-326).  `StopAllHolds` lets exactly these through.
- A name that the command line only disables (`disable_action`, `disable_segment`) or gives
  `not_declared:` arguments is never reported, however it is misspelt (:416).
- A read of a locked register is reported as an override, as its value is -1
  (`htd_basic_flow.py:373`).
- The `silent_mode` and `dummy` arguments of a segment are declared and never read.
- The `silent_mode` of a flow takes effect only if the flow aligns, and after the
  alignment (`htd_basic_flow.py:985`).

Command line (`htd_te_manager.py`, `htd_te_manager_utilities.py`):

- `-flow2` before `-flow1-` switches to flow 2 silently; only the check of parity or of a
  missing `flow_name` may catch it.  The error for it names an undefined variable.
- A value that begins with `-` is split off as an argument of its own.
- `-ENV:` inside a flow is applied to the whole process before it is refused.
- A document of `-load_cfg` is read after the overrides of `-CFG:` and undoes them without a
  word (`htd_te_manager.py:603`, `htd_collaterals_parser.py:937-958`).
- Names that the manager sets for its modes (`HTD_TE_HELP_MODE`, `HTD_TE_CFG`,
  `HTD_COLLECT_RTL_SIGNALS_MODE`, ...: `htd_te_manager.py:518-560`, :575, :664,
  `htd_te_manager_utilities.py:94`) overwrite what `-ENV:` gave for them, without a word.
- `TE_Cfg_override` is assigned to a local; only `HTD_TE_CFG` takes effect.
- All parameters of an `EXTERNAL_TEST` flow but its source are dropped, a file of an ignored
  type is skipped silently, and with only `TESTNAME` set the start-up crashes.

History (`htd_history_manager.py`):

- `history_chkpt_file` is loaded into a local name and never used (:42).
- Captures of the verification stay in the run pass when there is no checkpoint or flow 1
  spares the memory; action results of earlier invocations are kept.
- The checkpoint is written in place, so a death while saving loses the old one too.

Argument container (`htd_arguments_container.py`):

- A range that cuts an entry is split by `util_get_int_sub_range` with its arguments in
  another order than the comment at :453 says.  The loop passes the entries that a range
  lies strictly inside of and acts on the first other one only: a range inside all
  entries is dropped, one that cuts a later entry is not noticed, one that reaches above
  the entry it stops at ends in an exception; a read of an equal range brings the oldest
  value back.
- Ranges of an integer are or-ed and never cleared (:661).  `overrideSingleArgument` and
  the deletion of a range end in exceptions; so does `declared:` with an unknown name.

STF (`htd_stf_action.py`):

- Moving a stop between groups keeps it a member of the old one when its other bank is 0, and
  drops it when the other bank still has the group, contrary to the comment at :1297.
- `check_gid` refuses the integer 1, the scratch group, and accepts a list with it (:1143).  The
  second stop that joins it makes the hubs above both leave it, as they count their other
  groups only.
- Without groups, the first common group that does not match is an error, although another
  one might (:1367).
- Deselecting several stops programs the hubs of one stop after those of the other (:1673),
  so a hub above both is programmed before those below it on the second branch, and what
  is meant for these no longer reaches them; likewise from the top down.  A hub's counter
  is decremented for stops that were no members.
- The groups that stops leave are looked up once, before any has left (:1231), so an action
  that deselects a stop twice takes it from its hubs twice: their counters go below
  those of the stops that remain, whose hubs lose the group; and it switches off the
  output of the stop in a group that the stop has left.
- A selection of stops in several groups sets the hubs up again for each stop from the values
  written last (:1665 looks for the hub in a dictionary that is never filled), so a hub
  above two of the groups is programmed for the last one only.
- A selection in network mode that waits never prints its grouping; `RESET` leaves the
  history believing that stops are still in groups; without `reset_history` the run
  pass believes hubs programmed that only the verification programmed.
- Reads, and writes that are not incremental, record defaults; a ranged write in
  incremental mode is overwritten by the whole old field, and one that is not is recorded as
  the default of its field.  A write that names no field records the defaults too, but SPF
  only compares the register with unknown bits (`htd_hpl_spf_interface.py:967`).
- A read of a direct packet expects the bits of its field in reverse (:988), its
  `stf_waitcycles` is never sent, and one without `OPCODE` sends nothing.
- `stf2mci` goes through the number of its data register, so leading zeros are lost and
  the packets get short; its register, TAP and vector forms end in exceptions; when three
  packets fill words exactly, an additional word of zeros is sent.
- A value of `replace` that is wider than its range shifts the rest.

TAP and its SPF output (`htd_tap_action.py`, `htd_hpl_spf_interface.py`,
`htd_patmod_manager.py`):

- In incremental mode a field spelled in lower case is overwritten by the history (278).
- The end of a range is compared with the field's place in the register, so bits beyond the
  field are lost without an error, and the captured value is rejected in the run pass.
- The history is written in the run pass only, so an overlap with a remembered field is first
  found there; raw and non-incremental writes leave it stale.
- Of fields with the same lowest bit the earlier gets no default, and an alias that
  covers a part leaves the other bits 0.  So where documented fields overlap, an
  incremental write changes bits of fields that it does not name: those of a field that
  another one reaches into from below, and those where the reset values differ.
- A raw shift of SPF with the bits 11 prints no data (:730).
- From the first usage without an agent on, no agent of a usage is compared; a ranged usage
  longer than a chunk, and all related usages of a field but the first, are not announced.
- Related usages are appended again in each pass, so a raw shift over two parts can be verified
  and then fail.  The comment at `htd_tap_action.py:1174` says that no label stands with a
  patmod; the SPF interface adds the labels of the register's ends again.
- A patmod without values ends the start-up, one with a text for a value leaves the
  template incomplete.

Control registers (`htd_cr_access_action.py`):

- An injection that is broadcast sets the nodes of the last scope only, and a check after a
  broadcast looks at the last scope only.
- `Reg_history` is never filled, so `incremental_mode` has no effect.
- The first range of a field zeroes the rest of it; the end of a range is compared with the
  field's place in the register; `dri` assigns the fields outside its range.

Breakpoints (`htd_ubp_action.py`, `htd_ubptrigger_action.py`):

- Without `reset_history`, what the verification enabled counts as enabled in the run pass, which
  then drives nothing (:445).
- Disabling a rival switches off the machine that another action took from it (:452), and an
  action that lost its machine counts as enabled and cannot be enabled again.
- Disabling a rearm action that the trigger conflicts with leaves it armed (:736).
- The verification marks the rivals of an enabled action disabled, the run does not, and an
  action that is enabled but has lost its configuration is not configured again; so with
  `allow_shared_trigger` a script can be verified and then be rejected in the run pass.
- A chord has no register to disable it (`htd_ubptrigger_action.py:206`), so two chords of one trigger
  fire together, though enabling one disables the other in the table.
- A pulse without its setting drives nothing, and leaves the machine armed that the table then
  has as disabled, to fire with a later trigger of its pin; a hexadecimal pin is read as decimal (:284); the
  TAP triggers of one register are not merged, though the comment at :313 says so.

Player and signals:

- The ratio of the test clock survives the verification, so a script that does not restore it
  lacks its command in the run pass; a silent action changes it and emits nothing.
- A label named like an indexed one collides with it.
- `signalset_pack` keeps the first value of a repeated signal; `signal_unforce`, `SERIALSET`
  and interactive peeks end in exceptions or return nothing; `signalset_wait` compares a
  maximum in cycles with a time (:204); an internal pulse leaves its signals forced.

Collaterals (`htd_collaterals_parser.py`):

- A large csv collateral returns its last part only (:2605), and does not skip the title after
  `CSV_FORMAT`; blank lines are rows for the small reader only.
- The large tab reader keeps the end of the line in the last word, the small one does not,
  though the comment at :2633 calls them the same.
- The last match of a user text is never reported, and a list without
  `key_value_format` is emptied by each row.
- Division of a large XML block loses its tail, its parts are merged by size instead of in the
  order of the file, and numeric keys become text on their way through JSON.
- All `setenv` are evaluated again before the register access is read, so one
  that reads its own name changes it twice; a filter of a `setenv` is evaluated again after
  each of its names; `$A` is replaced inside `$AB`; an import cycle does not end.
- The second evaluation knows all functors.  A call of one that only a later document defines
  stays in the text as its name on the first walk and becomes its value on the second; and an
  import whose file depends on a name that is set later may lead to other documents.
- `-CFG:INFO:collateral_compressor` with a value that is no compressor is replaced by `json`
  (:295), which only an information in the log tells.
- A dictionary with an entity that is not compiled before a last one that is: the lock
  is released in the first loop, and the image is written without it (:2790).

## Not modelled, and why

- The information service and the interactive interface over sockets: their Python side
  sends `str` and compares `bytes` with `str`; under the Python 3 interpreter the scripts
  name, the first message ends them.  There is no protocol run to check.
- Player APIs, text formats of the ITPP and XDP interfaces, actions that format one command
  (uCPL, fuses, scratchpad, sbftload ...), help, statistics and reports: wording with
  no state to get wrong between calls.
- Signal tracking mode, the debugger, indicators, `post_module` hooks and `debug_readback`:
  user code or tools around the executer.
- Segments: `cluster_model_reset` of the first one in cluster mode (user code that the
  executer calls once), a segment's obligatory arguments, `post_segment_delay` (a wait like
  the one after a flow, which is modelled).
- Actions: read-modify-write and projects' own access handlers of control registers; low-level
  shifts, network agents, masks and captures of TAP; `select_mask` and the bit slicing of
  ranged STF writes; header peeks, labels and `look` of signals.
- Patmods: values given as functions, ranges with a step that is not positive, chunks that
  overlap, labels that are digits; operations without a caller.
- Argument container: attributes of an entry beyond its value and read value (strobe, mask,
  label, capture, patmod), which are merged like these two.
- Configuration: names that are the beginning of one another (their replacement is listed
  above), the attributes `filter_env` and `filter_exp` of a `setenv`, which the code also sets
  as variables, `regreplace`, duplicated nodes, user post-processing functors, dictionaries
  of more than two levels, parsed dictionaries of projects.
- In the cache: collaterals edited while a process parses them (an image's name holds
  the checksum of its sources and is computed twice), `.info` and unzipped temporary
  files, the Windows and soft locks.
- DPI sockets, scripts, git hooks and generated documents.

Two hazards have no property for these reasons: the name of an image that is computed
twice, and integers assembled from ranges that are never cleared.

## Plan

1. `TestExecuter`, `TwoPassRun`, their runs and proofs (done; all its safety properties are
   theorems).
2. `CollateralCache`, `ImageStore`, their runs and proofs (done).
3. `CheckpointHistory`, its run and proofs (done).
4. `ArgumentContainer`, its run and the theorem on obligatory arguments (done).
5. `ActionSession` with its families and its proofs, `StartUp` and its proofs (done; what is left
   to TLC is listed above).
6. Next: read-modify-write of control registers, network agents of TAP, and several families
   in one script with locks (`TestExecuter`) and checkpoint (`CheckpointHistory`).
7. Next: the images of the cache together with the edits of collaterals.
