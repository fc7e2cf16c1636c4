-------------------------- MODULE CheckpointHistory --------------------------
(***************************************************************************)
(* The history manager (tools/htd_te/bin/htd_history_manager.py) over      *)
(* several invocations of the test executer that share a checkpoint file.  *)
(* The history is a process's memory of what its actions did: blacklist,   *)
(* TAP and STF history, and parametric tables (action results, labels).    *)
(* htd_te_manager.py initialises it before the verification pass and again *)
(* before the run pass, and writes it to the checkpoint when a run         *)
(* succeeds.  A step is one call of the manager, or one capture.           *)
(***************************************************************************)
EXTENDS Naturals

CONSTANTS
  Keys,      \* paths of keys in the container of the history manager
  RunOnly,   \* keys of the blacklist and the TAP history
  Results,   \* keys of the table "ActionResults"
  Confs,     \* the command lines users give, see Conf
  MaxInv,    \* bound: invocations
  None,      \* no entry; no file
  Torn       \* what is in a file whose writer has not finished, or never will

(***************************************************************************)
(* A command line: is flow 1 among its flows, "force_history_chkpt",       *)
(* "reset_history", CFG["HPL"]["skip_history_file"], "check", and whether  *)
(* "history_chkpt_file" is not given, names a checkpoint or names none.    *)
(***************************************************************************)
Conf == [flow1 : BOOLEAN, force : BOOLEAN, reset : BOOLEAN, skip : BOOLEAN,
         check : BOOLEAN, chkpt : {"", "found", "missing"}]

Invs == 1..MaxInv
Passes == {"verify", "run"}
Stamps == [inv : Invs, pass : Passes]  \* who captured an entry, and when
Stores == [Keys -> Stamps \cup {None}]
Empty == [k \in Keys |-> None]

ASSUME HistoryAssumption ==
    /\ RunOnly \subseteq Keys /\ Results \subseteq Keys
    /\ RunOnly \cap Results = {}
    /\ Confs \subseteq Conf
    /\ MaxInv \in Nat
    /\ None \notin Stamps
    /\ None # Torn /\ None \notin Stores /\ Torn \notin Stores

VARIABLES
  phase,     \* "idle" between invocations, the pass, or "saving"
  inv,       \* number of the invocation
  conf,      \* its command line
  store,     \* htd_history_mgr.container
  file,      \* the checkpoint file
  completed, \* history: invocations that have written their checkpoint
  announced  \* history: the last to say "deleting by FLOW1 sequence", or 0

vars == <<phase, inv, conf, store, file, completed, announced>>

TypeOK ==
    /\ phase \in Passes \cup {"idle", "saving"}
    /\ inv \in 0..MaxInv
    /\ phase # "idle" => inv > 0
    /\ conf \in Confs
    /\ store \in Stores
    /\ file \in Stores \cup {None, Torn}
    /\ completed \subseteq Invs
    /\ announced \in 0..MaxInv

-----------------------------------------------------------------------------
(***************************************************************************)
(* __history_init.  FLOW1 says that it deletes the checkpoint it finds; it *)
(* leaves the file alone and the container as it is.  restore() replaces   *)
(* the container if there is a file.  load_history() binds a local name to *)
(* what it loads, so a checkpoint that is named has no effect; if it is    *)
(* missing, the misspelt call of the logger raises an exception.           *)
(***************************************************************************)
SparesMemory(c) == c.flow1 /\ ~c.force /\ file # None   \* "deleting by FLOW1"

Restore(c, kept) ==
    IF SparesMemory(c) \/ file = None THEN kept ELSE file

InitDroppingVerification(c, kept) ==   \* mutant: so as to forget captures
    IF c.skip THEN kept
    ELSE IF c.reset \/ kept # Empty THEN Empty ELSE Restore(c, kept)
HistoryInit(c, kept) ==
    IF c.skip THEN kept ELSE IF c.reset THEN Empty ELSE Restore(c, kept)

InitSkipsTorn(c) == ~c.skip /\ c.chkpt = "missing"   \* mutant
InitFails(c) ==
    /\ ~c.skip
    /\ \/ file = Torn /\ ~SparesMemory(c)
       \/ c.chkpt = "missing"

AnnounceNext(c) ==   \* mutant: counts the invocation twice
    announced' = IF ~c.skip /\ SparesMemory(c) THEN inv' + 1 ELSE announced
Announce(c) ==
    announced' = IF ~c.skip /\ SparesMemory(c) THEN inv' ELSE announced

\* htd_te_manager.py up to the verification pass, in a new process
Invoke ==
    /\ phase = "idle"
    /\ inv < MaxInv
    /\ inv' = inv + 1
    /\ conf' \in Confs
    /\ Announce(conf')
    /\ IF InitFails(conf')
         THEN /\ phase' = "idle"
              /\ UNCHANGED store
         ELSE /\ phase' = "verify"
              /\ store' = HistoryInit(conf', Empty)
    /\ UNCHANGED <<file, completed>>

(***************************************************************************)
(* Captures.  exec_action_obj locks registers in the run pass only, and a  *)
(* TAP action updates its history in the run pass only; an STF action      *)
(* updates it while it verifies its arguments, in both passes.  The result *)
(* of an action is captured in both passes, unless there is one already.   *)
(***************************************************************************)
Has(k) == store[k] # None

Captured(k) ==
    /\ k \in RunOnly => phase = "run"
    /\ k \in Results => ~Has(k)

Capture(k) ==
    /\ phase \in Passes
    /\ phase = "verify" => conf.check
    /\ Captured(k)
    /\ store' = [store EXCEPT ![k] = [inv |-> inv, pass |-> phase]]
    /\ UNCHANGED <<phase, inv, conf, file, completed, announced>>

\* The end of the verification loop and the second __history_init; no flow
\* is verified with "check" off.
BeginRun ==
    /\ phase = "verify"
    /\ inv' = inv
    /\ Announce(conf)
    /\ IF InitFails(conf)
         THEN /\ phase' = "idle"
              /\ UNCHANGED store
         ELSE /\ phase' = "run"
              /\ store' = HistoryInit(conf, store)
    /\ UNCHANGED <<conf, file, completed>>

\* save_history opens the checkpoint in place, which empties it ...
BeginSave ==
    /\ phase = "run"
    /\ ~conf.skip
    /\ phase' = "saving"
    /\ file' = Torn
    /\ UNCHANGED <<inv, conf, store, completed, announced>>

\* ... and dumps the container into it.
EndSave ==
    /\ phase = "saving"
    /\ phase' = "idle"
    /\ file' = store
    /\ completed' = completed \cup {inv}
    /\ UNCHANGED <<inv, conf, store, announced>>

\* The end of a run that keeps no history.
EndUnsaved ==
    /\ phase = "run"
    /\ conf.skip
    /\ phase' = "idle"
    /\ UNCHANGED <<inv, conf, store, file, completed, announced>>

\* Errors collected in a pass, an exception, a container that cannot be
\* pickled (the TypeError of save_history), or a kill.
SavedAnyhow == IF phase = "run" THEN store ELSE file   \* mutant: a finally
LeftByAbort == file
Abort ==
    /\ phase \in Passes \cup {"saving"}
    /\ phase' = "idle"
    /\ file' = LeftByAbort
    /\ UNCHANGED <<inv, conf, store, completed, announced>>

Init ==
    /\ phase = "idle"
    /\ inv = 0
    /\ conf \in Confs
    /\ store = Empty
    /\ file = None
    /\ completed = {}
    /\ announced = 0

Next ==
    \/ Invoke
    \/ \E k \in Keys : Capture(k)
    \/ BeginRun \/ BeginSave \/ EndSave \/ EndUnsaved \/ Abort

Spec == Init /\ [][Next]_vars

-----------------------------------------------------------------------------
(***************************************************************************)
(* Safety properties.                                                      *)
(***************************************************************************)
Entries(s) == {s[k] : k \in Keys} \ {None}
Alive == phase # "idle"
Whole == file \notin {None, Torn}

\* What the checkpoint holds was captured by invocations that completed, and
\* what a process knows, by those or by itself: an invocation that fails or
\* is killed at any point leaves nothing behind (restore and save_history
\* around the passes of htd_te_manager.py).
FromCompleted ==
    /\ Whole => \A e \in Entries(file) : e.inv \in completed
    /\ Alive => \A e \in Entries(store) : e.inv \in completed \cup {inv}

\* The verification pass locks no register and records no TAP write, not
\* even for the run pass or for later invocations: their keys carry captures
\* of run passes only (htd_basic_flow.py, htd_tap_action.py).
VerificationLeavesNoLock ==
    /\ Whole => \A k \in RunOnly : file[k] # None => file[k].pass = "run"
    /\ Alive => \A k \in RunOnly : store[k] # None => store[k].pass = "run"

\* With reset_history, nothing of an earlier invocation is visible in either
\* pass (__history_init cleans after it restores).
ResetForgets ==
    Alive /\ conf.reset => \A e \in Entries(store) : e.inv = inv

\* What is in the checkpoint is in force during the passes of an invocation
\* that neither resets, skips nor spares the history: no capture, and not the
\* second initialisation, may drop an entry.
CheckpointInForce ==
    phase \in Passes /\ Whole /\ ~conf.reset /\ ~conf.skip /\ ~SparesMemory(conf)
        => \A k \in Keys : file[k] # None => store[k] # None

\* A checkpoint whose writer died blocks every pass, of any later invocation,
\* but those of flow 1 and those that keep no history (restore fails on it).
TornBlocks ==
    phase \in Passes /\ file = Torn => conf.skip \/ (conf.flow1 /\ ~conf.force)

\* htd_te_manager.py:397 "Checkpoint file(%s) found , deleting by FLOW1
\* sequence." - once it has said so, no process sees older entries.
FlowOneDeletes ==
    Alive /\ announced > 0 => \A e \in Entries(store) : e.inv >= announced
=============================================================================
