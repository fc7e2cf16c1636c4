----------------------------- MODULE PlayerOutput ------------------------------
(***************************************************************************)
(* State that the player keeps while it writes the stimulus of a test      *)
(* (htd_player_ui.py, for the GEN action RATIO and for the labels of a TAP *)
(* action): the ratio of the test clock, and how often each label was      *)
(* used.  In silent mode the commands go to another file, but the player   *)
(* changes its state all the same.                                         *)
(***************************************************************************)
EXTENDS Integers, Sequences, FiniteSets, SequencesExt

CONSTANTS
  Names,       \* labels
  Indexed      \* <<label, n>> -> the label that it is indexed to, "X_n"

DefaultRatio == 1

\* What the player knows; clk: was the clock of the ratio ever set?
NewPlayer == [ratio |-> DefaultRatio, clk |-> FALSE]
NoLabels == [x \in Names |-> -1]   \* the table "HPL_Labels": -1 if there is no entry

\* What is in the stimulus: the ratio in force, and the labels.
NoStimulus == [ratio |-> DefaultRatio, labels |-> <<>>]

\* get_indexed_label: the first label is itself, then label_1, label_2 ...
Counted(labels, x) == [labels EXCEPT ![x] = @ + 1]
Label(labels, x) == IF labels[x] = -1 THEN x ELSE Indexed[<<x, labels[x] + 1>>]

\* restore_ratio of a ratio that was never set is an error.
GenOk(player, a) == a.op = "restore" => player.clk

\* set_ratio and restore_ratio: a command is written on a change only.
Wanted(a) == IF a.op = "restore" THEN DefaultRatio ELSE a.ratio
Ratioed(player, a) ==
    IF a.op = "restore" THEN [player EXCEPT !.ratio = DefaultRatio]
    ELSE IF a.ratio # player.ratio THEN [ratio |-> a.ratio, clk |-> TRUE] ELSE player

\* What the stimulus is after the action, if the action is not silent.
Played(out, player, labels, a) ==
    IF a.op = "label" THEN [out EXCEPT !.labels = Append(@, Label(labels, a.name))]
    ELSE IF Ratioed(player, a).ratio # player.ratio THEN [out EXCEPT !.ratio = Wanted(a)]
    ELSE out
=============================================================================
