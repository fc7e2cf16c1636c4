------------------------ MODULE MCCheckpointHistory ------------------------
(* Small instances of CheckpointHistory. *)
EXTENDS CheckpointHistory

Plain == [flow1 |-> FALSE, force |-> FALSE, reset |-> FALSE, skip |-> FALSE,
          check |-> TRUE, chkpt |-> ""]

\* Command lines that go through __history_init differently.
MCConfs == {Plain,
            [Plain EXCEPT !.flow1 = TRUE],
            [Plain EXCEPT !.flow1 = TRUE, !.force = TRUE],
            [Plain EXCEPT !.reset = TRUE],
            [Plain EXCEPT !.flow1 = TRUE, !.reset = TRUE, !.check = FALSE],
            [Plain EXCEPT !.skip = TRUE],
            [Plain EXCEPT !.chkpt = "found", !.check = FALSE],
            [Plain EXCEPT !.chkpt = "missing"]}
=============================================================================
