-------------------------- MODULE MCCollateralCache --------------------------
(***************************************************************************)
(* Small instances of CollateralCache.  In Cache two processes take two    *)
(* locks each, one of them with a wait that may time out; the third, of    *)
(* another user, can open no lock file and not write to the directory.     *)
(***************************************************************************)
EXTENDS CollateralCache, TLC

CONSTANTS p1, p2, p3

\* The second image is never saved, as its last entity is not compiled.
MCEntities == << <<TRUE>>, <<TRUE, FALSE>>, <<TRUE, TRUE>> >>
MCWanted == p1 :> {1, 2, 3} @@ p2 :> {1, 3} @@ p3 :> {1, 2}

OneEntity == << <<TRUE>> >>
AllWanted == [p \in Procs |-> Dicts]
=============================================================================
