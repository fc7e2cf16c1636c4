----------------------------- MODULE ImageStore -----------------------------
(***************************************************************************)
(* What the saved images of the collateral dictionaries promise to the     *)
(* processes of a site: as long as nobody bypasses the lock of an image,   *)
(* it is written at most once, by one process, and once it is whole it     *)
(* stays whole.                                                            *)
(***************************************************************************)
CONSTANTS Procs,
          Dicts

VARIABLES image,     \* d -> "absent", "whole", or the last process that opened
                     \* it for writing and has not finished
          bypassed   \* the dictionaries whose lock some process does without

vars == <<image, bypassed>>

Init ==
    /\ image \in [Dicts -> {"absent", "whole"}]
    /\ bypassed \in SUBSET Dicts

Bypass(d) ==
    /\ bypassed' = bypassed \cup {d}
    /\ UNCHANGED image

Open(p, d) ==
    /\ d \notin bypassed => image[d] = "absent"
    /\ image' = [image EXCEPT ![d] = p]
    /\ UNCHANGED bypassed

Close(p, d) ==
    /\ image[d] = p \/ (d \in bypassed /\ image[d] \in Procs)
    /\ image' = [image EXCEPT ![d] = "whole"]
    /\ UNCHANGED bypassed

Next == \E d \in Dicts :
    Bypass(d) \/ \E p \in Procs : Open(p, d) \/ Close(p, d)

Spec == Init /\ [][Next]_vars
=============================================================================
