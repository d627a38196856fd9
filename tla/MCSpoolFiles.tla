---------------------------- MODULE MCSpoolFiles ----------------------------
(***************************************************************************)
(* SpoolFiles for TLC.  Either the server is stopped and started, or       *)
(* another photo takes over the name: the two together have four times the *)
(* states of both.                                                         *)
(***************************************************************************)
EXTENDS SpoolFiles, TLC

CONSTANTS t1, t2

VARIABLE restarted

TwoSizes == 1 :> 2 @@ 2 :> 3
TwoMedia == 1 :> 1 @@ 2 :> 3
TwoPhotos == {1, 2}

ThreadSymmetry == Permutations({t1, t2})

MCInit == Init /\ restarted \in BOOLEAN

MCNext ==
    /\ Next /\ UNCHANGED restarted
    /\ IF restarted THEN retakes' = 0 ELSE gen' = 1

MCSpec == MCInit /\ [][MCNext]_<<vars, restarted>>
=============================================================================
