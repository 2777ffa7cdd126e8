-------------------------------- MODULE MCWorker --------------------------------
(* Two bounties, so that one can be settled while the other is worked on; the  *)
(* cfgs say which faults occur.                                                *)
EXTENDS Worker, TLC

MCSymmetry == Permutations(Bounties)
================================================================================
