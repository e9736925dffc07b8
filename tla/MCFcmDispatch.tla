--------------------------- MODULE MCFcmDispatch ---------------------------
(* Instances of FcmDispatch for TLC.                                       *)
EXTENDS FcmDispatch, TLC

Symmetry == Permutations(Worker) \cup Permutations(Device)
=============================================================================
