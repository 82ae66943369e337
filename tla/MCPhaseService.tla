--------------------------- MODULE MCPhaseService ---------------------------
(* Instances of PhaseService for TLC.                                      *)
EXTENDS PhaseService, TLC

(* Threads run the same code on the same change.                           *)
ThreadSymmetry == Permutations(Threads)
=============================================================================
