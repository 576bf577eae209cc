--------------------------- MODULE MCStreamWorker ---------------------------
(***************************************************************************)
(* Small instances of StreamWorker for TLC.                                *)
(***************************************************************************)
EXTENDS StreamWorker, TLC

CONSTANTS w1, w2, d1

Symmetry == Permutations(Workers \ DryRuns)
=============================================================================
