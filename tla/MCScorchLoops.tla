--------------------------- MODULE MCScorchLoops ---------------------------
(* Small instances of ScorchLoops for TLC. *)
EXTENDS ScorchLoops, TLC

CONSTANTS w1, w2, f1

MCSymmetry == Permutations({w1, w2})
=============================================================================
