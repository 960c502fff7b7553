----------------------------- MODULE MCStorage -----------------------------
(* Small instances of Storage.tla for TLC.                                 *)
EXTENDS Storage, TLC

HashSymmetry == Permutations(Hash \ {GenesisHash})
=============================================================================
