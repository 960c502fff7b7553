---------------------------- MODULE MCBlockchain ----------------------------
(* Small instances of Blockchain.tla for TLC.                              *)
EXTENDS Explorer, TLC

HashSymmetry == Permutations(Hash \ {GenesisHash})
=============================================================================
