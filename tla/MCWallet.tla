------------------------------ MODULE MCWallet ------------------------------
(* A small instance of Wallet.tla for TLC.                                 *)
EXTENDS Wallet, TLC

KeySymmetry == Permutations(Key)
=============================================================================
