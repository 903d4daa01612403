---------------------------- MODULE MCWalletLink ----------------------------
(* Instances of WalletLink for TLC. *)
EXTENDS WalletLink, TLC

CONSTANTS l1, l2, k1

(* nothing is claimed about tainted states: none is followed *)
NotTainted == ~tainted

LinkSymmetry == Permutations(Links)
=============================================================================
