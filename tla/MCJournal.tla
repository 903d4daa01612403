----------------------------- MODULE MCJournal -----------------------------
(* Small instances of SignerHome, and with it of Journal, for TLC. *)
EXTENDS SignerHome, TLC

CONSTANTS a, b, n1, n2, s1, s2, s3

AllEvents == Others \cup SUBSET (Networks \X Seeds)

HomeSymmetry == Permutations({a, b}) \cup Permutations(Networks) \cup Permutations(Seeds)
=============================================================================
