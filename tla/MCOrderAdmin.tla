---------------------------- MODULE MCOrderAdmin -----------------------------
(* Small instances of the order machine with administrators for TLC.       *)
EXTENDS OrderAdmin, TLC

ProcSymmetry == Permutations(Workers) \cup Permutations(Admins)
=============================================================================
