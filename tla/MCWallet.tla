------------------------------ MODULE MCWallet -------------------------------
(* Small instances of the wallet for TLC.                                  *)
EXTENDS Wallet, TLC

RequestSymmetry == Permutations(Requests)

\* cfg files have no negative numbers.
NegativeOpening == -1
SomeTargets == {-4, 2}
=============================================================================
