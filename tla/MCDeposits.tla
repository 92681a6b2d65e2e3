----------------------------- MODULE MCDeposits ------------------------------
(* Small instances of deposits for TLC.                                    *)
EXTENDS Deposits, TLC

DepositSymmetry == Permutations(Deposits) \cup Permutations(Admins)

\* Every referral that is still open.
AllOpenings == [open : {TRUE}, referrer : BOOLEAN, percent : Percents, rates : BOOLEAN]
=============================================================================
