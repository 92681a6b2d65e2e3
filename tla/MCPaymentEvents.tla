--------------------------- MODULE MCPaymentEvents ---------------------------
(* Small instances of payment events for TLC.                              *)
EXTENDS PaymentEvents, TLC

\* A referral that earns nothing.
NoReferrer == [open : {TRUE}, referrer : {FALSE}, percent : Percents, rates : {TRUE}]
=============================================================================
