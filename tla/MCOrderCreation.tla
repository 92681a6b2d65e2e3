--------------------------- MODULE MCOrderCreation ---------------------------
(* Small instances of order creation for TLC.                              *)
EXTENDS OrderCreation
=============================================================================
