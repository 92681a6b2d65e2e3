---------------------------- MODULE MCFulfillment ----------------------------
(* Small instances of the fulfilment engine for TLC.                       *)
EXTENDS Fulfillment, TLC

\* Everything the tables of statusMapper.js know how to read.
AllReplies == KnownAliases \ {UNCERTAIN}

WorkerSymmetry == Permutations(Workers)
=============================================================================
