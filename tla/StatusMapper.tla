---------------------------- MODULE StatusMapper ----------------------------
(***************************************************************************)
(* The pure translation of what a provider says about an order into the    *)
(* platform's own order status (providers/statusMapper.js).                *)
(*                                                                         *)
(* The fulfilment engine asks three separate questions of a raw status:    *)
(* which internal status it means (one table), whether it ends the order   *)
(* (derived from that table) and whether it calls for a refund (a second,  *)
(* hand-written list).  The engine is only right if the two lists agree,   *)
(* because it reads "terminal and no refund" as "delivered".               *)
(*                                                                         *)
(* Raw statuses are written in the lower-case, trimmed form to which the   *)
(* code reduces them first.                                                *)
(***************************************************************************)

\* ORDER_STATUS
PENDING       == "PENDING"
PROCESSING    == "PROCESSING"
COMPLETED     == "COMPLETED"
CANCELED      == "CANCELED"
PARTIAL       == "PARTIAL"
FAILED        == "FAILED"
MANUAL_REVIEW == "MANUAL_REVIEW"

OrderStatus ==
    {PENDING, PROCESSING, COMPLETED, CANCELED, PARTIAL, FAILED, MANUAL_REVIEW}

\* The provider status the engine itself writes while a placement is undecided.
UNCERTAIN == "placement_uncertain"

-----------------------------------------------------------------------------
(* The table _MAP, one set of aliases for each internal status.            *)

CompletedAliases ==
    {"completed", "complete", "success", "done", "accept", "accepted", "ok",
     "delivered", "fulfilled"}

WorkingAliases ==
    {"processing", "in_progress", "in progress", "inprogress", "in_process",
     "running", "active", "pending", "queued", "wait", "waiting", "awaiting",
     "new", "created", UNCERTAIN}

PartialAliases == {"partial", "partially_completed", "partial_complete"}

CanceledAliases == {"cancelled", "canceled", "cancel"}

FailedAliases ==
    {"failed", "fail", "error", "rejected", "reject", "refunded", "expired"}

KnownAliases ==
    CompletedAliases \cup WorkingAliases \cup PartialAliases
        \cup CanceledAliases \cup FailedAliases

\* An unrecognised status keeps the order in PROCESSING.
toInternalStatus(s) ==
    CASE s \in CompletedAliases -> COMPLETED
      [] s \in PartialAliases   -> PARTIAL
      [] s \in CanceledAliases  -> CANCELED
      [] s \in FailedAliases    -> FAILED
      [] OTHER                  -> PROCESSING

isTerminal(s) == toInternalStatus(s) \in {COMPLETED, FAILED, CANCELED, PARTIAL}

\* Mutant: an alias added to the first list only.
RefundAliasesShort ==
    {"cancelled", "canceled", "cancel", "failed", "fail", "error", "reject",
     "rejected", "refunded", "partial", "partially_completed", "partial_complete"}

\* The second list, which the code spells out on its own.
RefundAliases ==
    {"cancelled", "canceled", "cancel", "failed", "fail", "error", "reject",
     "rejected", "refunded", "expired", "partial", "partially_completed",
     "partial_complete"}

requiresRefund(s) == s \in RefundAliases
=============================================================================
