------------------------------ MODULE Documents ------------------------------
(* What the back office's components share: requests that each run once,   *)
(* and the documents they read and write.                                  *)

CONSTANTS
    Clients,        \* customers' requests
    Reviews,        \* administrators' requests
    None            \* null

ASSUME TasksAssumption == Clients \cap Reviews = {} /\ None \notin Clients \cup Reviews

\* Mongoose's save(): of a document read as `copy` and changed to `edited`, the fields
\* that changed are written over what the document has become, the others are not.
Saved(doc, copy, edited) ==
    [f \in DOMAIN doc |-> IF edited[f] # copy[f] THEN edited[f] ELSE doc[f]]
=============================================================================
