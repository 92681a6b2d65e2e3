----------------------------- MODULE Settlement -----------------------------
(***************************************************************************)
(* What the platform promises about the money behind an order, whatever    *)
(* the provider and the workers do: an order is charged once; it is closed *)
(* once, for good; and what was charged is paid back at most once, in full *)
(* or in part, and only for an order that was closed as not (fully)        *)
(* delivered.                                                              *)
(***************************************************************************)
EXTENDS Integers

CONSTANTS
    Orders,
    Price           \* what each order costs its user, a positive number each

VARIABLES
    outcome,        \* "open", "kept" (the charge stands) or "owed"
    held            \* how much of the price the platform still holds

vars == <<outcome, held>>

Init ==
    /\ outcome = [o \in Orders |-> "open"]
    /\ held = Price

Close(o) ==
    /\ outcome[o] = "open"
    /\ \E verdict \in {"kept", "owed"} :
          outcome' = [outcome EXCEPT ![o] = verdict]
    /\ UNCHANGED held

PayBack(o) ==
    /\ outcome[o] = "owed"
    /\ held[o] = Price[o]
    /\ \E rest \in 0 .. Price[o] - 1 : held' = [held EXCEPT ![o] = rest]
    /\ UNCHANGED outcome

Next == \E o \in Orders : Close(o) \/ PayBack(o)

Spec == Init /\ [][Next]_vars
=============================================================================
