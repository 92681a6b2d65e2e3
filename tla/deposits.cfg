\* One deposit, two administrators' requests that may die, a referral that changes.
SPECIFICATION FairDepositSpec
CONSTANTS
    Deposits = {d1}
    Events = {}
    Admins = {a1, a2}
    Ops = {"edit", "reconcile", "replay"}
    Amounts = {1, 2}
    Percents = {0, 1, 2}
    FromRate = 1
    ToRate = 2
    Foreign = {TRUE, FALSE}
    Openings <- AllOpenings
    CanCrash = TRUE
    None = None
INVARIANTS CreditedOnce CommissionBacked ProcessedHasCommission
PROPERTIES MarkSettles
CHECK_DEADLOCK FALSE
