\* Two deposits with one transaction id look for the same payment.
SPECIFICATION EventSpec
CONSTANTS
    Deposits = {d1, d2}
    Events = {e1}
    Deliveries = {w1}
    Admins = {}
    Ops = {}
    Amounts = {1}
    Percents = {0}
    FromRate = 1
    ToRate = 2
    Foreign = {FALSE}
    Openings <- NoReferrer
    CanCrash = FALSE
    AutoApprove = TRUE
    None = None
INVARIANTS OnePaymentOneDeposit
CHECK_DEADLOCK FALSE
