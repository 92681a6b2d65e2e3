\* Two deposits, two deliveries of one SMS, in any order.
SPECIFICATION FairEventSpec
CONSTANTS
    Deposits = {d1, d2}
    Events = {e1}
    Deliveries = {w1, w2}
    Admins = {}
    Ops = {}
    Amounts = {1, 2}
    Percents = {0}
    FromRate = 1
    ToRate = 2
    Foreign = {FALSE}
    Openings <- NoReferrer
    CanCrash = TRUE
    AutoApprove = TRUE
    None = None
INVARIANTS EventTypeOK ProcessedIsPaid AutoCreditIsThePayment
PROPERTIES PaymentArrives
CHECK_DEADLOCK FALSE
