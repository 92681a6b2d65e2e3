\* Two administrators, every request, calls that time out, refunds that abort.
SPECIFICATION AdminSpec
CONSTANTS
    Orders = {o1, m1}
    ManualOrders = {m1}
    QuotaOrders = {}
    Workers = {w1}
    Admins = {a1, a2}
    Quantity = 2
    Charge = 3
    Replies = {"wait", "completed", "partial", "cancelled", "failed"}
    Faults = {"timeout", "txn_abort", "offline"}
    MaxRetry = 2
    None = None
    AdminOps = {"refund", "fail", "sync", "retry", "complete"}
INVARIANTS NeverOverRefunded PaidBackIsFlagged
CHECK_DEADLOCK FALSE
SYMMETRY ProcSymmetry
