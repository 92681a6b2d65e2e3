\* Two workers that overwrite each other's retry counts, calls that time out or
\* are reported as refused, partial deliveries without their remains.
SPECIFICATION FairSpec
CONSTANTS
    Orders = {o1}
    ManualOrders = {}
    QuotaOrders = {}
    Workers = {w1, w2}
    Admins = {}
    Quantity = 2
    Charge = 3
    Replies = {"wait", "completed", "partial", "cancelled", "failed"}
    Faults = {"timeout", "swallow", "unknown_commit", "no_remains"}
    MaxRetry = 3
    None = None
PROPERTIES Settles RefundArrives
CHECK_DEADLOCK FALSE
