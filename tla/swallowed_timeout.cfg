\* An adapter turns a lost answer into a rejection.
SPECIFICATION Spec
CONSTANTS
    Orders = {o1}
    ManualOrders = {}
    QuotaOrders = {}
    Workers = {w1}
    Admins = {}
    Quantity = 2
    Charge = 3
    Replies = {"wait", "completed", "partial", "cancelled", "failed"}
    Faults = {"swallow"}
    MaxRetry = 2
    None = None
INVARIANTS NoFreeGoods
CHECK_DEADLOCK FALSE
