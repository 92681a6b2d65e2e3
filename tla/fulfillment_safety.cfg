\* One order, two cluster workers, every known reply: crashes, failing calls, lost
\* acknowledgements, an offline provider.
SPECIFICATION Spec
CONSTANTS
    Orders = {o1}
    ManualOrders = {}
    QuotaOrders = {}
    Workers = {w1, w2}
    Admins = {}
    Quantity = 2
    Charge = 3
    Replies <- AllReplies
    Faults = {"crash", "db_error", "txn_abort", "timeout", "offline", "unknown_commit"}
    MaxRetry = 2
    None = None
SYMMETRY WorkerSymmetry
INVARIANTS TypeOK ClosedAsReported RefundOnlyAfterFailure NoFreeGoods
PROPERTIES ImplementsSettlement
CHECK_DEADLOCK FALSE
