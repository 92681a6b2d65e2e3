\* Three requests of every kind on a user in debt; processes may die.
SPECIFICATION Spec
CONSTANTS
    Requests = {r1, r2, r3}
    Ops = {"debit", "refund", "credit", "add", "deduct", "forcedDebit", "set", "inflate", "deflate", "limit"}
    Amounts = {1, 2}
    Limits = {0, 3}
    Targets <- SomeTargets
    Percents = {50}
    OpeningBalance <- NegativeOpening
    OpeningLimit = 2
    NoOp = NoOp
SYMMETRY RequestSymmetry
INVARIANTS WalletTypeOK MirrorsBalance WithinCredit AtomicOpsLedger
CHECK_DEADLOCK FALSE
