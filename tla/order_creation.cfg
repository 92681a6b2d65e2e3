\* Three requests, one key or none, funds for two orders, every deployment and
\* with no, some or all faults.
SPECIFICATION FairSpec
CONSTANTS
    Requests = {r1, r2, r3}
    Keys = {k1}
    NoKey = NoKey
    Numbers = {n1, n2}
    NoNumber = NoNumber
    Price = 1
    Opening = 2
    FaultSets = {{}, {"crash"}, {"crash", "db_error", "unknown_commit"}}
INVARIANTS CreationTypeOK NoFreeOrder ChargedForOrdersOnly AnswerIsTruth
PROPERTIES Answered
CHECK_DEADLOCK FALSE
