CONSTANTS
    Recipients <- MCRecipients
    NoRecipient = 0
    Terms <- MCShortTerms
    Expiries = {1}
    Decisions = {1, 2, 3, 4, 5}
    NoDecision = 0
    MaxPayments = 2
    MaxBatch = 8
    Menu = {1, 2, 4, 8}
    MaxAmount = 10
    OwnerTokens = 4
    DepositTokens = 0
    Openers = {}
    MaxTime = 1
    MaxAttempts = 2
    MaxFaults = 2
    Hostile = FALSE
SPECIFICATION FairSpec
PROPERTIES
    SignaturesSettle
    WorkerFinishes
\* A finished or refunded queue leaves nothing to do.
CHECK_DEADLOCK FALSE
