CONSTANTS
    Recipients <- MCRecipients
    NoRecipient = 0
    Terms <- MCTerms
    Expiries = {1}
    Decisions = {1, 2, 3, 4, 5}
    NoDecision = 0
    MaxPayments = 3
    MaxBatch = 8
    Menu = {1, 2, 4, 8}
    MaxAmount = 10
    OwnerTokens = 4
    DepositTokens = 1
    Openers = {2}
    MaxTime = 1
    MaxAttempts = 2
    MaxFaults = 0
    Hostile = TRUE
SPECIFICATION SystemSpec
INVARIANTS
    OneInFlight
    BooksComplete
    SimulatesAfterExhaustion
\* A finished or refunded queue leaves nothing to do.
CHECK_DEADLOCK FALSE
