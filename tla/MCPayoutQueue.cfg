CONSTANTS
    Recipients <- MCRecipients
    NoRecipient = 0
    Terms <- MCTerms
    Expiries = {2}
    Decisions = {d1, d2}
    NoDecision = NoDecision
    MaxPayments = 16
    MaxBatch = 8
    Menu = {1, 2, 4, 8}
    MaxAmount = 20
    OwnerTokens = 17
    DepositTokens = 2
    Openers = {1, 16}
    MaxTime = 3
    Runs = {r1, r2, r3}
    Count = 2
SYMMETRY RunsAlike
SPECIFICATION MCSpec
INVARIANTS
    PaidExactly
    OwnerMadeWhole
    RowsDescribeTheirLabels
PROPERTIES
    LedgerSpec
\* A terminal queue with no deposit left to make is the end of the story; runs of the
\* collection end, and are not started again.
CHECK_DEADLOCK FALSE
