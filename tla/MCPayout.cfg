SPECIFICATION FairSpec
CONSTANTS
    Workers = {w1, w2}
    Payouts = {1, 2}
    Transactions = {t1}
    MaxAttempts = 2
    Amount = 2
    PlatformFeePercent = 5000
    Funds = 2
    Fees = 0
    MaxCalls = 6
CHECK_DEADLOCK FALSE
INVARIANTS
    TypeOK
    ClaimIsExclusive
    BooksMatchStatus
    TransferBeforeBooks
    OneActivePayout
PROPERTIES
    LegalTransitions
    ClaimsResolve
