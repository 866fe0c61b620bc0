SPECIFICATION Spec
CONSTANTS
    Workers = {w1, w2}
    Payouts = {1, 2}
    Transactions = {t1}
    MaxAttempts = 2
    Amount = 2
    PlatformFeePercent = 5000
    Funds = 2
    Fees = 0
    MaxCalls = 5
CHECK_DEADLOCK FALSE
INVARIANT
    TransferredOnce
