SPECIFICATION DisputeSpec
CONSTANTS
    Workers = {a, w}
    Agents = {a}
    Payouts = {1, 2}
    Disputes = {1}
    Transactions = {t1}
    MaxAttempts = 2
    Amount = 2
    PlatformFeePercent = 5000
    Funds = 4
    Fees = 1
    MaxCalls = 7
CHECK_DEADLOCK FALSE
PROPERTY
    PaidOnlyReversed
