SPECIFICATION Spec
CONSTANTS
    Sessions = {s1, s2}
    Accounts <- MCAccounts
    AllowNegative <- MCAllowNegative
    Postings <- Payments
    Transactions <- MCTransactions
    Settlement <- MCSettlement
    NewRow = NewRow
    MaxCalls = 2
    tx = tx
CHECK_DEADLOCK FALSE
INVARIANT
    SettledAtMostOnce
