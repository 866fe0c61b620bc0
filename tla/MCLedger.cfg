SPECIFICATION FairSpec
CONSTANTS
    Sessions = {s1, s2}
    Accounts <- MCAccounts
    AllowNegative <- MCAllowNegative
    Postings <- MCPostings
    Transactions <- MCTransactions
    Settlement <- MCSettlement
    NewRow = NewRow
    MaxCalls = 5
    tx = tx
CHECK_DEADLOCK FALSE
INVARIANTS
    TypeOK
    NeverOverdrawn
    FundsReserved
    Conserved
    NoWaitCycle
PROPERTIES
    CallsEnd
    PostsAtomically
