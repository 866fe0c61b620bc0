SPECIFICATION Spec
CONSTANTS
    alice = alice
    bob = bob
    first = first
    second = second
    None = None
    NoKey = NoKey
    Absent = Absent
    Callers <- MCCallers
    Backfills <- MCBackfills
    Task <- MCTask
    Transactions = {2}
    Requests <- MCRequests
    Worlds <- MCWorlds
    StaticCases <- MCStaticCases
    BatchSize = 2
    Limits = {1, 9}
    MaxIterations = 2
    RecursionLimit = 7
    Labels = {"TRUE_POSITIVE"}
    OwnReasons <- MCOwnReasons
    Replies <- MCReplies
    SampleRuns <- MCRuns
    SampleQueries <- MCQueries
    SampleLimits <- MCLimits
    SampleIndexes <- MCIndexes
CHECK_DEADLOCK FALSE
INVARIANTS
    AgentTypeOK
    NeverCutShort
    FailuresAreMarked
    AnswersMatchRecord
    InFlightIsOwned
    BackfillReportHolds
PROPERTIES
    SameSignals
    SearchReturnsBest
    Deduplicates
    CallsEnd
