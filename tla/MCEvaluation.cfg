SPECIFICATION Spec
CONSTANTS
    live = live
    mocked = mocked
    Nobody = Nobody
    Runners <- MCRunners
    Mocked <- MCMocked
    Builders <- MCBuilders
    Golden <- MCGolden
    Datasets <- MCDatasets
    Samples <- MCSamples
    MaxRuns = 2
    Clock = {0, 48}
    FreshHours = 2
CHECK_DEADLOCK FALSE
INVARIANTS
    EvaluationTypeOK
    WholeOrGone
    DocumentedScores
    MockedSeparates
    CleanSweep
PROPERTIES
    RiskRaisesScore
