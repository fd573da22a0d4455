CONSTANTS
    first = first
    second = second
    third = third
    Articles <- Reports
    Published <- Hours
    Relevance <- Relevances
    English <- InEnglish
    Near <- Chain
    Threshold = 1
    LiveAge = 1
    ScoreAge = 2
    BlankAge = 2
    Limit = 1
    Start = 0
    End = 2
    Pad = 1
    Now = 2
    LastTime = 3
    MaxRuns = 2
SPECIFICATION FairSpec
INVARIANTS
    ClustersAreEvents
    BackfillScores
    UsableNewsIsHeard
PROPERTIES
    ClusterIsFinal
    NewsIsScored
CHECK_DEADLOCK FALSE
