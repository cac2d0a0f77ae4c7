SPECIFICATION FairSpec
CONSTANTS
    Stages <- TwoStages
    Shares <- TwoShares
    Finished = {"deps", "build"}
    Stored = {"data"}
    Tree = "image"
    Build = "build"
    MaxLogs = 2
INVARIANTS BuiltAsOnHost
PROPERTIES NothingRunsOn BlockEnds
CHECK_DEADLOCK TRUE
