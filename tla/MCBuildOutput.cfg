SPECIFICATION FairSpec
CONSTANTS
    Main <- MainThread
    Threads <- TwoThreads
    Lines <- ServiceLines
    Stages <- TwoStages
    PipeSize = 1
INVARIANTS StreamRight OutputRight
PROPERTIES BuildEnds
CHECK_DEADLOCK TRUE
