SPECIFICATION Spec
CONSTANTS
    Main <- MainThread
    Threads <- TwoThreads
    Lines <- ServiceLines
    Stages <- TwoStages
    PipeSize = 2
INVARIANTS LinesForwarded
CHECK_DEADLOCK TRUE
