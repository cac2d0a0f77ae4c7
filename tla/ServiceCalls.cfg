SPECIFICATION FairSpec
CONSTANTS
    Methods = {"value", "open", "steal", "back", "wrong", "raise", "unfit"}
    MaxCalls = 2
    MaxSignals = 2
    Cap = 2
INVARIANTS CallsAnswered DescriptorsClosed
PROPERTIES CallsEnd
CHECK_DEADLOCK TRUE
