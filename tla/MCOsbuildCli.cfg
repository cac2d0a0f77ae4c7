SPECIFICATION Spec
CONSTANTS
    Modules <- ModuleTable
    Versions = {"1", "2"}
    Runners <- RunnerFiles
    HostName <- Host
    MaxOthers = 2
    Inputs <- SomeInputs
INVARIANTS ValidatedRight LoadedRight RoundTrip OutcomeTold
CHECK_DEADLOCK TRUE
