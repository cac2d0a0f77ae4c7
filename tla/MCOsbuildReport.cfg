SPECIFICATION Spec
CONSTANTS
    Modules <- ModuleTable
    Versions = {"1", "2"}
    Runners <- RunnerFiles
    HostName <- Host
    MaxOthers = 2
    Inputs <- SomeInputs
INVARIANT SuccessIsSuccess
CHECK_DEADLOCK TRUE
