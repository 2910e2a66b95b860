SPECIFICATION Spec
CONSTANTS
    Outputs = {"a", "b"}
    Schemas = {"s", "t"}
    Versions = {1, 2}
    Codes = {"c", "d"}
    Uris = {"u", "v"}
    Tables = {"x"}
    TopicConfigs <- MCTopics
    Requests <- MCRequests
    MaxJobs = 2
    MaxDispatched = 1
    MaxChanges = 2
    None = None
INVARIANTS TypeOK NamedSinksAreChecked NativeRunsItsBundle SkippedWasProcessed
PROPERTIES ContractsNeverChange NamedUpToDateIsSkipped
CHECK_DEADLOCK FALSE
