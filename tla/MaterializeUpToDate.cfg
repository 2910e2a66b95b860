SPECIFICATION Spec
CONSTANTS
    Outputs = {"a", "b"}
    Schemas = {"s", "t"}
    Versions = {1, 2}
    Codes = {"c", "d"}
    Uris = {"u", "v"}
    Tables = {"x"}
    TopicConfigs <- MCNoTopics
    Requests <- MCRequests
    MaxJobs = 2
    MaxDispatched = 1
    MaxChanges = 0
    None = None
PROPERTY UpToDateIsSkipped
CHECK_DEADLOCK FALSE
