SPECIFICATION Spec
CONSTANTS
    Prefixes = {0, 23, 24, 47, 48}
    Lengths = {9, 10, 500, 501}
    Rates = {0, 1, 600, 601}
    Bursts = {0, 1, 100, 101}
    Counts = {0, 64, 65}
    Names = {"a", "b", "metadata", "loopback", "here"}
    PreservedNets <- MCNets
    ApiHosts <- MCApi
    ResolvConfs <- MCFiles
    Statuses = {0, 200, 302, 399, 400, 401, 403, 404, 444, 499, 500, 599, 600}
    Columns <- MCColumns
    MaxValues = 5
    EventIds = {0, 1006, 1102, 4624, 4625, 4634, 4732, 9999}
    PortNumbers = {3306, 6379, 443}
    ListenAddresses = {"0.0.0.0", "*", "::", "[::]", "127.0.0.1", "127.0.0.53%lo", "[::1]",
                       "192.0.2.1", "[::ffff:127.0.0.1]"}
    LocalOnly = {"127.0.0.1", "127.0.0.53%lo", "[::1]"}
    MaxRows = 2
INVARIANTS
    AcceptedCanBeDoneAndUndone
    IsolationLeavesWhatItMust
    SeverityAsDocumented
    SensitivePortsReported
CHECK_DEADLOCK FALSE
