SPECIFICATION Spec
CONSTANTS
    Procs = {"p", "q", "r"}
    Paths = {"a", "b"}
    None = "none"
    Scenarios <- MCScenarios
    MaxAttempts = 1
    MaxFailures = 1
INVARIANTS DatabaseIsConsistent InfoIsOneSnapshot RowsHaveTrees StagingIsSwept
PROPERTIES TransactionsAreAtomic CallsEnd
