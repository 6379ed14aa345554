SPECIFICATION SagaSpec
CONSTANTS
    Clients = {desktop, console}
    Desktop = desktop
    provider = provider
    user = user
    a = a
    Resources <- MCResources
    Values <- MCValues
    Absent = Absent
    NoChange = NoChange
    NoClient = NoClient
    Tables = 2
    TableOf <- MCTableOf
    Hot = {provider}
    ValidConfigs <- MCValid
    SeedConfig <- MCSeed
    Models = {user}
    MaxRequests = 2
    MaxSagas = 1
    MaxStaged = 1
    MaxRestarts = 1
    MaxAttempts = 2
INVARIANTS
    RunningIsTrusted
    UnreportedOnlyAfterRetry
PROPERTIES
    OnlyApplyBreaksStore
    NoSilentOverwrite
CHECK_DEADLOCK FALSE
