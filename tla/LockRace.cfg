SPECIFICATION Spec
CONSTANTS
    Tasks <- TwoTasks
    Clients <- OneClient
    Configs <- TwoGood
    FirstConfig = "first"
    Loadable <- TwoGood
    SameDirectory <- TwoGood
    Routable <- TwoGood
    TlsLoads <- TwoGood
    Binds <- TwoGood
    Faults <- NoFaults
    MaxGenerations = 2
INVARIANT StoreIsReleased
