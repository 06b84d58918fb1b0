SPECIFICATION FairSpec
CONSTANTS
    Tasks <- TwoTasks
    Clients <- TwoClients
    Configs <- SixConfigs
    FirstConfig = "first"
    Loadable <- ParsedConfigs
    SameDirectory <- KeepDirectory
    Routable <- GoodRoutes
    TlsLoads <- GoodTls
    Binds <- GoodPorts
    Faults <- AllFaults
    MaxGenerations = 2
INVARIANTS TypeOK NoneLeftBehind EveryoneAsked
PROPERTIES AcceptedIsPerformed ShutdownCompletes RestartServes
