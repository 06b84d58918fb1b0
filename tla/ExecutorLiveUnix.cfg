SPECIFICATION FairSpec
CONSTANTS
    t1 = t1  t2 = t2  t3 = t3  r1 = r1  r2 = r2
    Tasks <- OneTask
    Routes <- OneRoute
    RouteOf <- OneRouteOf
    MaxTotal = 1
    MaxRoute <- OneRouteLimit
    Platform = "unix"
    RequestReasons <- CancelAndKill
    Failures = {"io", "os"}
    DescKinds = {"child", "quiet"}
    Streams <- Separate
    ScriptCodes <- ZeroOne
PROPERTIES
    TaskTerminates
    PermitsReturn
    StoppedTreesDisappear
