SPECIFICATION Spec
CONSTANTS
    t1 = t1  t2 = t2  t3 = t3  r1 = r1  r2 = r2
    Tasks <- OneTask
    Routes <- OneRoute
    RouteOf <- OneRouteOf
    MaxTotal = 1
    MaxRoute <- OneRouteLimit
    Platform = "unix"
    RequestReasons <- ThreeReasons
    Failures = {"io", "os", "crash"}
    DescKinds = {"child", "daemon"}
    Streams <- Separate
    ScriptCodes <- ZeroOne
INVARIANTS
    TypeOK
    FinishedReleasesPermits
    StatusMatchesTermination
    IdleMeansFinished
    GracefulBeforeForce
PROPERTIES
    ImplementsContract
