SPECIFICATION FairSpec
CONSTANTS
    t1 = t1  t2 = t2  t3 = t3  r1 = r1  r2 = r2
    Tasks <- OneTask
    Routes <- OneRoute
    RouteOf <- OneRouteOf
    MaxTotal = 1
    MaxRoute <- OneRouteLimit
    Platform = "windows"
    RequestReasons <- ThreeReasons
    Failures = {"io", "os", "crash"}
    DescKinds = {"child", "quiet"}
    Streams <- Combined
    ScriptCodes <- WindowsCodes
INVARIANTS
    FinishedTreesAreDying
PROPERTIES
    TaskTerminates
