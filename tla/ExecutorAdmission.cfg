SPECIFICATION Spec
CONSTANTS
    t1 = t1  t2 = t2  t3 = t3  r1 = r1  r2 = r2
    Tasks <- ThreeTasks
    Routes <- TwoRoutes
    RouteOf <- ThreeRouteOf
    MaxTotal = 2
    MaxRoute <- TwoRouteLimits
    Platform = "unix"
    RequestReasons <- NoReason
    Failures = {}
    DescKinds = {}
    Streams <- Combined
    ScriptCodes <- Zero
INVARIANTS
    LiveTreesBounded
