--------------------------- MODULE MCTaskExecutor ---------------------------
(* Instances of TaskExecutor for TLC.                                         *)

EXTENDS TaskExecutor

CONSTANTS t1, t2, t3, r1, r2

\* One task on one route.
OneTask == {t1}
OneRoute == {r1}
OneRouteOf == [t \in {t1} |-> r1]
OneRouteLimit == [r \in {r1} |-> 1]

\* Three requests, two of them for the same route, one permit per route and
\* two in all: both limits refuse.
ThreeTasks == {t1, t2, t3}
TwoRoutes == {r1, r2}
ThreeRouteOf == [t \in {t1, t2, t3} |-> IF t = t3 THEN r2 ELSE r1]
TwoRouteLimits == [r \in {r1, r2} |-> 1]

Separate == <<"stdout", "stderr">>
Combined == <<"combined">>

ThreeReasons == {"Cancelled", "ForceKilled", "ServerShutdown"}
CancelAndKill == {"Cancelled", "ForceKilled"}
NoReason == {}

\* Exit codes: success, failure, above the range of a byte, and a negative one,
\* which is how Windows reports an unhandled exception.
Zero == {0}
ZeroOne == {0, 1}
WindowsCodes == {0, 1, 300}
WindowsAllCodes == {0, 1, -1}
=============================================================================
