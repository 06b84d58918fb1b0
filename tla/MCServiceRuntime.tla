-------------------------- MODULE MCServiceRuntime --------------------------
(* Instances of ServiceRuntime for TLC.                                       *)

EXTENDS ServiceRuntime

TwoTasks == {"t1", "t2"}
OneClient == {"c1"}
TwoClients == {"c1", "c2"}

\* Files a restart may find: a good one, one that does not parse, one that
\* moves the log directory, one with a route the router refuses, one whose
\* certificate is not PEM, and one whose port is taken.
SixConfigs == {"first", "invalid", "moved", "badRoutes", "badTls", "badPort"}
ParsedConfigs == SixConfigs \ {"invalid"}
KeepDirectory == SixConfigs \ {"moved"}
GoodRoutes == SixConfigs \ {"badRoutes"}
GoodTls == SixConfigs \ {"badTls"}
GoodPorts == SixConfigs \ {"badPort"}

AllFaults == {"reader", "disk", "instance"}
NoFaults == {}

TwoGood == {"first", "second"}
=============================================================================
