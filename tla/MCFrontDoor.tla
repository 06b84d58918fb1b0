---------------------------- MODULE MCFrontDoor ----------------------------
(* An instance of FrontDoor for TLC: one good configuration file and the      *)
(* files that differ from it in one place.                                    *)

EXTENDS FrontDoor, TLC

CONSTANTS q1, q2, q3

ThreeRequests == {q1, q2, q3}
RequestSymmetry == Permutations(ThreeRequests)

NoArgs ==
    [enabled |-> FALSE, max_count |-> 2, max_item_bytes |-> 2, max_total_bytes |-> 3,
     allowed_values |-> {}, allowed_patterns |-> {}]
AnyArgs == [NoArgs EXCEPT !.enabled = TRUE]
ListedArgs == [AnyArgs EXCEPT !.allowed_values = {"a"}, !.allowed_patterns = {{"b"}, {"a", "c"}}]

Route ==
    [path |-> <<"", "run">>, executor |-> "sh", program |-> "default", batch |-> FALSE,
     max_concurrency |-> 1, max_execution_seconds |-> 1, graceful_shutdown_seconds |-> 1,
     request_args |-> AnyArgs, fixedNul |-> FALSE, files |-> TRUE]

Base ==
    [server |-> [listeners |-> <<>>, hosts |-> <<"v4">>, port |-> 1, hostsSet |-> FALSE],
     access |-> [allowed_cidrs |-> {"v4", "v6"}, enabled |-> TRUE, seconds |-> 2, max_tracked_ips |-> 1],
     max_total_concurrency |-> 1, shutdown_timeout_seconds |-> 1, retention_seconds |-> 1,
     max_output_bytes |-> 1, serviceName |-> TRUE, account |-> "local_service", tls |-> "none", logs |-> TRUE,
     auth |-> [provider |-> "environment", usable |-> TRUE, token |-> "token"],
     routes |-> <<Route>>]

Paths ==
    {<<"">>, <<"run">>, <<"", "">>, <<"", "run", "">>, <<"", "..", "run">>, <<"", "a?b">>,
     <<"", "healthz">>, <<"", "healthz", "run">>, <<"", "tasks">>, <<"", "tasks", "run">>,
     <<"", "tasks", "{x}">>, <<"", "system">>, <<"", "system", "stop">>, <<"", "{x}">>,
     <<"", "run", "{y}">>, <<"", "{x">>, <<"", "", "run">>}

Routes ==
    {[Route EXCEPT !.path = p] : p \in Paths}
        \cup {[Route EXCEPT !.request_args = a] : a \in {NoArgs, ListedArgs,
                 [AnyArgs EXCEPT !.max_count = 0], [AnyArgs EXCEPT !.max_item_bytes = 0],
                 [AnyArgs EXCEPT !.max_total_bytes = 0]}}
        \cup {[Route EXCEPT !.executor = e, !.request_args = a] :
                 e \in {"cmd", "pwsh"}, a \in {NoArgs, AnyArgs}}
        \cup {[Route EXCEPT !.program = p, !.request_args = a] :
                 p \in CmdNames \cup {"tool"}, a \in {NoArgs, AnyArgs}}
        \cup {[Route EXCEPT !.batch = TRUE, !.request_args = a] : a \in {NoArgs, AnyArgs}}
        \cup {[Route EXCEPT !.max_concurrency = 0], [Route EXCEPT !.max_execution_seconds = 0],
              [Route EXCEPT !.graceful_shutdown_seconds = 0], [Route EXCEPT !.fixedNul = TRUE],
              [Route EXCEPT !.files = FALSE]}

Other(p) == [Route EXCEPT !.path = p]

RouteLists ==
    {<<>>} \cup {<<r>> : r \in Routes}
        \cup {<<Other(<<"", "{x}">>), Other(<<"", "{y}">>)>>,
              <<Other(<<"", "{x}">>), Other(<<"", "run">>)>>,
              <<Other(<<"", "a">>), Other(<<"", "b">>), Other(<<"", "a">>)>>}

Servers ==
    {[Base.server EXCEPT !.hosts = <<>>, !.hostsSet = TRUE],
     [Base.server EXCEPT !.hosts = <<"v4", "v6">>, !.hostsSet = TRUE],
     [Base.server EXCEPT !.hosts = <<"v4", "v4">>, !.hostsSet = TRUE],
     [Base.server EXCEPT !.listeners = <<<<"v4", 1>>, <<"v4", 2>>>>],
     [Base.server EXCEPT !.listeners = <<<<"v4", 1>>, <<"v4", 1>>>>],
     [Base.server EXCEPT !.listeners = <<<<"v4", 1>>>>, !.hostsSet = TRUE]}

TwoTracked == [Base.access EXCEPT !.allowed_cidrs = Ips, !.max_tracked_ips = 2]

Accesses ==
    {[Base.access EXCEPT !.allowed_cidrs = {}], [Base.access EXCEPT !.seconds = 0],
     [Base.access EXCEPT !.max_tracked_ips = 0], TwoTracked,
     [Base.access EXCEPT !.seconds = 1], [Base.access EXCEPT !.enabled = FALSE, !.seconds = 0]}

Sources ==
    [provider : {"environment", "windows_dpapi", "pbkdf2_sha256"}, usable : BOOLEAN, token : {"token", "accented", "long", "short"}]

\* The files that load is given.
Files ==
    {[Base EXCEPT !.routes = rs] : rs \in RouteLists}
        \cup {[Base EXCEPT !.server = s] : s \in Servers}
        \cup {[Base EXCEPT !.access = a] : a \in Accesses}
        \cup {[Base EXCEPT !.auth = a] : a \in Sources}
        \cup {[Base EXCEPT !.tls = f] : f \in {"files", "missing"}}
        \cup {[Base EXCEPT !.account = "local_system", !.routes = <<[Route EXCEPT !.request_args = a]>>] :
                 a \in {NoArgs, AnyArgs, ListedArgs}}
        \cup {[Base EXCEPT !.max_total_concurrency = 0], [Base EXCEPT !.shutdown_timeout_seconds = 0],
              [Base EXCEPT !.retention_seconds = 0], [Base EXCEPT !.max_output_bytes = 0],
              [Base EXCEPT !.serviceName = FALSE], [Base EXCEPT !.logs = FALSE]}

\* With these, requests behave differently; the one without a table is refused.
FollowedFiles ==
    {Base, [Base EXCEPT !.access.max_tracked_ips = 0],
     [Base EXCEPT !.access = TwoTracked], [Base EXCEPT !.access.enabled = FALSE, !.access.seconds = 0],
     [Base EXCEPT !.auth.provider = "pbkdf2_sha256"], [Base EXCEPT !.auth.token = "accented"],
     [Base EXCEPT !.auth.provider = "pbkdf2_sha256", !.auth.token = "accented"]}

Texts == [text : {"a", "b", "c", "d"}, size : 0..3, nul : {FALSE}] \cup {[text |-> "a", size |-> 1, nul |-> TRUE]}
Lists ==
    {<<>>} \cup {<<a>> : a \in Texts} \cup {<<a, b>> : a, b \in Texts}
        \cup {<<a, a, a>> : a \in Texts}

Peers == {"v4", "mapped", "v6", "outside"}
\* Of the tokens that cannot be presented one, for authenticate answers all of
\* them alike.
Carried == {"none", "token", "other", "accented"}
=============================================================================
