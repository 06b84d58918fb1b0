----------------------------- MODULE ConfigRules -----------------------------
(* The rules of config.rs as pure operators: which configurations load        *)
(* accepts, which request arguments a route accepts, and what app::build      *)
(* registers.  Texts are abstract: a path is what split('/') makes of it, a   *)
(* token, an argument or a name is a value with the features the rules look   *)
(* at, and a file is usable or not.                                           *)

EXTENDS Integers, Sequences

SeqExt == INSTANCE SequencesExt

-----------------------------------------------------------------------------
(* Listeners, access and the token.                                           *)

\* resolve_server: hosts and a port, or listeners, never both.
Listeners(server) ==
    IF server.listeners # <<>> THEN server.listeners
    ELSE [i \in DOMAIN server.hosts |-> <<server.hosts[i], server.port>>]

\* resolve_server and validate_listeners
ServerAccepted(server) ==
    /\ server.listeners # <<>> => ~server.hostsSet
    /\ Listeners(server) # <<>>
    /\ \A i, j \in DOMAIN Listeners(server) :
          Listeners(server)[i] = Listeners(server)[j] => i = j

\* Faulty variant: a table of size zero is accepted.
AccessAcceptedEmptyTable(access) ==
    /\ access.allowed_cidrs # {}
    /\ access.enabled => access.seconds > 0

\* validate_access
AccessAccepted(access) ==
    /\ access.allowed_cidrs # {}
    /\ access.enabled => access.seconds > 0 /\ access.max_tracked_ips > 0

\* Tokens: two usable ones, one with a character that is not visible ASCII, and
\* ones that are too long, not one line, or too short.
UsableTokens == {"token", "other"}
Unreadable == {"accented"}
Malformed == {"long", "lines"}
Tokens == UsableTokens \cup Unreadable \cup Malformed \cup {"short"}

\* Tokens that no request can present: HeaderValue::to_str does not read the
\* first kind, verify refuses the second without looking at the secret.
Unpresentable == Unreadable \cup Malformed

\* validate_token: any character but a line break or NUL will do.
TokenValid(token) == token \notin Malformed \cup {"short"}

\* resolve_token: a PHC hash is accepted by its form, whatever was hashed.
TokenAccepted(source) ==
    source.usable /\ (source.provider = "pbkdf2_sha256" \/ TokenValid(source.token))

-----------------------------------------------------------------------------
(* Routes.                                                                    *)

\* What split('/') makes of nothing: the text before the first slash, for one.
Blank == ""

\* Faulty variant: only the exact names of system endpoints are kept free.
PathAcceptedExact(path) ==
    /\ Len(path) >= 2 /\ path[1] = Blank /\ path[Len(path)] # Blank
    /\ \A i \in DOMAIN path : path[i] \notin {"..", "a?b", "a#b"}
    /\ path \notin {<<Blank, "healthz">>, <<Blank, "tasks">>, <<Blank, "system">>}

\* The path rules of validate_route.
PathAccepted(path) ==
    /\ Len(path) >= 2 /\ path[1] = Blank /\ path[Len(path)] # Blank
    /\ \A i \in DOMAIN path : path[i] \notin {"..", "a?b", "a#b"}
    /\ path # <<Blank, "healthz">>
    /\ path[2] \notin {"tasks", "system"}

\* Names that eq_ignore_ascii_case takes for cmd.
CmdNames == {"cmd", "cmd.exe", "CMD.EXE"}

\* Faulty variant: the program of the route is not looked at.
CmdByExecutor(route) == route.executor = "cmd" \/ route.batch

\* Routes that would hand arguments to cmd.
UsesCmd(route) == route.executor = "cmd" \/ route.batch \/ route.program \in CmdNames

\* validate_route
RouteAccepted(route) ==
    LET args == route.request_args IN
    /\ PathAccepted(route.path)
    /\ route.max_concurrency > 0 /\ route.max_execution_seconds > 0
    /\ route.graceful_shutdown_seconds > 0
    /\ args.enabled =>
          /\ ~UsesCmd(route)
          /\ args.max_count > 0 /\ args.max_item_bytes > 0 /\ args.max_total_bytes > 0
    /\ ~route.fixedNul

HasAllowlist(args) == args.allowed_values # {} \/ args.allowed_patterns # {}

\* LocalSystem takes dynamic arguments from an allowlist only.
LocalSystemRule(account, route) ==
    account = "local_system" /\ route.request_args.enabled => HasAllowlist(route.request_args)

\* The set of paths that resolve fills as it goes.
PathsDiffer(routes) == \A i, j \in DOMAIN routes : routes[i].path = routes[j].path => i = j

\* Config::load and resolve; files stands for the script, the working directory
\* and the patterns of a route, tls for the three TLS files, logs for the log
\* directory, which is created.
Accepted(raw) ==
    /\ ServerAccepted(raw.server)
    /\ AccessAccepted(raw.access)
    /\ raw.max_total_concurrency > 0 /\ raw.shutdown_timeout_seconds > 0
    /\ raw.retention_seconds > 0 /\ raw.max_output_bytes > 0
    /\ raw.routes # <<>>
    /\ raw.serviceName
    /\ TokenAccepted(raw.auth)
    /\ raw.tls \in {"none", "files"}
    /\ raw.logs
    /\ \A i \in DOMAIN raw.routes :
          /\ RouteAccepted(raw.routes[i])
          /\ LocalSystemRule(raw.account, raw.routes[i])
          /\ raw.routes[i].files
    /\ PathsDiffer(raw.routes)

Executors == {"sh", "bash", "zsh", "pwsh", "powershell", "cmd"}

\* Executor::default_program, unless the route names a program.
Program(route) ==
    IF route.program # "default" THEN route.program
    ELSE IF route.executor = "cmd" THEN "cmd.exe" ELSE route.executor

-----------------------------------------------------------------------------
(* Request arguments: an argument is its text, its size and whether it has a  *)
(* NUL; a pattern is the set of texts it matches.                             *)

Listed(args, arg) ==
    arg.text \in args.allowed_values \/ \E pattern \in args.allowed_patterns : arg.text \in pattern

\* One turn of the loop of validate_request_args.
CheckArg(args, sofar, arg) ==
    [ok    |-> sofar.ok /\ ~arg.nul /\ arg.size <= args.max_item_bytes
                 /\ (HasAllowlist(args) => Listed(args, arg)),
     total |-> sofar.total + arg.size]

\* validate_request_args
RequestArgsAccepted(route, given) ==
    LET args == route.request_args
        end == SeqExt!FoldLeft(LAMBDA sofar, arg : CheckArg(args, sofar, arg), [ok |-> TRUE, total |-> 0], given)
    IN  /\ args.enabled \/ given = <<>>
        /\ Len(given) <= args.max_count
        /\ end.ok /\ end.total <= args.max_total_bytes

-----------------------------------------------------------------------------
(* app::build.                                                                *)

SystemPaths ==
    {<<Blank, Blank>>, <<Blank, "healthz">>, <<Blank, "tasks", "{task_id}">>, <<Blank, "tasks", "{task_id}", "output">>,
     <<Blank, "tasks", "{task_id}", "cancel">>, <<Blank, "tasks", "{task_id}", "kill">>,
     <<Blank, "system", "stop">>, <<Blank, "system", "restart">>}

Captures == {"{task_id}", "{x}", "{y}"}

\* Segments that the router cannot parse.
Unparsable == {"{x", "*x", ":x"}

Patterned(path) == \E i \in DOMAIN path : path[i] \in Captures \cup Unparsable

Shape(path) == [i \in DOMAIN path |-> IF path[i] \in Captures THEN "{}" ELSE path[i]]

\* Router::route panics on a path it cannot parse and on two paths that differ
\* in the names of their captures only.
Registers(routes) ==
    /\ \A i \in DOMAIN routes : \A k \in DOMAIN routes[i].path : routes[i].path[k] \notin Unparsable
    /\ \A i, j \in DOMAIN routes : Shape(routes[i].path) = Shape(routes[j].path) => i = j
    /\ \A i \in DOMAIN routes, p \in SystemPaths : Shape(routes[i].path) # Shape(p)

\* normalize_ip: an IPv4-mapped IPv6 address counts as its IPv4 address.
NormalizeIp(ip) == IF ip = "mapped" THEN "v4" ELSE ip
=============================================================================
