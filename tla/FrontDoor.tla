------------------------------ MODULE FrontDoor ------------------------------
(* From a configuration file to a request that has passed authenticate:       *)
(* Config::load accepts or refuses the file, app::build registers the routes, *)
(* and then concurrent requests go through the CIDR check, the cooldown table *)
(* and the token verifier with its cached fingerprint (app.rs, secret.rs).    *)

EXTENDS ConfigRules, FiniteSets

SetExt == INSTANCE FiniteSetsExt

CONSTANTS
    RawConfigs,     \* configuration files, as serde_yaml reads them
    Served,         \* bound: the files whose requests are followed
    Requests,       \* requests that may arrive, each once
    Addresses,      \* peer addresses
    Presented,      \* what requests carry: a token of Tokens, or "none"
    ArgLists,       \* lists of dynamic arguments a request may have
    MaxTime         \* bound on the clock

ASSUME FrontDoorAssumption ==
    /\ Served \subseteq RawConfigs
    /\ Presented \subseteq Tokens \cup {"none"}
    /\ MaxTime \in Nat \ {0}
    /\ IsFiniteSet(Addresses) /\ "none" \notin Addresses

\* What serde has checked of a file: u64, usize, bool, enum and String fields.
ASSUME RawAssumption ==
    \A c \in RawConfigs :
        /\ c.access.enabled \in BOOLEAN
        /\ c.access.seconds \in Nat /\ c.access.max_tracked_ips \in Nat
        /\ c.auth.token \in Tokens
        /\ \A i \in DOMAIN c.routes :
              c.routes[i].path \in Seq(STRING) /\ c.routes[i].executor \in Executors

\* A Vec<String>: an argument has a text, a size in bytes, and a NUL or not.
ASSUME ArgumentAssumption == ArgLists \subseteq Seq([text : STRING, size : Nat, nul : BOOLEAN])

VARIABLES
    raw,            \* the configuration file
    door,           \* "loading", "refused", "loaded", "panicked" or "open"
    clock,          \* Instant::now
    failures,       \* AppState::auth_failures: until, or 0
    cache,          \* successful_fingerprint, or "none"
    req,            \* the requests
    promised,       \* history: the until of each address's last failure
    forgotten       \* history: addresses evicted since their last failure

tableVars == <<failures, promised, forgotten>>
vars == <<raw, door, clock, failures, cache, req, promised, forgotten>>

-----------------------------------------------------------------------------
Idle == [at |-> "idle", ip |-> "none", token |-> "none", now |-> 0]

Points == {"idle", "cooldown", "verify", "hash", "record",
           "denied", "limited", "unauthorized", "admitted"}

Ips == {NormalizeIp(a) : a \in Addresses}

cooldown == raw.access

TypeOK ==
    /\ raw \in RawConfigs
    /\ door \in {"loading", "refused", "loaded", "panicked", "open"}
    /\ clock \in 1..MaxTime
    /\ failures \in [Ips -> Nat]
    /\ cache \in {raw.auth.token, "none"}
    /\ req \in [Requests -> [at : Points, ip : Ips \cup {"none"}, token : Presented \cup {"none"}, now : 0..MaxTime]]
    /\ promised \in [Ips -> Nat]
    /\ forgotten \subseteq Ips

Init ==
    /\ raw \in RawConfigs
    /\ door = "loading"
    /\ clock = 1
    /\ failures = [ip \in Ips |-> 0]
    /\ cache = "none"
    /\ req = [r \in Requests |-> Idle]
    /\ promised = [ip \in Ips |-> 0]
    /\ forgotten = {}

-----------------------------------------------------------------------------
(* Start-up.                                                                  *)

Load ==
    /\ door = "loading"
    /\ door' = IF Accepted(raw) THEN "loaded" ELSE "refused"
    /\ UNCHANGED <<raw, clock, cache, req, tableVars>>

Build ==
    /\ door = "loaded"
    /\ door' = IF Registers(raw.routes) THEN "open" ELSE "panicked"
    /\ UNCHANGED <<raw, clock, cache, req, tableVars>>

-----------------------------------------------------------------------------
(* authenticate.                                                              *)

\* The request goes on; the time it has read is not used again.
Goes(r, point) == req' = [req EXCEPT ![r].at = point, ![r].now = 0]

\* The request is answered; the rest of it is not used again.
Answer(r, answer) == req' = [req EXCEPT ![r] = [Idle EXCEPT !.at = answer]]

\* A new request: the address is normalized and compared with the CIDRs, and
\* cooldown_remaining reads the time before it waits for the lock.
Arrive(r, address, token) ==
    LET ip == NormalizeIp(address)
    IN  /\ door = "open" /\ raw \in Served
        /\ req[r].at = "idle"
        /\ \/ ip \notin raw.access.allowed_cidrs /\ Answer(r, "denied")
           \/ /\ ip \in raw.access.allowed_cidrs
              /\ req' = [req EXCEPT ![r] =
                    [at |-> IF cooldown.enabled THEN "cooldown" ELSE "verify",
                     ip |-> ip, token |-> token, now |-> IF cooldown.enabled THEN clock ELSE 0]]
        /\ UNCHANGED <<raw, door, clock, cache, tableVars>>

\* Whether an entry is still valid at the time the request has read.
StillCooling(r) == failures[req[r].ip] > req[r].now

\* cooldown_remaining under the lock: refuse, or drop an entry that is over.
CheckCooldown(r) ==
    /\ req[r].at = "cooldown"
    /\ IF StillCooling(r)
       THEN Answer(r, "limited") /\ UNCHANGED failures
       ELSE Goes(r, "verify") /\ failures' = [failures EXCEPT ![req[r].ip] = 0]
    /\ UNCHANGED <<raw, door, clock, cache, promised, forgotten>>

\* The request fails; record_auth_failure reads the time, unless it is disabled.
Fails(r) ==
    IF cooldown.enabled
    THEN req' = [req EXCEPT ![r].at = "record", ![r].now = clock]
    ELSE Answer(r, "unauthorized")

\* What TokenVerifier compares a fingerprint with without hashing, or "none".
Expected == IF raw.auth.provider = "pbkdf2_sha256" THEN cache ELSE raw.auth.token

\* The header and TokenVerifier::verify up to spawn_blocking.
Verify(r) ==
    /\ req[r].at = "verify"
    /\ \/ /\ req[r].token \in Unpresentable \cup {"none"}
          /\ Fails(r)
       \/ /\ req[r].token \notin Unpresentable \cup {"none"}
          /\ Expected # "none"
          /\ IF req[r].token = Expected THEN Answer(r, "admitted") ELSE Fails(r)
       \/ /\ req[r].token \notin Unpresentable \cup {"none"}
          /\ Expected = "none"
          /\ Goes(r, "hash")
    /\ UNCHANGED <<raw, door, clock, cache, tableVars>>

\* Faulty variant: every fingerprint that was hashed is remembered.
FingerprintOfAny(r) == IF cache = "none" THEN req[r].token ELSE cache

\* OnceLock::set after a successful verification; only the first one counts.
Fingerprint(r) ==
    IF cache = "none" /\ req[r].token = raw.auth.token THEN req[r].token ELSE cache

\* verify_password has returned.
HashDone(r) ==
    /\ req[r].at = "hash"
    /\ cache' = Fingerprint(r)
    /\ IF req[r].token = raw.auth.token THEN Answer(r, "admitted") ELSE Fails(r)
    /\ UNCHANGED <<raw, door, clock, tableVars>>

-----------------------------------------------------------------------------
(* record_auth_failure under the lock.                                        *)

Entries(table) == {ip \in Ips : table[ip] # 0}

\* Faulty variant: every entry of another address is dropped with the old ones.
RetainedNone(now) == [ip \in Ips |-> 0]

\* Faulty variant: entries that are over stay and count.
RetainedAll(now) == failures

\* retain: entries that are over at the time that was read are dropped.
Retained(now) == [ip \in Ips |-> IF failures[ip] > now THEN failures[ip] ELSE 0]

Overflow(table) == Cardinality(Entries(table)) >= cooldown.max_tracked_ips

\* min_by_key: any of the entries that end first, in the order of the map.
Oldest(table) ==
    {ip \in Entries(table) : \A other \in Entries(table) : table[ip] <= table[other]}

Record(r) ==
    LET ip == req[r].ip
        until == req[r].now + cooldown.seconds
        kept == Retained(req[r].now)
        evict == IF Overflow(kept) /\ Entries(kept) # {} THEN Oldest(kept) ELSE {"none"}
    IN  /\ req[r].at = "record"
        /\ \E old \in evict :
              /\ failures' = [i \in Ips |-> IF i = ip THEN until ELSE IF i = old THEN 0 ELSE kept[i]]
              /\ forgotten' = (forgotten \cup ({old} \cap Ips)) \ {ip}
        /\ promised' = [promised EXCEPT ![ip] = until]
        /\ Answer(r, "unauthorized")
        /\ UNCHANGED <<raw, door, clock, cache>>

-----------------------------------------------------------------------------
Tick ==
    /\ door = "open" /\ raw \in Served
    /\ clock < MaxTime
    /\ clock' = clock + 1
    /\ UNCHANGED <<raw, door, cache, req, tableVars>>

Answered(r) == req[r].at \in {"denied", "limited", "unauthorized", "admitted"}

Quiescent ==
    /\ door \in {"refused", "panicked"} \/ raw \notin Served \/ \A r \in Requests : Answered(r)
    /\ UNCHANGED vars

RequestStep(r) == CheckCooldown(r) \/ Verify(r) \/ HashDone(r) \/ Record(r)

Next ==
    \/ Load \/ Build
    \/ \E r \in Requests :
          \/ RequestStep(r)
          \/ \E address \in Addresses, token \in Presented : Arrive(r, address, token)
    \/ Tick \/ Quiescent

Spec == Init /\ [][Next]_vars

-----------------------------------------------------------------------------
(* Properties of the rules, in the state in which load has accepted a file.   *)

\* build panics on an accepted configuration only when a path contains a
\* capture or a segment the router cannot parse: no literal path that
\* validate_route lets through meets a system endpoint or another route.
RoutesRegister ==
    door = "panicked" => \E i \in DOMAIN raw.routes : Patterned(raw.routes[i].path)

\* The arguments validate_request_args lets through a loaded route.  The loop
\* with its running total comes to these bounds; under LocalSystem every
\* argument is one that the configuration lists; and none reaches cmd, neither
\* as the executor's default program, nor named in any case, nor by a batch file.
AdmittedArgsAllowed ==
    door = "loaded" => \A i \in DOMAIN raw.routes, given \in ArgLists :
        LET args == raw.routes[i].request_args
            listed == args.allowed_values \cup UNION args.allowed_patterns
        IN  RequestArgsAccepted(raw.routes[i], given) <=>
                /\ given # <<>> =>
                      args.enabled /\ Program(raw.routes[i]) \notin CmdNames /\ ~raw.routes[i].batch
                /\ Len(given) <= args.max_count
                /\ \A k \in DOMAIN given :
                      /\ given[k].size <= args.max_item_bytes /\ ~given[k].nul
                      /\ HasAllowlist(args) \/ raw.account = "local_system" => given[k].text \in listed
                /\ SetExt!MapThenSumSet(LAMBDA k : given[k].size, DOMAIN given) <= args.max_total_bytes

-----------------------------------------------------------------------------
(* Properties of authenticate.                                                *)

\* A request is admitted with the configured token only, and refused with 401
\* although it has it only when it is one that cannot be presented: one with
\* characters that to_str does not read, which load accepts, or the hash of a
\* malformed one.  Whatever other requests are being verified and cached.
OnlyTheToken ==
    [][\A r \in Requests : req'[r].at # req[r].at =>
          /\ req'[r].at = "admitted" => req[r].token = raw.auth.token
          /\ req'[r].at \in {"record", "unauthorized"} =>
                req[r].token # raw.auth.token \/ req[r].token \in Unpresentable]_vars

\* The table never holds more addresses than max_tracked_ips, so that failures
\* from many addresses cannot make it grow.
TableBounded ==
    door = "open" /\ cooldown.enabled => Cardinality(Entries(failures)) <= cooldown.max_tracked_ips

\* An address passes the cooldown check only when its last failure is over or
\* its entry was evicted, and it is refused only when its last failure was not
\* over at the time the request read, although checks and failures of other
\* requests remove and replace entries with times they read earlier.
CooldownHolds ==
    [][\A r \in Requests : req[r].at = "cooldown" =>
          /\ req'[r].at = "verify" => promised[req[r].ip] <= clock \/ req[r].ip \in forgotten
          /\ req'[r].at = "limited" => promised[req[r].ip] > req[r].now]_vars

\* An entry that is not over is dropped only by a failure that finds the table
\* full of entries that are not over at the time it has read, and no entry that
\* stays ends earlier: those that are over go first and make room.
OnlyOverflowForgets ==
    [][\A ip \in forgotten' \ forgotten : \E r \in Requests :
          /\ req[r].at = "record" /\ req'[r].at = "unauthorized"
          /\ failures[ip] > req[r].now
          /\ Cardinality({i \in Ips : failures[i] > req[r].now}) >= cooldown.max_tracked_ips
          /\ \A other \in Ips :
                failures'[other] # 0 /\ failures'[other] = failures[other] => failures[ip] <= failures[other]]_vars
=============================================================================
