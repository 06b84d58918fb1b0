-------------------------- MODULE FrontDoorProofs --------------------------
(* Proofs about FrontDoor, for any configuration files, any number of         *)
(* requests and any finite set of addresses.                                  *)

EXTENDS FrontDoor, FiniteSetTheorems, TLAPS

-----------------------------------------------------------------------------
(* The inductive invariant.                                                   *)

\* A file that is served was accepted, and nothing happens before it is served.
DoorInv ==
    /\ door \in {"loaded", "open", "panicked"} => Accepted(raw)
    /\ door = "panicked" => ~Registers(raw.routes)
    /\ door # "open" => req = [r \in Requests |-> Idle] /\ Entries(failures) = {}

\* A token that verification refuses: another one, or one that cannot be read
\* from a header.
Refused(token) == token # raw.auth.token \/ token \in Unpresentable

\* A request in authenticate has an address, and has read the time before now;
\* only with the cooldown enabled does it look at the table.
RequestInv ==
    \A r \in Requests :
        /\ req[r].at \in {"cooldown", "verify", "hash", "record"} => req[r].ip \in Ips
        /\ req[r].at \in {"cooldown", "record"} => cooldown.enabled
        /\ req[r].at = "hash" => req[r].token \notin Unpresentable \cup {"none"}
        /\ req[r].at = "record" => Refused(req[r].token)
        /\ req[r].now <= clock

\* An entry is the end of the last failure of its address, and an entry that is
\* missing is over or was evicted.
TableInv ==
    \A ip \in Ips :
        /\ failures[ip] \in {0, promised[ip]}
        /\ failures[ip] = 0 => promised[ip] <= clock \/ ip \in forgotten

IInv == TypeOK /\ DoorInv /\ RequestInv /\ TableInv /\ TableBounded

-----------------------------------------------------------------------------
(* The records of requests.                                                   *)

RequestType == [at : Points, ip : Ips \cup {"none"}, token : Presented \cup {"none"}, now : 0..MaxTime]

\* Only r changes, and it is then at point.
Moves(r, point) ==
    /\ req' \in [Requests -> RequestType]
    /\ req'[r].at = point
    /\ \A q \in Requests \ {r} : req'[q] = req[q]

\* An answered request keeps nothing of what it carried.
LEMMA AnswerMoves ==
    ASSUME TypeOK, NEW r \in Requests, NEW answer \in Points, Answer(r, answer)
    PROVE  Moves(r, answer) /\ req'[r].now = 0
<1> DEFINE new == [Idle EXCEPT !.at = answer]
<1>1. new = [at |-> answer, ip |-> "none", token |-> "none", now |-> 0]
  BY DEF Idle
<1>2. new \in RequestType
  BY <1>1, FrontDoorAssumption DEF RequestType
<1>3. req \in [Requests -> RequestType] /\ req' = [req EXCEPT ![r] = new]
  BY DEF TypeOK, RequestType, Answer
<1> HIDE DEF new
<1>4. req' \in [Requests -> RequestType] /\ req'[r] = new /\ \A q \in Requests \ {r} : req'[q] = req[q]
  BY <1>2, <1>3
<1> QED
  BY <1>1, <1>4 DEF Moves

\* A request that goes on keeps its address and its token.
LEMMA GoesMoves ==
    ASSUME TypeOK, NEW r \in Requests, NEW point \in Points, NEW now \in 0..MaxTime,
           req' = [req EXCEPT ![r].at = point, ![r].now = now]
    PROVE  /\ Moves(r, point)
           /\ req'[r].ip = req[r].ip /\ req'[r].token = req[r].token /\ req'[r].now = now
<1> DEFINE new == [req[r] EXCEPT !.at = point, !.now = now]
<1>1. req \in [Requests -> RequestType]
  BY DEF TypeOK, RequestType
<1>2. req[r] \in RequestType
  BY <1>1
<1>3. /\ new \in RequestType
      /\ new.at = point /\ new.now = now /\ new.ip = req[r].ip /\ new.token = req[r].token
  BY <1>2 DEF RequestType
<1>4. req' = [req EXCEPT ![r] = new]
  BY <1>1
<1> HIDE DEF new
<1>5. req' \in [Requests -> RequestType] /\ req'[r] = new /\ \A q \in Requests \ {r} : req'[q] = req[q]
  BY <1>1, <1>3, <1>4
<1> QED
  BY <1>3, <1>5 DEF Moves

\* A request that fails is recorded if the cooldown is enabled.
LEMMA FailsMoves ==
    ASSUME TypeOK, NEW r \in Requests, Fails(r)
    PROVE  \/ /\ cooldown.enabled /\ Moves(r, "record")
              /\ req'[r].ip = req[r].ip /\ req'[r].token = req[r].token /\ req'[r].now = clock
           \/ Moves(r, "unauthorized") /\ req'[r].now = 0
<1>1. "record" \in Points /\ "unauthorized" \in Points
  BY DEF Points
<1>2. clock \in 0..MaxTime
  BY FrontDoorAssumption DEF TypeOK
<1>3. CASE cooldown.enabled
  BY <1>1, <1>2, <1>3, GoesMoves DEF Fails
<1>4. CASE ~cooldown.enabled
  BY <1>1, <1>4, AnswerMoves DEF Fails
<1> QED
  BY <1>3, <1>4

\* A request that moves keeps the invariant of requests when the new record does.
LEMMA RequestStepInv ==
    ASSUME TypeOK, RequestInv, NEW r \in Requests, NEW point, Moves(r, point),
           raw' = raw, clock' = clock,
           /\ point \in {"cooldown", "verify", "hash", "record"} => req'[r].ip \in Ips
           /\ point \in {"cooldown", "record"} => cooldown.enabled
           /\ point = "hash" => req'[r].token \notin Unpresentable \cup {"none"}
           /\ point = "record" => Refused(req'[r].token)
           /\ req'[r].now <= clock
    PROVE  RequestInv'
<1> SUFFICES ASSUME NEW q \in Requests
             PROVE  /\ req'[q].at \in {"cooldown", "verify", "hash", "record"} => req'[q].ip \in Ips
                    /\ req'[q].at \in {"cooldown", "record"} => cooldown'.enabled
                    /\ req'[q].at = "hash" => req'[q].token \notin Unpresentable \cup {"none"}
                    /\ req'[q].at = "record" => Refused(req'[q].token)
                    /\ req'[q].now <= clock'
  BY DEF RequestInv, Ips, Refused
<1>1. cooldown' = cooldown
  BY DEF cooldown
<1>2. CASE q = r
  BY <1>1, <1>2 DEF Moves
<1>3. CASE q # r
  BY <1>1, <1>3 DEF Moves, RequestInv
<1> QED
  BY <1>2, <1>3

-----------------------------------------------------------------------------
(* The table.                                                                 *)

\* There are finitely many addresses, and "none" is not one of them.
LEMMA IpFacts == IsFiniteSet(Ips) /\ "none" \notin Ips
<1>1. IsFiniteSet(Ips)
  <2>1. IsFiniteSet(Addresses \cup {"v4"})
    BY FrontDoorAssumption, FS_AddElement
  <2>2. Ips \subseteq Addresses \cup {"v4"}
    BY DEF Ips, NormalizeIp
  <2> QED
    BY <2>1, <2>2, FS_Subset
<1>2. "none" \notin Ips
  BY FrontDoorAssumption DEF Ips, NormalizeIp
<1> QED
  BY <1>1, <1>2

\* A table with no more entries holds no more addresses.
LEMMA FewerEntries ==
    ASSUME NEW A, NEW B, A \subseteq B, B \subseteq Ips
    PROVE  /\ IsFiniteSet(A) /\ Cardinality(A) \in Nat /\ Cardinality(B) \in Nat
           /\ Cardinality(A) <= Cardinality(B)
<1>1. IsFiniteSet(B)
  BY IpFacts, FS_Subset
<1> QED
  BY <1>1, FS_Subset, FS_CardinalityType

\* One address comes, and one other may go.
LEMMA OneIn ==
    ASSUME NEW A, A \subseteq Ips, NEW ip \in Ips, NEW B, B \subseteq A \cup {ip}
    PROVE  Cardinality(B) <= Cardinality(A) + 1
<1>1. IsFiniteSet(A) /\ Cardinality(A) \in Nat
  BY FewerEntries
<1>2. /\ Cardinality(A \cup {ip}) = IF ip \in A THEN Cardinality(A) ELSE Cardinality(A) + 1
  BY <1>1, FS_AddElement
<1>3. Cardinality(B) <= Cardinality(A \cup {ip}) /\ Cardinality(B) \in Nat
  BY FewerEntries
<1> QED
  BY <1>1, <1>2, <1>3

-----------------------------------------------------------------------------
(* Steps.                                                                     *)

\* Start-up: a file that was refused or does not register is not served.
LEMMA StartInv ==
    ASSUME IInv, Load \/ Build
    PROVE  IInv'
<1> USE DEF Load, Build, tableVars, IInv
<1>1. UNCHANGED <<raw, clock, failures, cache, req, promised, forgotten>>
  OBVIOUS
<1>2. door # "open" /\ door' \in {"loaded", "refused", "open", "panicked"}
  OBVIOUS
<1>3. /\ door' \in {"loaded", "open", "panicked"} => Accepted(raw)
      /\ door' = "panicked" => ~Registers(raw.routes)
  BY DEF DoorInv
<1>4. req = [r \in Requests |-> Idle] /\ Entries(failures) = {}
  BY <1>2 DEF DoorInv
<1> HIDE DEF Load, Build
<1>5. TypeOK'
  BY <1>1, <1>2 DEF TypeOK
<1>6. DoorInv'
  BY <1>1, <1>3, <1>4 DEF DoorInv, Entries, Idle
<1>7. RequestInv' /\ TableInv'
  BY <1>1 DEF RequestInv, TableInv, cooldown, Refused
<1>8. TableBounded'
  <2>1. raw.access.max_tracked_ips \in Nat
    BY RawAssumption DEF TypeOK
  <2>2. Entries(failures)' = {}
    BY <1>1, <1>4 DEF Entries
  <2>3. Cardinality(Entries(failures))' = 0
    BY <2>2, FS_EmptySet
  <2> QED
    BY <1>1, <2>1, <2>3 DEF TableBounded, cooldown
<1> QED
  BY <1>5, <1>6, <1>7, <1>8

\* A request only moves.
LEMMA MoveInv ==
    ASSUME IInv, NEW r \in Requests, NEW point, Moves(r, point), RequestInv',
           req[r].at \in {"cooldown", "verify", "hash", "record"} \/ door = "open",
           cache' \in {raw.auth.token, "none"},
           UNCHANGED <<raw, door, clock, failures, promised, forgotten>>
    PROVE  IInv' /\ door = "open"
<1> USE DEF IInv
<1>1. door = "open"
  BY DEF DoorInv, Idle
<1>2. TypeOK'
  BY DEF TypeOK, Moves, RequestType
<1>3. DoorInv'
  BY <1>1 DEF DoorInv
<1>4. TableInv' /\ TableBounded'
  BY DEF TableInv, TableBounded, Entries, cooldown
<1> QED
  BY <1>1, <1>2, <1>3, <1>4

\* A request arrives.
LEMMA ArriveInv ==
    ASSUME IInv, NEW r \in Requests, NEW address \in Addresses, NEW token \in Presented,
           Arrive(r, address, token)
    PROVE  IInv'
<1> DEFINE ip == NormalizeIp(address)
           new == [at |-> IF cooldown.enabled THEN "cooldown" ELSE "verify",
                   ip |-> ip, token |-> token, now |-> IF cooldown.enabled THEN clock ELSE 0]
<1>1. /\ door = "open"
      /\ UNCHANGED <<raw, door, clock, cache, failures, promised, forgotten>>
      /\ Answer(r, "denied") \/ req' = [req EXCEPT ![r] = new]
  BY DEF Arrive, tableVars
<1>2. TypeOK /\ RequestInv /\ cache' \in {raw.auth.token, "none"} /\ clock \in 1..MaxTime
  BY <1>1 DEF IInv, TypeOK
<1>3. CASE Answer(r, "denied")
  <2>1. Moves(r, "denied") /\ req'[r].now = 0
    BY <1>2, <1>3, AnswerMoves DEF Points
  <2>2. RequestInv'
    BY <1>1, <1>2, <2>1, RequestStepInv
  <2> QED
    BY <1>1, <1>2, <2>1, <2>2, MoveInv
<1>4. CASE req' = [req EXCEPT ![r] = new]
  <2>1. ip \in Ips
    BY DEF Ips
  <2>2. new.now \in 0..MaxTime /\ new.now <= clock
    BY <1>2, FrontDoorAssumption
  <2>3. new \in RequestType
    BY <2>1, <2>2 DEF RequestType, Points
  <2>4. /\ new.at = IF cooldown.enabled THEN "cooldown" ELSE "verify"
        /\ new.ip = ip
    OBVIOUS
  <2>5. req \in [Requests -> RequestType]
    BY <1>2 DEF TypeOK, RequestType
  <2> HIDE DEF new, ip
  <2>6. Moves(r, new.at) /\ req'[r] = new
    BY <1>4, <2>3, <2>5 DEF Moves
  <2>7. RequestInv'
    BY <1>1, <1>2, <2>1, <2>2, <2>4, <2>6, RequestStepInv
  <2> QED
    BY <1>1, <1>2, <2>6, <2>7, MoveInv
<1> QED
  BY <1>1, <1>3, <1>4

\* The fingerprint that is remembered is that of the configured token.
LEMMA CacheIs ==
    ASSUME TypeOK, NEW r \in Requests
    PROVE  Fingerprint(r) \in {raw.auth.token, "none"}
BY DEF TypeOK, Fingerprint

\* Verification admits the configured token only, and fails any other.
LEMMA Verdict ==
    ASSUME IInv, NEW r \in Requests, Verify(r) \/ HashDone(r)
    PROVE  \/ Fails(r) /\ Refused(req[r].token)
           \/ Answer(r, "admitted") /\ req[r].token = raw.auth.token
           \/ Goes(r, "hash") /\ req[r].token \notin Unpresentable \cup {"none"}
<1>1. raw.auth.token # "none" /\ cache \in {raw.auth.token, "none"}
  BY RawAssumption DEF IInv, TypeOK, Tokens, UsableTokens, Unreadable, Malformed
<1>2. Expected # "none" => Expected = raw.auth.token
  BY <1>1 DEF Expected
<1>3. req[r].token \in Unpresentable \cup {"none"} => Refused(req[r].token)
  BY <1>1 DEF Refused
<1>4. req[r].token # raw.auth.token => Refused(req[r].token)
  BY DEF Refused
<1>5. CASE Verify(r)
  BY <1>2, <1>3, <1>4, <1>5 DEF Verify
<1>6. CASE HashDone(r)
  BY <1>4, <1>6 DEF HashDone
<1> QED
  BY <1>5, <1>6

\* A request fails after verification, or is admitted.
LEMMA VerifyInv ==
    ASSUME IInv, NEW r \in Requests, Verify(r) \/ HashDone(r)
    PROVE  IInv'
<1>1. /\ req[r].at \in {"verify", "hash"} /\ req[r].ip \in Ips
      /\ UNCHANGED <<raw, door, clock, failures, promised, forgotten>>
      /\ cache' \in {raw.auth.token, "none"}
  BY CacheIs DEF Verify, HashDone, tableVars, IInv, RequestInv, TypeOK
<1>2. TypeOK /\ RequestInv /\ clock \in 1..MaxTime /\ clock >= 0
  BY DEF IInv, TypeOK
<1>3. CASE Fails(r) /\ Refused(req[r].token)
  <2>1. CASE /\ cooldown.enabled /\ Moves(r, "record")
             /\ req'[r].ip = req[r].ip /\ req'[r].token = req[r].token /\ req'[r].now = clock
    <3>1. RequestInv'
      BY <1>1, <1>2, <1>3, <2>1, RequestStepInv
    <3> QED
      BY <1>1, <2>1, <3>1, MoveInv
  <2>2. CASE Moves(r, "unauthorized") /\ req'[r].now = 0
    <3>1. RequestInv'
      BY <1>1, <1>2, <2>2, RequestStepInv
    <3> QED
      BY <1>1, <2>2, <3>1, MoveInv
  <2> QED
    BY <1>2, <1>3, <2>1, <2>2, FailsMoves
<1>4. CASE Answer(r, "admitted")
  <2>1. Moves(r, "admitted") /\ req'[r].now = 0
    BY <1>2, <1>4, AnswerMoves DEF Points
  <2>2. RequestInv'
    BY <1>1, <1>2, <2>1, RequestStepInv
  <2> QED
    BY <1>1, <2>1, <2>2, MoveInv
<1>5. CASE Goes(r, "hash") /\ req[r].token \notin Unpresentable \cup {"none"}
  <2>1. 0 \in 0..MaxTime
    BY FrontDoorAssumption
  <2>2. /\ Moves(r, "hash") /\ req'[r].now = 0
        /\ req'[r].ip = req[r].ip /\ req'[r].token = req[r].token
    BY <1>2, <1>5, <2>1, GoesMoves DEF Points, Goes
  <2>3. RequestInv'
    BY <1>1, <1>2, <1>5, <2>2, RequestStepInv
  <2> QED
    BY <1>1, <2>2, <2>3, MoveInv
<1> QED
  BY <1>3, <1>4, <1>5, Verdict

\* An entry that is dropped by a check is over.
LEMMA CheckCooldownInv ==
    ASSUME IInv, NEW r \in Requests, CheckCooldown(r)
    PROVE  IInv'
<1>1. /\ req[r].at = "cooldown" /\ req[r].ip \in Ips /\ req[r].now <= clock
      /\ UNCHANGED <<raw, door, clock, cache, promised, forgotten>>
  BY DEF CheckCooldown, IInv, RequestInv
<1>2. /\ TypeOK /\ RequestInv /\ clock \in 1..MaxTime /\ clock >= 0 /\ req[r].now \in 0..MaxTime
      /\ cache' \in {raw.auth.token, "none"}
  BY <1>1 DEF IInv, TypeOK
<1>3. CASE Answer(r, "limited") /\ UNCHANGED failures
  <2>1. Moves(r, "limited") /\ req'[r].now = 0
    BY <1>2, <1>3, AnswerMoves DEF Points
  <2>2. RequestInv'
    BY <1>1, <1>2, <2>1, RequestStepInv
  <2> QED
    BY <1>1, <1>2, <1>3, <2>1, <2>2, MoveInv
<1>4. CASE /\ Goes(r, "verify") /\ ~StillCooling(r)
           /\ failures' = [failures EXCEPT ![req[r].ip] = 0]
  <2>1. 0 \in 0..MaxTime
    BY FrontDoorAssumption
  <2>2. Moves(r, "verify") /\ req'[r].now = 0 /\ req'[r].ip = req[r].ip
    BY <1>2, <1>4, <2>1, GoesMoves DEF Points, Goes
  <2>3. RequestInv'
    BY <1>1, <1>2, <2>2, RequestStepInv
  <2>4. failures \in [Ips -> Nat] /\ failures' \in [Ips -> Nat]
    BY <1>2, <1>4 DEF TypeOK
  <2>5. TypeOK'
    BY <1>1, <1>2, <2>2, <2>4 DEF TypeOK, Moves, RequestType
  <2>6. Entries(failures)' \subseteq Entries(failures) /\ Entries(failures) \subseteq Ips
    BY <1>1, <1>4, <2>4 DEF Entries
  <2>7. DoorInv'
    <3>1. door = "open"
      BY <1>1 DEF IInv, DoorInv, Idle
    <3> QED
      BY <1>1, <3>1 DEF IInv, DoorInv
  <2>8. TableInv'
    <3> SUFFICES ASSUME NEW ip \in Ips
                 PROVE  /\ failures'[ip] \in {0, promised[ip]}
                        /\ failures'[ip] = 0 => promised[ip] <= clock \/ ip \in forgotten
      BY <1>1 DEF TableInv, Ips
    <3>1. CASE ip # req[r].ip
      BY <1>4, <2>4, <3>1 DEF IInv, TableInv
    <3>2. CASE ip = req[r].ip
      <4>1. failures'[ip] = 0
        BY <1>4, <2>4, <3>2
      <4>2. failures[ip] <= req[r].now
        BY <1>2, <1>4, <2>4, <3>2 DEF StillCooling
      <4>3. promised[ip] \in Nat
        BY <1>2 DEF TypeOK
      <4>4. failures[ip] = 0 \/ failures[ip] = promised[ip]
        BY DEF IInv, TableInv
      <4>5. failures[ip] = 0 => promised[ip] <= clock \/ ip \in forgotten
        BY DEF IInv, TableInv
      <4>6. failures[ip] = promised[ip] => promised[ip] <= clock
        BY <1>1, <1>2, <4>2, <4>3
      <4> QED
        BY <4>1, <4>4, <4>5, <4>6
    <3> QED
      BY <3>1, <3>2
  <2>9. TableBounded'
    <3>1. /\ Cardinality(Entries(failures)') <= Cardinality(Entries(failures))
          /\ Cardinality(Entries(failures)') \in Nat /\ Cardinality(Entries(failures)) \in Nat
      BY <2>6, FewerEntries
    <3>2. raw.access.max_tracked_ips \in Nat
      BY <1>2, RawAssumption DEF TypeOK
    <3> QED
      BY <1>1, <3>1, <3>2 DEF IInv, TableBounded, cooldown
  <2> QED
    BY <2>3, <2>5, <2>7, <2>8, <2>9 DEF IInv
<1> QED
  BY <1>3, <1>4 DEF CheckCooldown

-----------------------------------------------------------------------------
(* record_auth_failure.                                                       *)

\* What a recorded failure does to the table: the entry of its address is new,
\* the others are dropped, evicted or kept.
LEMMA RecordIs ==
    ASSUME IInv, NEW r \in Requests, Record(r)
    PROVE  LET ip == req[r].ip
               now == req[r].now
               until == now + cooldown.seconds
               kept == Retained(now)
           IN  /\ req[r].at = "record" /\ door = "open" /\ cooldown.enabled
               /\ ip \in Ips /\ now \in Nat /\ now <= clock /\ until \in Nat /\ until > now
               /\ cooldown.max_tracked_ips \in Nat \ {0}
               /\ kept \in [Ips -> Nat] /\ Entries(kept) = {i \in Ips : failures[i] > now}
               /\ UNCHANGED <<raw, door, clock, cache>>
               /\ Moves(r, "unauthorized") /\ req'[r].now = 0
               /\ promised' = [promised EXCEPT ![ip] = until]
               /\ \E old \in Entries(kept) \cup {"none"} :
                     /\ Overflow(kept) => old \in Oldest(kept)
                     /\ ~Overflow(kept) => old = "none"
                     /\ failures' = [i \in Ips |-> IF i = ip THEN until ELSE IF i = old THEN 0 ELSE kept[i]]
                     /\ forgotten' = (forgotten \cup ({old} \cap Ips)) \ {ip}
<1> DEFINE ip == req[r].ip
           now == req[r].now
           until == now + cooldown.seconds
           kept == Retained(now)
           evict == IF Overflow(kept) /\ Entries(kept) # {} THEN Oldest(kept) ELSE {"none"}
<1>1. /\ req[r].at = "record" /\ UNCHANGED <<raw, door, clock, cache>>
      /\ Answer(r, "unauthorized")
      /\ promised' = [promised EXCEPT ![ip] = until]
      /\ \E old \in evict :
            /\ failures' = [i \in Ips |-> IF i = ip THEN until ELSE IF i = old THEN 0 ELSE kept[i]]
            /\ forgotten' = (forgotten \cup ({old} \cap Ips)) \ {ip}
  BY DEF Record
<1>2. TypeOK /\ door = "open" /\ cooldown.enabled /\ ip \in Ips /\ now <= clock
  BY <1>1 DEF IInv, DoorInv, RequestInv, Idle
<1>3. now \in Nat /\ failures \in [Ips -> Nat]
  BY <1>2 DEF TypeOK
<1>4. cooldown.seconds \in Nat \ {0} /\ cooldown.max_tracked_ips \in Nat \ {0}
  <2>1. cooldown.seconds \in Nat /\ cooldown.max_tracked_ips \in Nat
    BY <1>2, RawAssumption DEF TypeOK, cooldown
  <2>2. cooldown.seconds > 0 /\ cooldown.max_tracked_ips > 0
    BY <1>2 DEF IInv, DoorInv, Accepted, AccessAccepted, cooldown
  <2> QED
    BY <2>1, <2>2
<1>5. until \in Nat /\ until > now
  BY <1>3, <1>4
<1>6. /\ kept \in [Ips -> Nat]
      /\ \A i \in Ips : kept[i] = IF failures[i] > now THEN failures[i] ELSE 0
  BY <1>3 DEF Retained
<1>7. Entries(kept) = {i \in Ips : failures[i] > now}
  BY <1>3, <1>6 DEF Entries
<1>8. Moves(r, "unauthorized") /\ req'[r].now = 0
  BY <1>1, <1>2, AnswerMoves DEF Points
<1> HIDE DEF kept
<1>9. Overflow(kept) => Entries(kept) # {}
  <2>1. Cardinality({}) = 0
    BY FS_EmptySet
  <2> QED
    BY <1>4, <2>1 DEF Overflow
<1>10. \A old \in evict : /\ old \in Entries(kept) \cup {"none"}
                          /\ Overflow(kept) => old \in Oldest(kept)
                          /\ ~Overflow(kept) => old = "none"
  BY <1>9 DEF Oldest
<1> HIDE DEF evict, ip, until
<1>11. PICK old \in evict :
            /\ failures' = [i \in Ips |-> IF i = ip THEN until ELSE IF i = old THEN 0 ELSE kept[i]]
            /\ forgotten' = (forgotten \cup ({old} \cap Ips)) \ {ip}
  BY <1>1
<1>12. \E o \in Entries(kept) \cup {"none"} :
          /\ Overflow(kept) => o \in Oldest(kept)
          /\ ~Overflow(kept) => o = "none"
          /\ failures' = [i \in Ips |-> IF i = ip THEN until ELSE IF i = o THEN 0 ELSE kept[i]]
          /\ forgotten' = (forgotten \cup ({o} \cap Ips)) \ {ip}
  BY <1>10, <1>11
<1> QED
  BY <1>1, <1>2, <1>3, <1>4, <1>5, <1>6, <1>7, <1>8, <1>12 DEF ip, until, kept

\* A failure of one address finds room or makes room.
LEMMA RecordInv ==
    ASSUME IInv, NEW r \in Requests, Record(r)
    PROVE  IInv'
<1> DEFINE ip == req[r].ip
           now == req[r].now
           until == now + cooldown.seconds
           kept == Retained(now)
<1>1. /\ door = "open" /\ cooldown.enabled
      /\ ip \in Ips /\ now \in Nat /\ now <= clock /\ until \in Nat
      /\ cooldown.max_tracked_ips \in Nat \ {0}
      /\ kept \in [Ips -> Nat] /\ Entries(kept) = {i \in Ips : failures[i] > now}
      /\ UNCHANGED <<raw, door, clock, cache>>
      /\ Moves(r, "unauthorized") /\ req'[r].now = 0
      /\ promised' = [promised EXCEPT ![ip] = until]
  BY RecordIs
<1>2. PICK old \in Entries(kept) \cup {"none"} :
         /\ Overflow(kept) => old \in Oldest(kept)
         /\ ~Overflow(kept) => old = "none"
         /\ failures' = [i \in Ips |-> IF i = ip THEN until ELSE IF i = old THEN 0 ELSE kept[i]]
         /\ forgotten' = (forgotten \cup ({old} \cap Ips)) \ {ip}
  BY RecordIs
<1>3. \A i \in Ips : kept[i] = IF failures[i] > now THEN failures[i] ELSE 0
  BY DEF Retained
<1>4. TypeOK /\ RequestInv /\ TableInv /\ clock \in Nat
  BY FrontDoorAssumption DEF IInv, TypeOK
<1> HIDE DEF ip, now, until, kept
<1>5. failures' \in [Ips -> Nat] /\ failures \in [Ips -> Nat]
  BY <1>1, <1>2, <1>4 DEF TypeOK
<1>6. promised' \in [Ips -> Nat] /\ promised \in [Ips -> Nat] /\ forgotten' \subseteq Ips
  BY <1>1, <1>2, <1>4 DEF TypeOK
<1>7. TypeOK'
  BY <1>1, <1>4, <1>5, <1>6 DEF TypeOK, Moves, RequestType
<1>8. DoorInv'
  BY <1>1 DEF IInv, DoorInv
<1>9. RequestInv'
  BY <1>1, <1>4, RequestStepInv
<1>10. TableInv'
  <2> SUFFICES ASSUME NEW i \in Ips
               PROVE  /\ failures'[i] \in {0, promised'[i]}
                      /\ failures'[i] = 0 => promised'[i] <= clock \/ i \in forgotten'
    BY <1>1 DEF TableInv, Ips
  <2>1. /\ failures[i] = 0 \/ failures[i] = promised[i]
        /\ failures[i] = 0 => promised[i] <= clock \/ i \in forgotten
    BY <1>4 DEF TableInv
  <2>2. CASE i = ip
    <3>1. failures'[i] = until /\ promised'[i] = until
      BY <1>1, <1>2, <1>6, <2>2
    <3>2. until # 0
      BY RecordIs DEF ip, now, until
    <3> QED
      BY <3>1, <3>2
  <2>3. CASE i # ip /\ i = old
    <3>1. failures'[i] = 0 /\ i \in forgotten'
      BY <1>2, <2>3
    <3> QED
      BY <3>1
  <2>4. CASE i # ip /\ i # old
    <3>1. failures'[i] = kept[i] /\ promised'[i] = promised[i] /\ (i \in forgotten => i \in forgotten')
      BY <1>1, <1>2, <1>6, <2>4
    <3>2. CASE failures[i] > now
      BY <1>1, <1>3, <1>5, <2>1, <3>1, <3>2
    <3>3. CASE failures[i] <= now
      <4>1. failures'[i] = 0
        BY <1>1, <1>3, <1>5, <3>1, <3>3
      <4>2. failures[i] = promised[i] => promised[i] <= clock
        BY <1>1, <1>4, <1>6, <3>3
      <4> QED
        BY <2>1, <3>1, <4>1, <4>2
    <3> QED
      BY <1>1, <1>5, <3>2, <3>3
  <2> QED
    BY <2>2, <2>3, <2>4
<1>11. TableBounded'
  <2> DEFINE max == cooldown.max_tracked_ips
  <2>1. Entries(kept) \subseteq Entries(failures) /\ Entries(failures) \subseteq Ips
    BY <1>1, <1>5 DEF Entries
  <2>2. /\ Cardinality(Entries(kept)) <= Cardinality(Entries(failures))
        /\ Cardinality(Entries(kept)) \in Nat /\ Cardinality(Entries(failures)) \in Nat
        /\ IsFiniteSet(Entries(kept))
    BY <2>1, FewerEntries
  <2>3. Cardinality(Entries(failures)) <= max
    BY <1>1 DEF IInv, TableBounded
  <2>4. Entries(failures)' = {i \in Ips : failures'[i] # 0}
    BY DEF Entries, Ips
  <2>5. Cardinality(Entries(failures)') \in Nat
    BY <2>4, FewerEntries
  <2>6. CASE Overflow(kept)
    <3>1. old \in Entries(kept)
      BY <1>2, <2>6 DEF Oldest
    <3>2. Entries(failures)' \subseteq (Entries(kept) \ {old}) \cup {ip}
      BY <1>2, <2>4 DEF Entries
    <3>3. Cardinality(Entries(kept) \ {old}) = Cardinality(Entries(kept)) - 1
      BY <2>2, <3>1, FS_RemoveElement
    <3>4. Entries(kept) \ {old} \subseteq Ips
      BY <2>1
    <3>5. Cardinality(Entries(failures)') <= Cardinality(Entries(kept) \ {old}) + 1
      BY <1>1, <3>2, <3>4, OneIn
    <3>6. Cardinality(Entries(failures)') <= max
      BY <1>1, <2>2, <2>3, <2>5, <3>3, <3>5
    <3> QED
      BY <1>1, <3>6 DEF TableBounded, cooldown
  <2>7. CASE ~Overflow(kept)
    <3>1. Cardinality(Entries(kept)) < max
      BY <1>1, <2>2, <2>7 DEF Overflow
    <3>2. Entries(failures)' \subseteq Entries(kept) \cup {ip}
      BY <1>2, <2>4 DEF Entries
    <3>3. Cardinality(Entries(failures)') <= Cardinality(Entries(kept)) + 1
      BY <1>1, <2>1, <3>2, OneIn
    <3>4. Cardinality(Entries(failures)') <= max
      BY <1>1, <2>2, <2>5, <3>1, <3>3
    <3> QED
      BY <1>1, <3>4 DEF TableBounded, cooldown
  <2> QED
    BY <2>6, <2>7
<1> QED
  BY <1>7, <1>8, <1>9, <1>10, <1>11 DEF IInv

-----------------------------------------------------------------------------
(* The theorems about authenticate.                                           *)

\* A process that starts has read no file, and no request.
LEMMA InvInit == Init => IInv
<1> SUFFICES ASSUME Init PROVE IInv
  OBVIOUS
<1> USE DEF Init
<1>1. Idle \in RequestType /\ Idle.at = "idle" /\ Idle.now = 0
  BY FrontDoorAssumption DEF Idle, RequestType, Points
<1>2. TypeOK
  <2>1. clock \in 1..MaxTime
    BY FrontDoorAssumption
  <2>2. failures \in [Ips -> Nat] /\ promised \in [Ips -> Nat]
    OBVIOUS
  <2>3. req \in [Requests -> RequestType]
    BY <1>1
  <2> QED
    BY <2>1, <2>2, <2>3 DEF TypeOK, RequestType
<1>3. DoorInv
  BY DEF DoorInv, Entries
<1>4. RequestInv /\ TableInv /\ TableBounded
  BY <1>1 DEF RequestInv, TableInv, TableBounded
<1> QED
  BY <1>2, <1>3, <1>4 DEF IInv

\* Time passes, or nothing happens.
LEMMA IdleInv ==
    ASSUME IInv, Tick \/ UNCHANGED vars
    PROVE  IInv'
<1>1. /\ UNCHANGED <<raw, door, failures, cache, req, promised, forgotten>>
      /\ clock' = clock \/ (clock < MaxTime /\ clock' = clock + 1)
  BY DEF Tick, vars, tableVars
<1>2. clock \in 1..MaxTime /\ MaxTime \in Nat
  BY FrontDoorAssumption DEF IInv, TypeOK
<1>3. clock' \in 1..MaxTime /\ clock <= clock'
  BY <1>1, <1>2
<1>4. TypeOK'
  BY <1>1, <1>3 DEF IInv, TypeOK
<1>5. DoorInv' /\ TableBounded'
  BY <1>1 DEF IInv, DoorInv, TableBounded, Entries, cooldown, Idle
<1>6. RequestInv'
  <2>1. \A r \in Requests : req[r].now \in 0..MaxTime
    BY DEF IInv, TypeOK
  <2>2. \A r \in Requests : req[r].now <= clock'
    BY <1>2, <1>3, <2>1 DEF IInv, RequestInv
  <2> QED
    BY <1>1, <2>2 DEF IInv, RequestInv, cooldown, Refused
<1>7. TableInv'
  <2>1. \A ip \in Ips : promised[ip] \in Nat
    BY DEF IInv, TypeOK
  <2>2. \A ip \in Ips : promised[ip] <= clock => promised[ip] <= clock'
    BY <1>2, <1>3, <2>1
  <2> QED
    BY <1>1, <2>2 DEF IInv, TableInv
<1> QED
  BY <1>4, <1>5, <1>6, <1>7 DEF IInv

\* Table, cache and requests stay in step, however requests interleave.
THEOREM InductiveInvariant == Spec => []IInv
<1>1. ASSUME IInv, [Next]_vars PROVE IInv'
  <2>1. CASE Load \/ Build
    BY <1>1, <2>1, StartInv
  <2>2. ASSUME NEW r \in Requests, RequestStep(r) PROVE IInv'
    BY <1>1, <2>2, CheckCooldownInv, VerifyInv, RecordInv DEF RequestStep
  <2>3. ASSUME NEW r \in Requests, NEW address \in Addresses, NEW token \in Presented,
               Arrive(r, address, token)
        PROVE  IInv'
    BY <1>1, <2>3, ArriveInv
  <2>4. CASE Tick \/ UNCHANGED vars
    BY <1>1, <2>4, IdleInv
  <2> QED
    BY <1>1, <2>1, <2>2, <2>3, <2>4 DEF Next, Quiescent
<1> QED
  BY <1>1, InvInit, PTL DEF Spec

\* The variables have their types; only the configured token's fingerprint is
\* ever remembered (TokenVerifier::verify).
THEOREM TypeCorrect == Spec => []TypeOK
<1>1. IInv => TypeOK
  BY DEF IInv
<1> QED
  BY <1>1, InductiveInvariant, PTL

\* The table of failures never holds more than max_tracked_ips addresses
\* (record_auth_failure).
THEOREM TableBoundedHolds == Spec => []TableBounded
<1>1. IInv => TableBounded
  BY DEF IInv
<1> QED
  BY <1>1, InductiveInvariant, PTL

\* A path without captures is its own shape, and a path has its shape's length.
LEMMA ShapeIs ==
    ASSUME NEW S, NEW path \in Seq(S)
    PROVE  /\ DOMAIN Shape(path) = 1..Len(path)
           /\ \A k \in 1..Len(path) : path[k] \notin Captures => Shape(path)[k] = path[k]
           /\ (\A k \in 1..Len(path) : path[k] \notin Captures) => Shape(path) = path
<1>1. DOMAIN path = 1..Len(path) /\ Len(path) \in Nat
  OBVIOUS
<1>2. Shape(path) = [k \in 1..Len(path) |-> IF path[k] \in Captures THEN "{}" ELSE path[k]]
  BY <1>1 DEF Shape
<1>3. path = [k \in 1..Len(path) |-> path[k]]
  BY <1>1
<1> QED
  BY <1>2, <1>3

\* The segments of the system endpoints.
Segments == {Blank, "healthz", "tasks", "{task_id}", "output", "cancel", "kill", "system", "stop", "restart"}

\* A path of two, three or four segments is a sequence of them.
LEMMA Tuples ==
    ASSUME NEW S, NEW a \in S, NEW b \in S, NEW c \in S, NEW d \in S,
           NEW p, p = <<a, b>> \/ p = <<a, b, c>> \/ p = <<a, b, c, d>>
    PROVE  p \in Seq(S) /\ Len(p) >= 2 /\ p[1] = a /\ p[2] = b
<1>1. CASE p = <<a, b>>
  BY <1>1
<1>2. CASE p = <<a, b, c>>
  BY <1>2
<1>3. CASE p = <<a, b, c, d>>
  BY <1>3
<1> QED
  BY <1>1, <1>2, <1>3

\* What the system endpoints have in common.
LEMMA SystemFacts ==
    ASSUME NEW p \in SystemPaths
    PROVE  /\ p \in Seq(Segments) /\ Len(p) >= 2 /\ p[1] = Blank /\ p[2] \notin Captures
           /\ p[2] \in {"tasks", "system"} \/ (Len(p) = 2 /\ p[2] \in {Blank, "healthz"})
<1>1. Blank \notin Captures
  BY Zenon DEF Blank, Captures
<1>2. CASE p = <<Blank, Blank>> \/ p = <<Blank, "healthz">>
  <2>1. PICK b \in {Blank, "healthz"} : p = <<Blank, b>>
    BY <1>2
  <2>2. Blank \in Segments /\ b \in Segments
    BY DEF Segments
  <2>3. p \in Seq(Segments) /\ Len(p) = 2 /\ p[1] = Blank /\ p[2] = b
    BY <2>1, <2>2
  <2>4. "healthz" \notin Captures
    BY DEF Captures
  <2> QED
    BY <1>1, <2>1, <2>3, <2>4
<1>3. CASE p \notin {<<Blank, Blank>>, <<Blank, "healthz">>}
  <2>1. \E b \in {"tasks", "system"}, c \in Segments, d \in Segments :
          p = <<Blank, b, c>> \/ p = <<Blank, b, c, d>>
    <3>1. \/ p = <<Blank, "tasks", "{task_id}">> \/ p = <<Blank, "tasks", "{task_id}", "output">>
          \/ p = <<Blank, "tasks", "{task_id}", "cancel">> \/ p = <<Blank, "tasks", "{task_id}", "kill">>
          \/ p = <<Blank, "system", "stop">> \/ p = <<Blank, "system", "restart">>
      BY <1>3 DEF SystemPaths
    <3>2. {"{task_id}", "output", "cancel", "kill", "stop", "restart"} \subseteq Segments
      BY DEF Segments
    <3> QED
      BY <3>1, <3>2, Zenon
  <2>2. PICK b \in {"tasks", "system"}, c \in Segments, d \in Segments :
          p = <<Blank, b, c>> \/ p = <<Blank, b, c, d>>
    BY <2>1
  <2>3. Blank \in Segments /\ b \in Segments
    BY DEF Segments
  <2>4. p \in Seq(Segments) /\ Len(p) >= 2 /\ p[1] = Blank /\ p[2] = b
    BY <2>2, <2>3, Tuples
  <2> QED
    BY <2>4 DEF Captures
<1> QED
  BY <1>2, <1>3

\* The literal paths of an accepted configuration meet no system endpoint and
\* no other route.
LEMMA LiteralsRegister ==
    ASSUME raw \in RawConfigs, Accepted(raw), ~\E i \in DOMAIN raw.routes : Patterned(raw.routes[i].path)
    PROVE  Registers(raw.routes)
<1> DEFINE path(i) == raw.routes[i].path
<1>1. \A i \in DOMAIN raw.routes :
        /\ path(i) \in Seq(STRING)
        /\ \A k \in DOMAIN path(i) : path(i)[k] \notin Captures \cup Unparsable
  BY RawAssumption DEF Patterned
<1>2. \A i \in DOMAIN raw.routes : Shape(path(i)) = path(i)
  BY <1>1, ShapeIs
<1>3. \A i \in DOMAIN raw.routes : PathAccepted(path(i))
  BY DEF Accepted, RouteAccepted
<1>4. \A i, j \in DOMAIN raw.routes : path(i) = path(j) => i = j
  BY DEF Accepted, PathsDiffer
<1>5. ASSUME NEW i \in DOMAIN raw.routes, NEW p \in SystemPaths, Shape(path(i)) = Shape(p)
      PROVE  FALSE
  <2> DEFINE q == path(i)
  <2>1. q = Shape(p) /\ PathAccepted(q) /\ q \in Seq(STRING)
    BY <1>1, <1>2, <1>3, <1>5
  <2> HIDE DEF q
  <2>2. /\ p \in Seq(Segments) /\ Len(p) >= 2 /\ p[1] = Blank /\ p[2] \notin Captures
        /\ p[2] \in {"tasks", "system"} \/ (Len(p) = 2 /\ p[2] \in {Blank, "healthz"})
    BY SystemFacts
  <2>3. DOMAIN q = 1..Len(p) /\ DOMAIN q = 1..Len(q)
    BY <2>1, <2>2, ShapeIs
  <2>4. Len(q) = Len(p)
    BY <2>1, <2>2, <2>3
  <2>5. q[2] = p[2] /\ q[1] = Blank
    <3>1. 1 \in 1..Len(p) /\ 2 \in 1..Len(p)
      BY <2>2
    <3>2. Blank \notin Captures
      BY Zenon DEF Blank, Captures
    <3> QED
      BY <2>1, <2>2, <3>1, <3>2, ShapeIs
  <2>6. CASE Len(p) = 2 /\ p[2] = "healthz"
    <3>1. q = <<Blank, "healthz">>
      BY <2>1, <2>4, <2>5, <2>6
    <3> QED
      BY <2>1, <3>1 DEF PathAccepted
  <2>7. CASE p[2] \in {"tasks", "system"} \/ (Len(p) = 2 /\ p[2] = Blank)
    BY <2>1, <2>4, <2>5, <2>7 DEF PathAccepted
  <2> QED
    BY <2>2, <2>6, <2>7
<1> QED
  BY <1>1, <1>2, <1>4, <1>5 DEF Registers

\* build panics on an accepted configuration only when a path contains a
\* capture or a segment the router cannot parse (validate_route, app::build).
THEOREM RoutesRegisterHolds == Spec => []RoutesRegister
<1>1. IInv => RoutesRegister
  BY LiteralsRegister DEF IInv, DoorInv, TypeOK, RoutesRegister
<1> QED
  BY <1>1, InductiveInvariant, PTL

-----------------------------------------------------------------------------
(* The theorems about steps of authenticate.                                  *)

\* Who moved a request, and where it was.
LEMMA WhoMoves ==
    ASSUME IInv, [Next]_vars, NEW r \in Requests, req'[r] # req[r]
    PROVE  \/ req[r].at = "idle" /\ req'[r].at \in {"denied", "cooldown", "verify"}
           \/ CheckCooldown(r) \/ Verify(r) \/ HashDone(r) \/ Record(r)
<1>1. TypeOK /\ req \in [Requests -> RequestType]
  BY DEF IInv, TypeOK, RequestType
<1>2. CASE Load \/ Build \/ Tick \/ UNCHANGED vars
  BY <1>2 DEF Load, Build, Tick, vars
<1>3. ASSUME NEW q \in Requests, RequestStep(q) PROVE q = r
  <2>1. \E x : req' = [req EXCEPT ![q] = x]
    <3>1. \A point, now : [req EXCEPT ![q].at = point, ![q].now = now]
                             = [req EXCEPT ![q] = [@ EXCEPT !.at = point, !.now = now]]
      BY <1>1
    <3>2. \A point : Goes(q, point) => \E x : req' = [req EXCEPT ![q] = x]
      BY <3>1 DEF Goes
    <3>3. \A answer : Answer(q, answer) => \E x : req' = [req EXCEPT ![q] = x]
      BY DEF Answer
    <3>4. Fails(q) => \E x : req' = [req EXCEPT ![q] = x]
      BY <3>1, <3>3 DEF Fails
    <3> QED
      BY <1>3, <3>2, <3>3, <3>4 DEF RequestStep, CheckCooldown, Verify, HashDone, Record
  <2> QED
    BY <1>1, <2>1
<1>4. ASSUME NEW q \in Requests, NEW address \in Addresses, NEW token \in Presented,
             Arrive(q, address, token)
      PROVE  req[r].at = "idle" /\ req'[r].at \in {"denied", "cooldown", "verify"}
  <2> DEFINE new == [at |-> IF cooldown.enabled THEN "cooldown" ELSE "verify",
                     ip |-> NormalizeIp(address), token |-> token,
                     now |-> IF cooldown.enabled THEN clock ELSE 0]
  <2>1. req[q].at = "idle" /\ (Answer(q, "denied") \/ req' = [req EXCEPT ![q] = new])
    BY <1>4 DEF Arrive
  <2>2. new.at \in {"cooldown", "verify"}
    OBVIOUS
  <2> HIDE DEF new
  <2>3. CASE Answer(q, "denied")
    <3>1. Moves(q, "denied")
      BY <1>1, <2>3, AnswerMoves DEF Points
    <3> QED
      BY <2>1, <3>1 DEF Moves
  <2>4. CASE req' = [req EXCEPT ![q] = new]
    BY <1>1, <2>1, <2>2, <2>4
  <2> QED
    BY <2>1, <2>3, <2>4
<1> QED
  BY <1>2, <1>3, <1>4 DEF Next, Quiescent, RequestStep

\* Where each step of a request leads, and with which token.
LEMMA TokenStep ==
    ASSUME IInv, [Next]_vars, NEW r \in Requests, req'[r].at # req[r].at
    PROVE  /\ req'[r].at = "admitted" => req[r].token = raw.auth.token
           /\ req'[r].at \in {"record", "unauthorized"} => Refused(req[r].token)
<1>1. TypeOK /\ 0 \in 0..MaxTime
  BY FrontDoorAssumption DEF IInv
<1>2. CASE CheckCooldown(r)
  <2>1. Moves(r, "limited") \/ Moves(r, "verify")
    BY <1>1, <1>2, AnswerMoves, GoesMoves DEF CheckCooldown, Goes, Points
  <2> QED
    BY <2>1 DEF Moves
<1>3. CASE Verify(r) \/ HashDone(r)
  <2>1. CASE Fails(r) /\ Refused(req[r].token)
    <3>1. Moves(r, "record") \/ Moves(r, "unauthorized")
      BY <1>1, <2>1, FailsMoves
    <3> QED
      BY <2>1, <3>1 DEF Moves
  <2>2. CASE Answer(r, "admitted") /\ req[r].token = raw.auth.token
    <3>1. Moves(r, "admitted")
      BY <1>1, <2>2, AnswerMoves DEF Points
    <3> QED
      BY <2>2, <3>1 DEF Moves
  <2>3. CASE Goes(r, "hash")
    <3>1. Moves(r, "hash")
      BY <1>1, <2>3, GoesMoves DEF Goes, Points
    <3> QED
      BY <3>1 DEF Moves
  <2> QED
    BY <1>3, <2>1, <2>2, <2>3, Verdict
<1>4. CASE Record(r)
  <2>1. req[r].at = "record" /\ Moves(r, "unauthorized")
    BY <1>4, RecordIs
  <2> QED
    BY <2>1 DEF Moves, IInv, RequestInv
<1> QED
  BY <1>2, <1>3, <1>4, WhoMoves

\* A request is admitted with the configured token only, and refused with it
\* only if it is one that cannot be presented: not visible ASCII, which to_str
\* does not read, or malformed (authenticate, TokenVerifier::verify).
THEOREM OnlyTheTokenHolds == Spec => OnlyTheToken
<1> DEFINE Step == \A r \in Requests : req'[r].at # req[r].at =>
                      /\ req'[r].at = "admitted" => req[r].token = raw.auth.token
                      /\ req'[r].at \in {"record", "unauthorized"} =>
                            req[r].token # raw.auth.token \/ req[r].token \in Unpresentable
<1>1. IInv /\ [Next]_vars => [Step]_vars
  BY TokenStep DEF Refused
<1>2. Spec => [][Next]_vars
  BY PTL DEF Spec
<1>3. Spec => [][Step]_vars
  BY <1>1, <1>2, InductiveInvariant, PTL
<1> QED
  BY <1>3 DEF OnlyTheToken

\* The verdict of a cooldown check and the last failure of its address.
LEMMA CooldownStep ==
    ASSUME IInv, [Next]_vars, NEW r \in Requests, req[r].at = "cooldown"
    PROVE  /\ req'[r].at = "verify" => promised[req[r].ip] <= clock \/ req[r].ip \in forgotten
           /\ req'[r].at = "limited" => promised[req[r].ip] > req[r].now
<1>1. SUFFICES ASSUME req'[r].at \in {"verify", "limited"} PROVE
           /\ req'[r].at = "verify" => promised[req[r].ip] <= clock \/ req[r].ip \in forgotten
           /\ req'[r].at = "limited" => promised[req[r].ip] > req[r].now
  OBVIOUS
<1>2. CheckCooldown(r)
  BY <1>1, WhoMoves DEF Verify, HashDone, Record
<1>3. TypeOK /\ 0 \in 0..MaxTime
  BY FrontDoorAssumption DEF IInv
<1>4. /\ req[r].ip \in Ips /\ req[r].now <= clock
      /\ req[r].now \in Nat /\ clock \in Nat
      /\ failures[req[r].ip] \in Nat /\ promised[req[r].ip] \in Nat
  BY FrontDoorAssumption DEF IInv, RequestInv, TypeOK
<1>5. /\ failures[req[r].ip] = 0 \/ failures[req[r].ip] = promised[req[r].ip]
      /\ failures[req[r].ip] = 0 => promised[req[r].ip] <= clock \/ req[r].ip \in forgotten
  BY <1>4 DEF IInv, TableInv
<1>6. CASE StillCooling(r)
  <2>1. Moves(r, "limited")
    BY <1>2, <1>3, <1>6, AnswerMoves DEF CheckCooldown, Points
  <2>2. req'[r].at = "limited"
    BY <2>1 DEF Moves
  <2>3. promised[req[r].ip] > req[r].now
    BY <1>4, <1>5, <1>6 DEF StillCooling
  <2> QED
    BY <2>2, <2>3
<1>7. CASE ~StillCooling(r)
  <2>1. Moves(r, "verify")
    BY <1>2, <1>3, <1>7, GoesMoves DEF CheckCooldown, Goes, Points
  <2>2. req'[r].at = "verify"
    BY <2>1 DEF Moves
  <2>3. failures[req[r].ip] = promised[req[r].ip] => promised[req[r].ip] <= clock
    BY <1>4, <1>7 DEF StillCooling
  <2> QED
    BY <1>5, <2>2, <2>3
<1> QED
  BY <1>6, <1>7

\* The cooldown check lets an address pass when its last failure is over or was
\* evicted, and refuses it only when it is not over (cooldown_remaining).
THEOREM CooldownHoldsAlways == Spec => CooldownHolds
<1> DEFINE Step == \A r \in Requests : req[r].at = "cooldown" =>
                      /\ req'[r].at = "verify" => promised[req[r].ip] <= clock \/ req[r].ip \in forgotten
                      /\ req'[r].at = "limited" => promised[req[r].ip] > req[r].now
<1>1. IInv /\ [Next]_vars => [Step]_vars
  BY CooldownStep
<1>2. Spec => [][Next]_vars
  BY PTL DEF Spec
<1>3. Spec => [][Step]_vars
  BY <1>1, <1>2, InductiveInvariant, PTL
<1> QED
  BY <1>3 DEF CooldownHolds

\* Who is evicted: an entry that ends first, in a table that is full.
LEMMA EvictionStep ==
    ASSUME IInv, [Next]_vars, NEW ip \in forgotten' \ forgotten
    PROVE  \E r \in Requests :
             /\ req[r].at = "record" /\ req'[r].at = "unauthorized"
             /\ failures[ip] > req[r].now
             /\ Cardinality({i \in Ips : failures[i] > req[r].now}) >= cooldown.max_tracked_ips
             /\ \A other \in Ips :
                   failures'[other] # 0 /\ failures'[other] = failures[other] => failures[ip] <= failures[other]
<1>1. PICK r \in Requests : Record(r)
  BY DEF Next, Quiescent, RequestStep, Load, Build, Tick, Arrive, CheckCooldown, Verify, HashDone, vars,
         tableVars
<1> DEFINE own == req[r].ip
           now == req[r].now
           until == now + cooldown.seconds
           kept == Retained(now)
<1>2. /\ own \in Ips /\ now \in Nat /\ until \in Nat /\ until > now
      /\ kept \in [Ips -> Nat] /\ Entries(kept) = {i \in Ips : failures[i] > now}
  BY <1>1, RecordIs
<1>3. PICK old \in Entries(kept) \cup {"none"} :
         /\ Overflow(kept) => old \in Oldest(kept)
         /\ ~Overflow(kept) => old = "none"
         /\ failures' = [i \in Ips |-> IF i = own THEN until ELSE IF i = old THEN 0 ELSE kept[i]]
         /\ forgotten' = (forgotten \cup ({old} \cap Ips)) \ {own}
  BY <1>1, RecordIs
<1>4. \A i \in Ips : kept[i] = IF failures[i] > now THEN failures[i] ELSE 0
  BY DEF Retained
<1>5. failures \in [Ips -> Nat]
  BY DEF IInv, TypeOK
<1> HIDE DEF own, until, kept
<1>6. ip = old /\ ip # own /\ ip \in Ips
  BY <1>3
<1>7. Overflow(kept) /\ ip \in Entries(kept) /\ \A o \in Entries(kept) : kept[ip] <= kept[o]
  BY <1>3, <1>6, IpFacts DEF Oldest
<1>8. Cardinality({i \in Ips : failures[i] > now}) >= cooldown.max_tracked_ips
  BY <1>2, <1>7 DEF Overflow
<1>9. ASSUME NEW other \in Ips, failures'[other] # 0, failures'[other] = failures[other]
      PROVE  failures[ip] <= failures[other]
  <2>1. failures[other] > now
    BY <1>2, <1>3, <1>4, <1>5, <1>9
  <2>2. other \in Entries(kept) /\ kept[other] = failures[other] /\ kept[ip] = failures[ip]
    BY <1>2, <1>4, <1>6, <1>7, <2>1
  <2> QED
    BY <1>7, <2>2
<1>10. failures[ip] > now
  BY <1>2, <1>7
<1>11. req[r].at = "record" /\ req'[r].at = "unauthorized"
  BY <1>1, RecordIs DEF Moves
<1> QED
  BY <1>8, <1>9, <1>10, <1>11

\* An entry that is not over is evicted only by a failure that finds the table
\* full of such entries, and none that stays ends earlier (record_auth_failure).
THEOREM OnlyOverflowForgetsHolds == Spec => OnlyOverflowForgets
<1> DEFINE Step == \A ip \in forgotten' \ forgotten : \E r \in Requests :
                      /\ req[r].at = "record" /\ req'[r].at = "unauthorized"
                      /\ failures[ip] > req[r].now
                      /\ Cardinality({i \in Ips : failures[i] > req[r].now}) >= cooldown.max_tracked_ips
                      /\ \A other \in Ips :
                            failures'[other] # 0 /\ failures'[other] = failures[other]
                               => failures[ip] <= failures[other]
<1>1. IInv /\ [Next]_vars => [Step]_vars
  BY EvictionStep
<1>2. Spec => [][Next]_vars
  BY PTL DEF Spec
<1>3. Spec => [][Step]_vars
  BY <1>1, <1>2, InductiveInvariant, PTL
<1> QED
  BY <1>3 DEF OnlyOverflowForgets
=============================================================================
