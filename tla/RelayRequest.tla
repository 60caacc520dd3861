---------------------------- MODULE RelayRequest ----------------------------
(***************************************************************************)
(* The HTTP surface of the relay: how a request is authenticated, held     *)
(* against the versions the client believes in, and answered by its route. *)
(*                                                                         *)
(* One request is followed from arrival to answer.  A step ends where the  *)
(* handler awaits another service, which may be down by then: HeartBeat    *)
(* (introspection, files, duplicates), Core, Redis, or a publisher of      *)
(* keys.  What ingest and finalize do is in RelayIngest, RelayBatch and    *)
(* RelayFinalize, what is cached in TokenCache, KeyCache and RelayCaches.  *)
(***************************************************************************)
EXTENDS Naturals, FiniteSets

CONSTANTS
    Routes,        \* the routes called
    Credentials,   \* what requests present: [scheme, sound, live]
    KeysKnown,     \* a key set is in the cache when its publisher is down
    ServiceTokens  \* RELAY_JWKS_URL is set

VARIABLES
    request,       \* [route, cred, drifted, body, at, answer]
    down,          \* services that do not answer now
    failed         \* services that failed this request

vars == <<request, down, failed>>

Services == {"heartbeat", "core", "redis", "keys"}

None == [route |-> "none", cred |-> "none", drifted |-> FALSE, body |-> "none",
         at |-> "idle", answer |-> 0]

Lookups == {"status", "duplicate"}

\* Behind the drift guard, which has its own authentication first.
Guarded == {"ingest", "finalize"}

\* Routes whose handler authenticates by a call of its own; finalize does so
\* a second time.  The others get the context of the dependency.
OwnAuthentication == {"finalize", "status", "artifact"}

-----------------------------------------------------------------------------
(* errors.py: the status an error becomes.                                 *)

Refusal == [invalid |-> 400, unauthenticated |-> 401, foreign_tenant |-> 403,
            no_artifact |-> 404, duplicate_file |-> 409, already_finalized |-> 409,
            version_drift |-> 409, unprocessable |-> 422, over_limit |-> 429]

Failure == [internal |-> 500, no_codes |-> 500, transient |-> 500,
            auth_upstream |-> 502, unavailable |-> 503, module_not_loaded |-> 503]

Refusals == {Refusal[e] : e \in DOMAIN Refusal}
Failures == {Failure[e] : e \in DOMAIN Failure}

TypeOK ==
    /\ request.at \in {"idle", "auth", "guard", "body", "check", "handle", "heartbeat", "over"}
    /\ request.answer \in {0, 200, 202} \cup Refusals \cup Failures
    /\ down \subseteq Services /\ failed \subseteq Services

Init == request = None /\ down = {} /\ failed = {}

Goto(step) == request' = [request EXCEPT !.at = step]
Answer(a)  == request' = [request EXCEPT !.at = "over", !.answer = a]

-----------------------------------------------------------------------------
\* What a body may be, per route; the others have none that counts.
BodiesOf(route) ==
    CASE route = "ingest"    -> {"bulk", "external", "batch", "list_metadata", "no_files", "bad_files"}
      [] route = "finalize"  -> {"ok", "garbled", "empty"}
      [] route = "status"    -> {"by_batch", "by_transaction", "by_number", "garbled", "empty", "two_selectors"}
      [] route = "duplicate" -> {"ok", "garbled", "empty"}
      [] route = "artifact"  -> {"hard", "lifecycle", "garbled", "empty"}
      [] OTHER               -> {"ok"}

\* A JSON body that a typed route cannot parse is refused before anything.
Arrive ==
    /\ request.at = "idle"
    /\ \E route \in Routes, cred \in Credentials, drifted \in BOOLEAN : \E body \in BodiesOf(route) :
          request' = IF route = "duplicate" /\ body = "garbled"
                     THEN [None EXCEPT !.route = route, !.at = "over", !.answer = Refusal.unprocessable]
                     ELSE [route |-> route, cred |-> cred, drifted |-> drifted, body |-> body,
                           at |-> "auth", answer |-> 0]
    /\ UNCHANGED <<down, failed>>

\* Which service an authentication has to ask.  Without a key set URL the
\* token of a service is put before HeartBeat like that of a user.
Authority(cred) ==
    IF cred.scheme = "service" /\ ServiceTokens THEN "keys"
    ELSE IF cred.scheme \in {"service", "user"} THEN "heartbeat"
    ELSE "relay"

\* Key, timestamp and signature of the body.
ByHmac(cred) == IF cred.sound THEN {"pass"} ELSE {"unauthenticated"}

\* HeartBeat knows users only.  Only refused connections and timeouts of
\* reading or writing are told from a failure of the relay itself.
ByHeartBeat(cred) ==
    IF "heartbeat" \in down THEN {"auth_upstream", "internal"}
    ELSE IF cred.sound /\ cred.live /\ cred.scheme = "user" THEN {"pass"}
    ELSE {"unauthenticated"}

\* A key set that cannot be had is used as it was; a token is taken for not
\* revoked when Redis cannot be asked.
ByKeySet(cred) ==
    IF cred.sound /\ (KeysKnown \/ "keys" \notin down) /\ (cred.live \/ "redis" \in down)
    THEN {"pass"} ELSE {"unauthenticated"}

\* authenticate_request: HMAC headers before bearer, a pair before a token.
Authenticated(cred) ==
    CASE Authority(cred) = "relay"     -> ByHmac(cred)
      [] Authority(cred) = "heartbeat" -> ByHeartBeat(cred)
      [] Authority(cred) = "keys"      -> ByKeySet(cred)

Asked(cred) ==
    CASE Authority(cred) = "relay"     -> {}
      [] Authority(cred) = "heartbeat" -> {"heartbeat"}
      [] Authority(cred) = "keys"      -> {"keys", "redis"}

AfterAuthentication ==
    IF request.route \in Guarded /\ request.at = "auth" THEN "guard" ELSE "body"

\* At "check" finalize authenticates for the second time.
Authenticate ==
    /\ request.at \in {"auth", "check"}
    /\ request.route \notin {"webhook", "internal"}
    /\ \E verdict \in Authenticated(request.cred) :
          CASE verdict = "pass"            -> Goto(AfterAuthentication)
            [] verdict = "unauthenticated" -> Answer(Refusal.unauthenticated)
            [] verdict = "auth_upstream"   -> Answer(Failure.auth_upstream)
            [] verdict = "internal"        -> Answer(Failure.internal)
    /\ failed' = failed \cup (Asked(request.cred) \cap down)
    /\ UNCHANGED down

\* A webhook is signed by HeartBeat and only acknowledged; the internal
\* routes compare one token and refresh the caches.
Verify ==
    /\ request.at = "auth"
    /\ request.route \in {"webhook", "internal"}
    /\ LET sound == /\ request.cred.sound
                    /\ request.route = "webhook" => (KeysKnown \/ "keys" \notin down)
       IN  IF ~sound THEN Answer(Refusal.unauthenticated)
           ELSE IF request.route = "webhook" THEN Answer(200) ELSE Goto("handle")
    /\ failed' = failed \cup (IF request.route = "webhook" THEN {"keys"} \cap down ELSE {})
    /\ UNCHANGED down

\* A header names a version the relay has and does not agree with.  The
\* permissions header is never compared: the relay holds no such version.
Drifts == request.drifted

Guard ==
    /\ request.at = "guard"
    /\ IF Drifts THEN Answer(Refusal.version_drift)
       ELSE IF request.route \in OwnAuthentication THEN Goto("check") ELSE Goto("body")
    /\ UNCHANGED <<down, failed>>

\* 0 is a body the route goes on with.
BodyRefusal(route, body) ==
    CASE body = "no_files"                              -> Refusal.unprocessable
      [] body = "empty" /\ route = "duplicate"          -> Refusal.unprocessable
      [] body = "empty" /\ route = "artifact"           -> Refusal.no_artifact
      [] body = "empty" /\ route \notin {"duplicate", "artifact"} -> Refusal.invalid
      [] body \in {"garbled", "two_selectors"}          -> Refusal.invalid
      [] OTHER                                          -> 0

\* metadata that is JSON and no object has no .get: the exception escapes.
ReadBody ==
    /\ request.at = "body"
    /\ IF request.body = "list_metadata" THEN Answer(Failure.internal)
       ELSE LET refused == BodyRefusal(request.route, request.body)
            IN  IF refused = 0 THEN Goto("handle") ELSE Answer(refused)
    /\ UNCHANGED <<down, failed>>

-----------------------------------------------------------------------------
(* The handlers.                                                           *)

\* A finalize flag in the metadata overrides call_type; one .json file with
\* a list in it is a batch whatever they say.  A batch is answered 200, the
\* records that failed being named in it.  External may fail for its codes
\* when everything is stored.
IngestAnswers(body) ==
    CASE body = "batch"     -> {200}
      [] body = "bad_files" -> {Refusal.invalid}
      [] OTHER -> {200, Refusal.duplicate_file, Refusal.over_limit}
                    \cup (IF body = "external" THEN {Failure.module_not_loaded, Failure.no_codes} ELSE {})

Ingest ==
    /\ request.at = "handle" /\ request.route = "ingest"
    /\ IF "heartbeat" \in down /\ request.body # "bad_files"
       THEN /\ Answer(IF request.body = "batch" THEN 200 ELSE Failure.unavailable)
            /\ failed' = failed \cup {"heartbeat"}
       ELSE /\ \E a \in IngestAnswers(request.body) : Answer(a)
            /\ UNCHANGED failed
    /\ UNCHANGED down

\* 202 whether Core answers or not.
Finalize ==
    /\ request.at = "handle" /\ request.route = "finalize"
    /\ IF "core" \in down THEN failed' = failed \cup {"core"} ELSE UNCHANGED failed
    /\ \E a \in {202, Refusal.already_finalized} : Answer(a)
    /\ UNCHANGED down

\* Seeded fault for SafeAnswer: a failure of the upstream is passed on.
SafeAnswerRaises(service) == IF service \in down THEN Failure.unavailable ELSE 200

\* StatusService._safe: a source that fails counts as one without records.
SafeAnswer(service) == 200

\* By batch or transaction HeartBeat is asked first, otherwise only Core.
Status ==
    /\ request.at = "handle" /\ request.route = "status"
    /\ IF request.body = "by_number"
       THEN Answer(SafeAnswer("core")) /\ failed' = failed \cup ({"core"} \cap down)
       ELSE /\ IF SafeAnswer("heartbeat") = 200 THEN Goto("heartbeat")
               ELSE Answer(SafeAnswer("heartbeat"))
            /\ failed' = failed \cup ({"heartbeat"} \cap down)
    /\ UNCHANGED down

StatusOfCore ==
    /\ request.at = "heartbeat" /\ request.route = "status"
    /\ Answer(SafeAnswer("core"))
    /\ failed' = failed \cup ({"core"} \cap down)
    /\ UNCHANGED down

\* Redis first.  Nothing writes the entries it looks for, so it never knows
\* the file; the relay asks HeartBeat next, whether Redis answered or not.
\* The tenant check before it has no tenant to compare and always passes.
Duplicate ==
    /\ request.at = "handle" /\ request.route = "duplicate"
    /\ Goto("heartbeat")
    /\ failed' = failed \cup ({"redis"} \cap down)
    /\ UNCHANGED down

\* When HeartBeat fails, the file counts as new.
DuplicateOfHeartBeat ==
    /\ request.at = "heartbeat" /\ request.route = "duplicate"
    /\ Answer(200)
    /\ failed' = failed \cup ({"heartbeat"} \cap down)
    /\ UNCHANGED down

\* Lifecycle artifacts are Core's, which has none at this commit.
Artifact ==
    /\ request.at = "handle" /\ request.route = "artifact"
    /\ IF request.body = "lifecycle" THEN Answer(Refusal.no_artifact) /\ UNCHANGED failed
       ELSE IF "heartbeat" \in down
       THEN Answer(Failure.unavailable) /\ failed' = failed \cup {"heartbeat"}
       ELSE /\ \E a \in {200, Refusal.no_artifact} : Answer(a)
            /\ UNCHANGED failed
    /\ UNCHANGED down

\* Refreshes are fail-soft and say what they have done.
RefreshCaches ==
    /\ request.at = "handle" /\ request.route = "internal"
    /\ Answer(200)
    /\ failed' = failed \cup ({"heartbeat"} \cap down)
    /\ UNCHANGED down

\* The next request.
Finish ==
    /\ request.at = "over"
    /\ request' = None /\ failed' = {}
    /\ UNCHANGED down

Outage == \E s \in Services \ down :
    down' = down \cup {s} /\ UNCHANGED <<request, failed>>
Repair == \E s \in down :
    down' = down \ {s} /\ UNCHANGED <<request, failed>>

Next ==
    \/ Outage \/ Repair \/ Arrive \/ Authenticate \/ Verify \/ Guard \/ ReadBody
    \/ Ingest \/ Finalize \/ Status \/ StatusOfCore \/ Duplicate \/ DuplicateOfHeartBeat
    \/ Artifact \/ RefreshCaches \/ Finish

Spec == Init /\ [][Next]_vars

-----------------------------------------------------------------------------
(***************************************************************************)
(* Properties.                                                             *)
(***************************************************************************)

\* "Never 5xx the status surface": a lookup of a status or a duplicate is
\* never answered with a failure, whichever services go down between its
\* steps, unless the one that knows the caller's token was among them.
LookupsSurviveOutages ==
    (request.route \in Lookups /\ request.answer \in Failures)
        => "heartbeat" \in failed /\ Authority(request.cred) = "heartbeat"
=============================================================================
