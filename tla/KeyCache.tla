------------------------------ MODULE KeyCache ------------------------------
(***************************************************************************)
(* JWKSCache of the relay: the published signing keys behind the tokens of *)
(* services (OAuthTokenValidator, get_key) and behind HeartBeat's webhooks *)
(* (WebhookVerifier, get_all_keys).  The two hold an instance each; one is *)
(* modelled, used in both ways.                                            *)
(*                                                                         *)
(* Time is counted in ticks.  The key set is read at its publisher at one  *)
(* moment and lands later, at most Flight ticks after it was asked for;    *)
(* the clock starts at 1, the tick 0 lies before everything.               *)
(***************************************************************************)
EXTENDS Naturals, FiniteSets

CONSTANTS
    Requests,      \* slots for requests under way
    Kids,          \* signing keys
    FirstKeys,     \* those published at the start
    KeysTTL,       \* ticks the key set counts as fresh
    Flight,        \* ticks a refresh takes at most
    MaxNow         \* bound on the clock

VARIABLES
    now,
    request,       \* per slot, see Idle
    since, until,  \* key -> ticks it was published and retracted at
    keys,          \* kids of the cached set
    fetchedAt,     \* tick of the last successful refresh
    failedAt       \* tick of the last failed refresh, 0 before

\* What the proofs assume of the constants: times are numbers.
LegalConstants == KeysTTL \in Nat /\ Flight \in Nat /\ MaxNow \in Nat \ {0}

vars == <<now, request, since, until, keys, fetchedAt, failedAt>>

Never == MaxNow + 1

Idle == [at |-> "idle", kind |-> "none", kid |-> "none", sent |-> 0,
         seen |-> {}, answer |-> "none", time |-> 0]

Published == {k \in Kids : since[k] <= now /\ now < until[k]}
Waiting   == {r \in Requests : request[r].at \in {"asked", "answered"}}

TypeOK ==
    /\ now \in 1..MaxNow
    /\ \A r \in Requests :
          /\ request[r].at \in {"idle", "asked", "answered", "over"}
          /\ request[r].kind \in {"none", "service", "webhook"}
          /\ request[r].answer \in {"none", "accepted", "unknown_key"}
    /\ since \in [Kids -> 0..Never] /\ until \in [Kids -> 0..Never]
    /\ keys \subseteq Kids /\ fetchedAt \in 0..MaxNow /\ failedAt \in 0..MaxNow

Init ==
    /\ now = 1
    /\ request = [r \in Requests |-> Idle]
    /\ since = [k \in Kids |-> IF k \in FirstKeys THEN 1 ELSE Never]
    /\ until = [k \in Kids |-> Never]
    /\ keys = {} /\ fetchedAt = 0 /\ failedAt = 0

-----------------------------------------------------------------------------
Stale == now - fetchedAt >= KeysTTL

\* Seeded fault for NeedsRefresh: age does not make the relay look again.
NeedsRefreshIfMissing(kind, k) == IF kind = "service" THEN k \notin keys ELSE keys = {}

\* get_key looks again for a key it does not have, get_all_keys only when it
\* has none at all.
NeedsRefresh(kind, k) ==
    IF kind = "service" THEN Stale \/ k \notin keys ELSE Stale \/ keys = {}

\* The request as it ends, judged by the set "known".
Judged(req, known) ==
    LET over == [req EXCEPT !.at = "over", !.time = now, !.seen = {}]
    IN  IF req.kid \in known THEN [over EXCEPT !.answer = "accepted", !.sent = 0]
        ELSE [over EXCEPT !.answer = "unknown_key"]

\* A token or a webhook signed with key k and in order but for that.
Receive(r) ==
    /\ request[r].at \in {"idle", "over"}
    /\ \E kind \in {"service", "webhook"}, k \in Kids :
         LET new == [Idle EXCEPT !.kind = kind, !.kid = k, !.sent = now]
         IN  request' = [request EXCEPT ![r] =
               IF NeedsRefresh(kind, k) THEN [new EXCEPT !.at = "asked"]
               ELSE Judged(new, keys)]
    /\ UNCHANGED <<now, since, until, keys, fetchedAt, failedAt>>

ReadKeys(r) ==
    /\ request[r].at = "asked"
    /\ request' = [request EXCEPT ![r].at = "answered", ![r].seen = Published]
    /\ UNCHANGED <<now, since, until, keys, fetchedAt, failedAt>>

Refreshed(read) == read

\* _refresh and the lookup that follows it without an await.
Land(r) ==
    /\ request[r].at = "answered"
    /\ keys' = Refreshed(request[r].seen)
    /\ fetchedAt' = now
    /\ request' = [request EXCEPT ![r] = Judged(request[r], keys')]
    /\ UNCHANGED <<now, since, until, failedAt>>

\* Fail-soft: the keys at hand are used as they are, however old.
Fails(r) ==
    /\ r \in Waiting
    /\ failedAt' = now
    /\ request' = [request EXCEPT ![r] = Judged(request[r], keys)]
    /\ UNCHANGED <<now, since, until, keys, fetchedAt>>

Publish == \E k \in Kids :
    /\ since[k] = Never
    /\ since' = [since EXCEPT ![k] = now]
    /\ UNCHANGED <<now, request, until, keys, fetchedAt, failedAt>>

\* The last key stays until another one is published.
Retract == \E k \in Published :
    /\ Published # {k}
    /\ until' = [until EXCEPT ![k] = now]
    /\ UNCHANGED <<now, request, since, keys, fetchedAt, failedAt>>

\* Time goes on, and what was answered is done with.
Tick ==
    /\ now < MaxNow
    /\ \A r \in Waiting : now - request[r].sent < Flight
    /\ now' = now + 1
    /\ request' = [r \in Requests |-> IF r \in Waiting THEN request[r] ELSE Idle]
    /\ UNCHANGED <<since, until, keys, fetchedAt, failedAt>>

Next == Publish \/ Retract \/ Tick
          \/ \E r \in Requests : Receive(r) \/ ReadKeys(r) \/ Land(r) \/ Fails(r)

Spec == Init /\ [][Next]_vars

-----------------------------------------------------------------------------
(***************************************************************************)
(* Properties.                                                             *)
(***************************************************************************)

\* A retracted key opens nothing TTL and one flight after its retraction,
\* unless a refresh failed since and the old set lived on.
RetractedKeyDiesOut ==
    \A r \in Requests : request[r].answer = "accepted" =>
        LET end == until[request[r].kid]
        IN  request[r].time > end + KeysTTL + Flight => failedAt >= end

\* "Online rotation": a service token signed with a key that was published
\* before it arrived is never refused for its key, a webhook so signed no
\* longer than TTL and one flight, unless a refresh failed since.
PublishedKeyFound ==
    \A r \in Requests : request[r].answer = "unknown_key" =>
        LET k == request[r].kid
            grace == IF request[r].kind = "service" THEN request[r].time - request[r].sent
                     ELSE KeysTTL + Flight
        IN  (since[k] + grace < request[r].time /\ until[k] > request[r].time)
              => failedAt >= since[k]
=============================================================================
