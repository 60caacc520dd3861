----------------------------- MODULE TokenCache -----------------------------
(***************************************************************************)
(* IntrospectClient of the relay: user tokens are put before HeartBeat,    *)
(* and what it said is kept for a while.                                   *)
(*                                                                         *)
(* Time is counted in ticks.  HeartBeat reads a token's state at one       *)
(* moment and its answer lands later, at most Flight ticks after it was    *)
(* asked; the cache is used and filled without an await.  Introspection is *)
(* asked once: a failure is a 502 or 500 for the caller, not remembered.   *)
(***************************************************************************)
EXTENDS Naturals, FiniteSets, SequencesExt

CONSTANTS
    Requests,      \* slots for requests under way
    Tokens,        \* user tokens, by their jti
    NoJti,         \* those that carry none
    TokenTTL,      \* ticks an introspection is cached
    Flight,        \* ticks a question to HeartBeat takes at most
    CacheSize,     \* entries of the cache
    MaxNow         \* bound on the clock

VARIABLES
    now,
    request,       \* per slot, see Idle
    revokedAt,     \* token -> tick of its revocation, Never before
    tokenCache     \* sequence of [jti, active, until], oldest use first

\* What the proofs assume of the constants: times and sizes are numbers.
LegalConstants ==
    /\ TokenTTL \in Nat /\ Flight \in Nat /\ CacheSize \in Nat /\ MaxNow \in Nat

vars == <<now, request, revokedAt, tokenCache>>

Never == MaxNow + 1

\* "seen" is what HeartBeat said of the token.
Idle == [at |-> "idle", token |-> "none", direct |-> FALSE, sent |-> 0,
         seen |-> FALSE, answer |-> "none", time |-> 0]

Active(t) == now < revokedAt[t]
Waiting   == {r \in Requests : request[r].at \in {"asked", "answered"}}

TypeOK ==
    /\ now \in 0..MaxNow
    /\ \A r \in Requests :
          /\ request[r].at \in {"idle", "asked", "answered", "over"}
          /\ request[r].answer \in {"none", "accepted", "rejected", "unavailable", "raised"}
    /\ revokedAt \in [Tokens -> 0..Never]
    /\ Len(tokenCache) <= CacheSize
    /\ \A i, j \in 1..Len(tokenCache) : tokenCache[i].jti = tokenCache[j].jti => i = j

Init ==
    /\ now = 0
    /\ request = [r \in Requests |-> Idle]
    /\ revokedAt = [t \in Tokens |-> Never]
    /\ tokenCache = <<>>

\* What is remembered of an answer: when a token was accepted, and how.
Ended(req, answer) ==
    IF answer = "accepted"
    THEN [Idle EXCEPT !.at = "over", !.answer = answer, !.token = req.token,
                      !.direct = req.direct, !.time = now]
    ELSE [Idle EXCEPT !.at = "over", !.answer = answer]

-----------------------------------------------------------------------------
Hits(t)    == {i \in 1..Len(tokenCache) : tokenCache[i].jti = t}
Place(t)   == CHOOSE i \in Hits(t) : TRUE
EntryOf(t) == tokenCache[Place(t)]
Without(t) == IF Hits(t) = {} THEN tokenCache ELSE RemoveAt(tokenCache, Place(t))
Fresh(t)   == Hits(t) # {} /\ now < EntryOf(t).until

\* Seeded fault for Touched: use renews an entry.
TouchedRenews(t) == Append(Without(t), [EntryOf(t) EXCEPT !.until = now + TokenTTL])

\* move_to_end: use keeps an entry from being evicted but does not renew it.
Touched(t) == Append(Without(t), EntryOf(t))

\* Seeded fault for Put: nothing makes room.
PutUnbounded(t, active) ==
    Append(Without(t), [jti |-> t, active |-> active, until |-> now + TokenTTL])

\* _cache_put; the least recently used entry makes room.
Put(t, active) ==
    LET all == Append(Without(t), [jti |-> t, active |-> active, until |-> now + TokenTTL])
    IN  IF Len(all) > CacheSize THEN Tail(all) ELSE all

\* From the cache, unless the request asks to bypass it or the token has no
\* jti; a stale entry is dropped by the look at it.
Receive(r) ==
    /\ request[r].at \in {"idle", "over"}
    /\ \E t \in Tokens, bypass \in BOOLEAN :
         LET direct == bypass \/ t \in NoJti
             new == [Idle EXCEPT !.token = t, !.direct = direct, !.sent = now]
         IN  IF ~direct /\ Fresh(t)
             THEN /\ request' = [request EXCEPT ![r] =
                         Ended(new, IF EntryOf(t).active THEN "accepted" ELSE "rejected")]
                  /\ tokenCache' = Touched(t)
             ELSE /\ request' = [request EXCEPT ![r] = [new EXCEPT !.at = "asked"]]
                  /\ tokenCache' = IF direct THEN tokenCache ELSE Without(t)
    /\ UNCHANGED <<now, revokedAt>>

\* HeartBeat reads the token's state.
Introspect(r) ==
    /\ request[r].at = "asked"
    /\ request' = [request EXCEPT ![r].at = "answered", ![r].seen = Active(request[r].token)]
    /\ UNCHANGED <<now, revokedAt, tokenCache>>

\* Its answer arrives: positive and negative ones are kept alike.
Land(r) ==
    /\ request[r].at = "answered"
    /\ LET active == request[r].seen
       IN  /\ request' = [request EXCEPT ![r] = Ended(request[r], IF active THEN "accepted" ELSE "rejected")]
           /\ tokenCache' = IF request[r].direct THEN tokenCache ELSE Put(request[r].token, active)
    /\ UNCHANGED <<now, revokedAt>>

\* Refused connections, timeouts of reading or writing, 401 for the relay
\* itself, 5xx and other statuses make HeartBeat unavailable; any other
\* error of the client, as a timeout of connecting, and an answer that
\* cannot be read escape.
Fails(r) ==
    /\ r \in Waiting
    /\ \E answer \in {"unavailable", "raised"} :
          request' = [request EXCEPT ![r] = Ended(request[r], answer)]
    /\ UNCHANGED <<now, revokedAt, tokenCache>>

Revoke == \E t \in Tokens :
    /\ Active(t)
    /\ revokedAt' = [revokedAt EXCEPT ![t] = now]
    /\ UNCHANGED <<now, request, tokenCache>>

\* Time passes no question by: its timeout ends it.
Tick ==
    /\ now < MaxNow
    /\ \A r \in Waiting : now - request[r].sent < Flight
    /\ now' = now + 1
    /\ UNCHANGED <<request, revokedAt, tokenCache>>

Next == Revoke \/ Tick \/ \E r \in Requests : Receive(r) \/ Introspect(r) \/ Land(r) \/ Fails(r)

Spec == Init /\ [][Next]_vars

-----------------------------------------------------------------------------
(***************************************************************************)
(* Properties.                                                             *)
(***************************************************************************)

\* A revoked token is refused TTL and one flight after its revocation at the
\* latest, however often it is used in between and whichever answers cross;
\* with the bypass header one flight is all.
RevokedTokenDiesOut ==
    \A r \in Requests : request[r].answer = "accepted" =>
        request[r].time <= revokedAt[request[r].token]
                             + (IF request[r].direct THEN 0 ELSE TokenTTL) + Flight
=============================================================================
