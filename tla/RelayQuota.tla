----------------------------- MODULE RelayQuota -----------------------------
(***************************************************************************)
(* The daily limit of a company: RedisClient.check_rate_limit, HeartBeat's *)
(* check behind it, and IngestionService._check_daily_limit, which takes   *)
(* the first that answers and lets the upload pass when none does.         *)
(*                                                                         *)
(* The relay processes share one Redis.  INCRBY and TTL are one round trip,*)
(* EXPIRE another.  A key names its day and its TTL is a day, so no key is *)
(* dropped before its day is over.  HeartBeat is external.                 *)
(***************************************************************************)
EXTENDS Naturals, FiniteSets

CONSTANTS
    Uploads,       \* calls of _check_daily_limit, for one company
    Relays,        \* relay processes
    Sizes,         \* files of an upload
    Limit,         \* files a day
    Days           \* bound: days that pass

VARIABLES
    upload,        \* per call: [at, relay, size, day, verdict, by]
    counter,       \* day -> value of its key, 0 if there is none
    expiring,      \* days whose key has a TTL
    available,     \* relay -> RedisClient._available
    today

\* What the proofs assume of the constants.
LegalConstants == Sizes \subseteq Nat /\ Limit \in Nat /\ Days \in Nat \ {0}

vars == <<upload, counter, expiring, available, today>>

New == [at |-> "new", relay |-> "none", size |-> 0, day |-> 0, verdict |-> "none", by |-> "none"]

TypeOK ==
    /\ \A u \in Uploads :
          /\ upload[u].at \in {"new", "redis", "expire", "heartbeat", "over"}
          /\ upload[u].verdict \in {"none", "allowed", "refused"}
          /\ upload[u].by \in {"none", "redis", "heartbeat", "nobody"}
    /\ counter \in [1..Days -> Nat]
    /\ expiring \subseteq 1..Days
    /\ available \in [Relays -> BOOLEAN]
    /\ today \in 1..Days

\* connect() pings once at startup; a relay without Redis stays without.
Init ==
    /\ upload = [u \in Uploads |-> New]
    /\ counter = [d \in 1..Days |-> 0]
    /\ expiring = {}
    /\ available \in [Relays -> BOOLEAN]
    /\ today = 1

Over(u, verdict, by) == [upload[u] EXCEPT !.at = "over", !.verdict = verdict, !.by = by]

-----------------------------------------------------------------------------
\* The key's day is read from the clock before the round trip.
Begin(u) ==
    /\ upload[u].at = "new"
    /\ \E p \in Relays, n \in Sizes :
          upload' = [upload EXCEPT ![u] = [New EXCEPT !.relay = p, !.size = n, !.day = today,
                        !.at = IF available[p] THEN "redis" ELSE "heartbeat"]]
    /\ UNCHANGED <<counter, expiring, available, today>>

\* Seeded fault for Passes: what the upload adds is left out.
PassesBefore(count, size) == count - size < Limit

Passes(count, size) == count <= Limit

Verdict(count, size) == IF Passes(count, size) THEN "allowed" ELSE "refused"

\* The counter goes up whatever the verdict is: refused uploads use up quota.
Increment(u) ==
    /\ upload[u].at = "redis"
    /\ LET d == upload[u].day
           count == counter[d] + upload[u].size
       IN  /\ counter' = [counter EXCEPT ![d] = count]
           /\ upload' = [upload EXCEPT ![u] =
                IF d \in expiring THEN Over(u, Verdict(count, upload[u].size), "redis")
                ELSE [@ EXCEPT !.at = "expire", !.verdict = Verdict(count, upload[u].size)]]
    /\ UNCHANGED <<expiring, available, today>>

Expire(u) ==
    /\ upload[u].at = "expire"
    /\ expiring' = expiring \cup {upload[u].day}
    /\ upload' = [upload EXCEPT ![u] = Over(u, upload[u].verdict, "redis")]
    /\ UNCHANGED <<counter, available, today>>

\* Either round trip raises, the first with or without effect.  The upload
\* passes, also one already found over the limit, and this relay asks Redis
\* no more: nothing sets the flag again.
RedisFails(u) ==
    /\ upload[u].at \in {"redis", "expire"}
    /\ available' = [available EXCEPT ![upload[u].relay] = FALSE]
    /\ upload' = [upload EXCEPT ![u] = Over(u, "allowed", "nobody")]
    /\ \E n \in {0, upload[u].size} :
          counter' = IF upload[u].at = "redis"
                     THEN [counter EXCEPT ![upload[u].day] = @ + n] ELSE counter
    /\ UNCHANGED <<expiring, today>>

\* HeartBeat answers for its own count, or does not answer.
AskHeartBeat(u) ==
    /\ upload[u].at = "heartbeat"
    /\ \E v \in {Over(u, "allowed", "heartbeat"), Over(u, "refused", "heartbeat"),
                 Over(u, "allowed", "nobody")} : upload' = [upload EXCEPT ![u] = v]
    /\ UNCHANGED <<counter, expiring, available, today>>

Midnight ==
    /\ today < Days
    /\ today' = today + 1
    /\ UNCHANGED <<upload, counter, expiring, available>>

Next == Midnight
          \/ \E u \in Uploads : Begin(u) \/ Increment(u) \/ Expire(u) \/ RedisFails(u) \/ AskHeartBeat(u)

Spec == Init /\ [][Next]_vars

-----------------------------------------------------------------------------
(***************************************************************************)
(* Properties.                                                             *)
(***************************************************************************)

\* The files of some uploads, each by its place in its upload.
FilesOf(S) == UNION {{u} \X (1..upload[u].size) : u \in S}

\* The uploads of a day that Redis let pass.
Passed(d) == {u \in Uploads : upload[u].day = d /\ upload[u].verdict = "allowed" /\ upload[u].by = "redis"}

\* However the uploads of all processes interleave, those that Redis let
\* pass on a day keep within the limit of that day; only those nobody judged
\* or HeartBeat judged come on top.
QuotaNotOverdrawn ==
    \A d \in 1..Days : Cardinality(FilesOf(Passed(d))) <= Limit
=============================================================================
