--------------------------- MODULE HeartBeatCalls ---------------------------
(***************************************************************************)
(* HeartBeatClient of the relay: which replies of HeartBeat each operation *)
(* takes for what, and what its caller learns after the retries.           *)
(*                                                                         *)
(* A reply is "ok", "garbled" (2xx whose body is not JSON), "absent" (404),*)
(* "rejected" (401), "refused" (another 4xx), "broken" (5xx), "silent"     *)
(* (no answer), "unreachable" (no connection) or "unkeyed" (the relay has  *)
(* no signing key, nothing is sent).  HeartBeat is external: it counts how *)
(* often it carried an operation out.                                      *)
(***************************************************************************)
EXTENDS Retry

CONSTANTS
    Operations,    \* the operations called
    MaxAttempts

VARIABLES
    calling,       \* the operation under way, or NoOp
    attempt,       \* attempts made
    told,          \* what its caller learned: "none" until it ends
    carriedOut,    \* how often HeartBeat carried it out
    unclear        \* an attempt ended without a reply that says whether

\* What the proofs assume of the constants.
LegalConstants == MaxAttempts \in Nat \ {0}

vars == <<calling, attempt, told, carriedOut, unclear>>

NoOp == "no_op"

Replies == {"ok", "garbled", "absent", "rejected", "refused", "broken", "silent", "unreachable"}

\* Signed with the service's HMAC key; audit_log goes unsigned without one.
Signed == {"fetch_blob", "check_duplicate", "check_daily_limit", "fetch_config",
           "get_transforma_config"}

\* One attempt, nothing raised: a caller of these does not see a failure.
FireAndForget == {"audit_log", "report_metrics"}
Probe         == {"health_check"}

\* fetch_blob takes the body as it is; the others parse it as JSON.
Parsed == (Signed \ {"fetch_blob"}) \cup {"write_blob", "register_blob"}

Possible(op) == Replies \cup (IF op \in Signed THEN {"unkeyed"} ELSE {})

WellFormed(op, reply) == reply = "ok" \/ (reply = "garbled" /\ op \notin Parsed)

\* _raise_for_status and the except clauses of the operations.
Outcome(op, reply) ==
    IF WellFormed(op, reply) \/ (reply = "absent" /\ op = "fetch_blob") THEN "ok"
    ELSE IF reply \in {"garbled", "unkeyed"} THEN "unknown"
    ELSE IF reply = "broken" THEN "transient"
    ELSE IF reply = "silent" THEN "silent"
    ELSE "permanent"

\* What the caller gets when the loop has ended.
Result(op, reply, verdict) ==
    IF op \in FireAndForget THEN "nothing"
    ELSE IF op \in Probe THEN (IF WellFormed(op, reply) THEN "up" ELSE "down")
    ELSE IF op = "fetch_blob" /\ reply = "absent" THEN "absent"
    ELSE IF verdict = "return" THEN "done"
    ELSE IF op = "register_blob" THEN "registration_failed"
    ELSE "error"

Results == {"none", "nothing", "up", "down", "absent", "done", "registration_failed", "error"}

TypeOK ==
    /\ calling \in Operations \cup {NoOp}
    /\ attempt \in 0..MaxAttempts
    /\ told \in Results
    /\ carriedOut \in 0..MaxAttempts
    /\ unclear \in BOOLEAN

Init ==
    /\ calling = NoOp /\ attempt = 0 /\ told = "none"
    /\ carriedOut = 0 /\ unclear = FALSE

Begin ==
    /\ calling = NoOp
    /\ calling' \in Operations
    /\ UNCHANGED <<attempt, told, carriedOut, unclear>>

\* A 2xx was carried out, an unreachable or refused one was not.
Did(reply) == CASE reply \in {"ok", "garbled"}    -> {1}
                [] reply \in {"broken", "silent"} -> {0, 1}
                [] OTHER                          -> {0}

MaxTries(op) == IF op \in FireAndForget \cup Probe THEN 1 ELSE MaxAttempts

Attempt ==
    /\ calling # NoOp /\ told = "none"
    /\ \E reply \in Possible(calling) :
         LET try     == attempt + 1
             outcome == Outcome(calling, reply)
             verdict == After(outcome, try, MaxTries(calling))
         IN  /\ attempt' = try
             /\ \E n \in Did(reply) : carriedOut' = carriedOut + n
             /\ unclear' = (unclear \/ outcome \in Repeated)
             /\ told' = IF verdict = "again" THEN "none" ELSE Result(calling, reply, verdict)
    /\ UNCHANGED calling

\* The caller goes on; the next call is a new one.
Done ==
    /\ told # "none"
    /\ calling' = NoOp /\ attempt' = 0 /\ told' = "none"
    /\ carriedOut' = 0 /\ unclear' = FALSE

Next == Begin \/ Attempt \/ Done

Spec == Init /\ [][Next]_vars

-----------------------------------------------------------------------------
(***************************************************************************)
(* Properties.                                                             *)
(***************************************************************************)

\* Retries never blur a clear picture: HeartBeat carries an operation out
\* twice, or carries it out while the caller is told it failed, only after
\* an attempt whose outcome the relay could not see.
OnlySilenceIsAmbiguous ==
    (carriedOut > 1 \/ (carriedOut > 0 /\ told \in {"error", "registration_failed"})) => unclear
=============================================================================
