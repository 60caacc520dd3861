--------------------------- MODULE RelayFinalize ----------------------------
(***************************************************************************)
(* POST /api/finalize of the relay: finalize a document by reference and   *)
(* without bytes.  The route reads the body, FinalizeService looks its key *)
(* up among the records of the process, triggers Core and records the key. *)
(*                                                                         *)
(* The lookup and the trigger's first attempt follow each other without an *)
(* await; the record is made when the trigger has returned or raised.      *)
(* Records live in the process: a restart forgets them.  Core's side is    *)
(* external: how often it carried a trigger out is counted in triggered.   *)
(***************************************************************************)
EXTENDS Retry, FiniteSets

CONSTANTS
    Calls,          \* requests
    Bodies,         \* what a body may name: [ref, trace], "" being none
    TriggerReplies, \* the outcomes of one attempt to trigger Core
    MaxAttempts,    \* attempts of BaseClient
    MaxRestarts     \* bound on restarts of the relay

VARIABLES
    finalizing,  \* per call: [at, body, tries, answer, event, earlier]
    anchors,     \* FinalizeService._records: key -> the call it answered
    triggered,   \* calls whose trigger Core carried out at least once
    restarts

\* References, trace ids, and the absence of one.
Tokens == {b.ref : b \in Bodies} \cup {b.trace : b \in Bodies} \cup {""}

\* What the proofs assume of the constants: calls are not mistaken for the
\* absence of one, and there is an attempt to make.
LegalConstants ==
    /\ "none" \notin Calls
    /\ MaxAttempts \in Nat \ {0} /\ MaxRestarts \in Nat
    /\ Bodies \subseteq [ref : Tokens, trace : Tokens]
    /\ TriggerReplies \subseteq Outcomes

vars == <<finalizing, anchors, triggered, restarts>>

New == [at |-> "new", body |-> [ref |-> "", trace |-> ""], tries |-> 0,
        answer |-> "none", event |-> "none", earlier |-> {}]

\* _finalize_key; ref and trace_id share one space of tokens.
Key(body) == IF body.trace # "" THEN body.trace ELSE body.ref

Empty(body) == body.ref = "" /\ body.trace = ""
InFlight    == {c \in Calls : finalizing[c].at = "core"}
Accepted    == {c \in Calls : finalizing[c].answer = "accepted"}

TypeOK ==
    /\ \A c \in Calls :
          /\ finalizing[c].at \in {"new", "core", "over"}
          /\ finalizing[c].tries \in 0..MaxAttempts
          /\ finalizing[c].answer \in {"none", "missing", "conflict", "accepted", "lost"}
          /\ finalizing[c].event \in Calls \cup {"none"}
    /\ \A k \in DOMAIN anchors : anchors[k] \in Calls
    /\ triggered \subseteq Calls
    /\ restarts \in 0..MaxRestarts

Init ==
    /\ finalizing = [c \in Calls |-> New]
    /\ anchors = [k \in {} |-> "none"]
    /\ triggered = {}
    /\ restarts = 0

-----------------------------------------------------------------------------
\* Authentication and the version gate have let the call pass and its body
\* is a JSON object; finalize starts with the lookup.  "earlier" notes the
\* calls that were answered before, for the properties.
Lookup(c) ==
    /\ finalizing[c].at = "new"
    /\ \E b \in Bodies :
         LET seen == [finalizing[c] EXCEPT !.body = b, !.earlier = Accepted]
         IN  finalizing' = [finalizing EXCEPT ![c] =
               IF Empty(b) THEN [seen EXCEPT !.at = "over", !.answer = "missing"]
               ELSE IF Key(b) \in DOMAIN anchors
               THEN [seen EXCEPT !.at = "over", !.answer = "conflict", !.event = anchors[Key(b)]]
               ELSE [seen EXCEPT !.at = "core"]]
    /\ UNCHANGED <<anchors, triggered, restarts>>

Recorded(c) == [k \in DOMAIN anchors \cup {Key(finalizing[c].body)} |->
                   IF k = Key(finalizing[c].body) THEN c ELSE anchors[k]]

\* Seeded fault for Anchors: only a trigger Core acknowledged is recorded.
AnchorsOnSuccess(c, verdict) == IF verdict = "return" THEN Recorded(c) ELSE anchors

\* The record is made whether Core answered or not.
Anchors(c, verdict) == IF verdict = "again" THEN anchors ELSE Recorded(c)

\* One attempt of finalize_by_reference.  An exception of the last one is
\* swallowed: the client is told "accepted" and Core is left to reconcile.
Trigger(c) ==
    /\ finalizing[c].at = "core"
    /\ \E reply \in TriggerReplies :
         LET try     == finalizing[c].tries + 1
             verdict == After(reply, try, MaxAttempts)
         IN  /\ finalizing' = [finalizing EXCEPT ![c] =
                  IF verdict = "again" THEN [@ EXCEPT !.tries = try]
                  ELSE [@ EXCEPT !.tries = try, !.at = "over", !.answer = "accepted", !.event = c]]
             /\ \E done \in {MustHaveDone(reply), MayHaveDone(reply)} :
                  triggered' = IF done THEN triggered \cup {c} ELSE triggered
             /\ anchors' = Anchors(c, verdict)
    /\ UNCHANGED restarts

\* The process is replaced: open calls get no answer, the records are gone.
Restart ==
    /\ restarts < MaxRestarts
    /\ restarts' = restarts + 1
    /\ finalizing' = [c \in Calls |-> IF c \in InFlight
          THEN [finalizing[c] EXCEPT !.at = "over", !.answer = "lost"] ELSE finalizing[c]]
    /\ anchors' = [k \in {} |-> "none"]
    /\ UNCHANGED triggered

Next == Restart \/ \E c \in Calls : Lookup(c) \/ Trigger(c)

Spec == Init /\ [][Next]_vars

-----------------------------------------------------------------------------
(***************************************************************************)
(* Properties.                                                             *)
(***************************************************************************)

\* "a retry that flips call type still dedups": as long as the process
\* lives, a call that arrives after another one of the same trace_id (or,
\* without one, the same reference) was answered never reaches Core, whether
\* Core had answered that other one or not.
DuplicatesStopHere ==
    restarts = 0 => \A c \in Calls : \A d \in finalizing[c].earlier :
        LET one == finalizing[c].body  two == finalizing[d].body
        IN  (one.trace # "" /\ one.trace = two.trace)
               \/ (one.trace = "" /\ two.trace = "" /\ one.ref = two.ref)
            => finalizing[c].tries = 0

\* A 409 carries the event id of a call for the same key that was answered
\* "accepted", never that of a call that is still under way.
ConflictNamesAnAnswer ==
    \A c \in Calls : finalizing[c].answer = "conflict" =>
        LET d == finalizing[c].event
        IN  d \in finalizing[c].earlier /\ Key(finalizing[d].body) = Key(finalizing[c].body)
=============================================================================
