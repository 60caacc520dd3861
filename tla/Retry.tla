------------------------------- MODULE Retry --------------------------------
(***************************************************************************)
(* BaseClient.call_with_retries of the relay: what becomes of one attempt  *)
(* to reach another service.  Delays between attempts only let time pass.  *)
(*                                                                         *)
(* An outcome is what the attempt looked like to the relay: "ok",          *)
(* "silent" (no answer in time, or a read that broke off), "transient" (a  *)
(* TransientError, which only a 5xx becomes), "unknown" (any exception     *)
(* that is no RelayError), or "permanent" (any other RelayError, a refused *)
(* connection included).                                                   *)
(***************************************************************************)
EXTENDS Naturals

Outcomes  == {"ok", "silent", "transient", "unknown", "permanent"}
Repeated  == {"silent", "transient", "unknown"}

\* Seeded fault for After: an answer that came is asked for once more.
AfterAsksAgain(outcome, attempt, max) ==
    IF outcome # "permanent" /\ attempt < max THEN "again"
    ELSE IF outcome = "ok" THEN "return" ELSE "raise"

After(outcome, attempt, max) ==
    IF outcome = "ok" THEN "return"
    ELSE IF outcome \in Repeated /\ attempt < max THEN "again"
    ELSE "raise"

\* Whether the other side may have carried the request out, and whether it
\* must have: a reply that arrived intact says so, silence does not.
MayHaveDone(outcome)  == outcome # "permanent"
MustHaveDone(outcome) == outcome = "ok"
=============================================================================
