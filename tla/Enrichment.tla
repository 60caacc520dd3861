----------------------------- MODULE Enrichment -----------------------------
(***************************************************************************)
(* Enricher: the invoices of a file are completed with what HIS knows, a   *)
(* few at a time, each service behind a CircuitBreaker of its own.         *)
(*                                                                         *)
(* The breakers are those of HISStubClient, which never fails; a client of *)
(* HISClientProtocol that does fail records it (external).  An item is     *)
(* [hs, text, type], an invoice [items, seller, buyer]: the code and type  *)
(* given ("" for none) and whether there is a description, an address.     *)
(***************************************************************************)
EXTENDS Naturals, Sequences, FiniteSets

CONSTANTS
    Files,             \* sequences of invoices
    Slots,             \* his_concurrent_invoices
    FailureThreshold, SuccessThreshold, RecoveryTime,
    MaxTime            \* bound on time

VARIABLES
    invoices,
    out,               \* per invoice: [items, checked], as enriched so far
    step,              \* per invoice: the service it needs next, or where it is
    flying,            \* the invoices whose call is under way
    flagged,           \* the invoices with a red flag of enrichment
    breaker,           \* per service: [state, failures, successes, failedAt]
    time

\* What the proofs assume: the parser fills every field of a file.
LegalConstants ==
    /\ \A f \in Files :
          f \in Seq([items : Seq([hs : STRING, text : BOOLEAN, type : STRING]), seller : BOOLEAN, buyer : BOOLEAN])
    /\ SuccessThreshold \in Nat /\ MaxTime \in Nat

vars == <<invoices, out, step, flying, flagged, breaker, time>>

Services == {"hsn", "category", "service", "address"}
Index    == 1..Len(invoices)

TypeOK ==
    /\ \A i \in Index :
          /\ step[i] \in {"queued", "next", "hsn", "category", "service", "seller", "buyer", "done", "failed"}
          /\ Len(out[i].items) <= Len(invoices[i].items)
          /\ out[i].checked \subseteq {"seller", "buyer"}
    /\ flying \subseteq Index /\ flagged \subseteq Index
    /\ \A s \in Services : breaker[s].state \in {"CLOSED", "OPEN", "HALF_OPEN"}
    /\ time \in 0..MaxTime

Init ==
    /\ invoices \in Files
    /\ out = [i \in Index |-> [items |-> <<>>, checked |-> {}]]
    /\ step = [i \in Index |-> "queued"]
    /\ flying = {} /\ flagged = {}
    /\ breaker = [s \in Services |-> [state |-> "CLOSED", failures |-> 0, successes |-> 0, failedAt |-> 0]]
    /\ time = 0

-----------------------------------------------------------------------------
(* CircuitBreaker.                                                         *)

\* The state as it is when somebody looks: looking lets an open one recover.
Seen(b) ==
    IF b.state = "OPEN" /\ time - b.failedAt >= RecoveryTime
    THEN [b EXCEPT !.state = "HALF_OPEN", !.successes = 0] ELSE b

Succeeded(b) ==
    CASE b.state = "HALF_OPEN" /\ b.successes + 1 >= SuccessThreshold ->
            [b EXCEPT !.state = "CLOSED", !.failures = 0, !.successes = 0]
      [] b.state = "HALF_OPEN" /\ b.successes + 1 < SuccessThreshold ->
            [b EXCEPT !.successes = @ + 1]
      [] b.state = "CLOSED" -> [b EXCEPT !.failures = 0]
      [] b.state = "OPEN"   -> b

\* The count of failures is not bounded in the code.
Failed(b) ==
    LET n == IF b.failures < FailureThreshold THEN b.failures + 1 ELSE b.failures
        c == [b EXCEPT !.failures = n, !.failedAt = time]
    IN  IF b.state = "HALF_OPEN" THEN [c EXCEPT !.state = "OPEN", !.successes = 0]
        ELSE IF b.state = "CLOSED" /\ n >= FailureThreshold THEN [c EXCEPT !.state = "OPEN"]
        ELSE c

-----------------------------------------------------------------------------
(* The calls an invoice needs, one after the other.                        *)

ServiceOf(s) == IF s \in {"seller", "buyer"} THEN "address" ELSE s
Working      == {i \in Index : step[i] \notin {"queued", "done", "failed"}}

Given(item) == [hs |-> item.hs, source |-> IF item.hs = "" THEN "NONE" ELSE "ORIGINAL",
                type |-> item.type, category |-> FALSE, code |-> FALSE]

\* The semaphore lets the invoices in by their order.
Start(i) ==
    /\ step[i] = "queued" /\ \A j \in 1..(i - 1) : step[j] # "queued"
    /\ Cardinality(Working) < Slots
    /\ step' = [step EXCEPT ![i] = "next"]
    /\ UNCHANGED <<invoices, out, flying, flagged, breaker, time>>

\* Seeded fault for Classified: a code is asked for whatever is given.
ClassifiedAlways(item) == IF ~item.text THEN "next" ELSE "hsn"

\* An item without description is taken as it is, a code is not asked for
\* where one is given.
Classified(item) == IF ~item.text THEN "next" ELSE IF item.hs = "" THEN "hsn" ELSE "category"

\* Where an invoice goes from its items, and from its seller's address.
Addressed(inv)  == IF inv.seller THEN "seller" ELSE IF inv.buyer THEN "buyer" ELSE "done"
FromSeller(inv) == IF inv.buyer THEN "buyer" ELSE "done"

NextItem(i) ==
    LET n == Len(out[i].items) + 1
    IN  /\ step[i] = "next"
        /\ IF n <= Len(invoices[i].items)
           THEN /\ out' = [out EXCEPT ![i].items = Append(@, Given(invoices[i].items[n]))]
                /\ step' = [step EXCEPT ![i] = Classified(invoices[i].items[n])]
           ELSE UNCHANGED out /\ step' = [step EXCEPT ![i] = Addressed(invoices[i])]
        /\ UNCHANGED <<invoices, flying, flagged, breaker, time>>

\* The answers a service may give, and what each makes of the last item or
\* of the addresses.
Answers(s) ==
    CASE s = "hsn"      -> {"a code", "no code"}
      [] s = "category" -> {"", "GOODS", "SERVICE"}
      [] s = "service"  -> {"a code"}
      [] OTHER          -> {"an address"}

Told(item, s, a) ==
    CASE s = "hsn" /\ a = "a code"  -> [item EXCEPT !.hs = "his", !.source = "HIS"]
      [] s = "hsn" /\ a = "no code" -> item
      [] s = "category"             -> [item EXCEPT !.category = TRUE, !.type = IF a = "" THEN @ ELSE a]
      [] s = "service"              -> [item EXCEPT !.code = TRUE]

Learned(o, s, a) ==
    IF s \in {"seller", "buyer"} THEN [o EXCEPT !.checked = @ \cup {s}]
    ELSE [o EXCEPT !.items[Len(o.items)] = Told(@, s, a)]

Following(i, o) ==
    CASE step[i] = "hsn"      -> "category"
      [] step[i] = "category" -> IF o.items[Len(o.items)].type = "SERVICE" THEN "service" ELSE "next"
      [] step[i] = "service"  -> "next"
      [] step[i] = "seller"   -> FromSeller(invoices[i])
      [] step[i] = "buyer"    -> "done"

Proceed(i, o) ==
    /\ out' = [out EXCEPT ![i] = o]
    /\ step' = [step EXCEPT ![i] = Following(i, o)]

\* The breaker is asked before the call; an open one is an error at once.
Ask(i) ==
    LET s == ServiceOf(step[i])
    IN  /\ step[i] \in Services \cup {"seller", "buyer"} /\ i \notin flying
        /\ breaker' = [breaker EXCEPT ![s] = Seen(@)]
        /\ IF breaker'[s].state = "OPEN"
           THEN Proceed(i, out[i]) /\ UNCHANGED flying
           ELSE flying' = flying \cup {i} /\ UNCHANGED <<out, step>>
        /\ UNCHANGED <<invoices, flagged, time>>

Reply(i) ==
    /\ i \in flying /\ flying' = flying \ {i}
    /\ \E a \in Answers(step[i]) : Proceed(i, Learned(out[i], step[i], a))
    /\ breaker' = [breaker EXCEPT ![ServiceOf(step[i])] = Succeeded(@)]
    /\ UNCHANGED <<invoices, flagged, time>>

\* An answer that says error leaves the invoice as it is.
ReplyError(i) ==
    /\ i \in flying /\ flying' = flying \ {i}
    /\ Proceed(i, out[i])
    /\ breaker' = [breaker EXCEPT ![ServiceOf(step[i])] = Failed(@)]
    /\ UNCHANGED <<invoices, flagged, time>>

\* A call that raises ends the invoice: it is passed on without any items.
ReplyRaises(i) ==
    /\ i \in flying /\ flying' = flying \ {i}
    /\ step' = [step EXCEPT ![i] = "failed"]
    /\ out' = [out EXCEPT ![i] = [items |-> <<>>, checked |-> {}]]
    /\ flagged' = flagged \cup {i}
    /\ breaker' = [breaker EXCEPT ![ServiceOf(step[i])] = Failed(@)]
    /\ UNCHANGED <<invoices, time>>

Tick ==
    /\ time < MaxTime
    /\ time' = time + 1
    /\ UNCHANGED <<invoices, out, step, flying, flagged, breaker>>

Next ==
    \/ Tick
    \/ \E i \in Index : Start(i) \/ NextItem(i) \/ Ask(i) \/ Reply(i) \/ ReplyError(i) \/ ReplyRaises(i)

Spec == Init /\ [][Next]_vars

-----------------------------------------------------------------------------
(***************************************************************************)
(* Properties.                                                             *)
(***************************************************************************)

\* Whatever the services answer, and in whatever order: an invoice that is
\* not flagged comes out with all its items in their order, a code or type
\* that was given is lost to an answer only, and never a code; an invoice
\* that lost its items says so.
EnrichedInPlace ==
    /\ \A i \in Index :
          /\ step[i] = "done" => Len(out[i].items) = Len(invoices[i].items)
          /\ step[i] = "failed" <=> i \in flagged
          /\ \A n \in 1..Len(out[i].items) :
                LET was == invoices[i].items[n]  is == out[i].items[n]
                IN  /\ was.hs # "" => is.hs = was.hs /\ is.source = "ORIGINAL"
                    /\ is.type # was.type => is.category
                    /\ is.code => is.type = "SERVICE"
=============================================================================
