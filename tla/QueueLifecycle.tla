--------------------------- MODULE QueueLifecycle ---------------------------
(***************************************************************************)
(* What the ingestion queue promises the service that enqueued a blob,     *)
(* with no scanner, no clock and no crash in sight: the state machine the  *)
(* schema documents for core_queue.status (core.sql), each entry worked on *)
(* a bounded number of times, its outcome final and announced at most once *)
(* and only when it succeeded.                                             *)
(***************************************************************************)
EXTENDS Naturals

CONSTANTS Entries, MaxRuns

VARIABLES status, attempts, announced

vars == <<status, attempts, announced>>

Init ==
    /\ status = [e \in Entries |-> "none"]
    /\ attempts = [e \in Entries |-> 0]
    /\ announced = [e \in Entries |-> 0]

Submit(e) ==
    /\ status[e] = "none"
    /\ status' = [status EXCEPT ![e] = "PENDING"]
    /\ UNCHANGED <<attempts, announced>>

Start(e) ==
    /\ status[e] = "PENDING"
    /\ attempts[e] < MaxRuns
    /\ status' = [status EXCEPT ![e] = "PROCESSING"]
    /\ attempts' = [attempts EXCEPT ![e] = @ + 1]
    /\ UNCHANGED announced

Succeed(e) ==
    /\ status[e] = "PROCESSING"
    /\ status' = [status EXCEPT ![e] = "PROCESSED"]
    /\ UNCHANGED <<attempts, announced>>

Announce(e) ==
    /\ status[e] = "PROCESSED"
    /\ announced[e] = 0
    /\ announced' = [announced EXCEPT ![e] = 1]
    /\ UNCHANGED <<status, attempts>>

\* The attempt failed, or could not even take the entry.
GiveUp(e) ==
    /\ status[e] \in {"PENDING", "PROCESSING"}
    /\ status' = [status EXCEPT ![e] = "FAILED"]
    /\ UNCHANGED <<attempts, announced>>

\* One recovery puts the stuck entries of R back in the queue and gives up
\* on those of E.
Recover(R, E) ==
    /\ \A e \in R \cup E : status[e] = "PROCESSING"
    /\ \A e \in R : attempts[e] < MaxRuns
    /\ status' = [e \in Entries |-> IF e \in R THEN "PENDING"
                                    ELSE IF e \in E THEN "FAILED" ELSE status[e]]
    /\ UNCHANGED <<attempts, announced>>

Next ==
    \/ \E e \in Entries : Submit(e) \/ Start(e) \/ Succeed(e) \/ Announce(e) \/ GiveUp(e)
    \/ \E R, E \in SUBSET Entries : Recover(R, E)

Spec == Init /\ [][Next]_vars

=============================================================================
