----------------------------- MODULE RelayBatch -----------------------------
(***************************************************************************)
(* Batches of transactions: BatchExternalService, which the HTTP route and *)
(* the AMQP consumer call, over an ingest reduced to what a batch can tell *)
(* of it (RelayIngest has its steps): HeartBeat's duplicate check, the row *)
(* of the ledger and its pruning, the blob, its registration.              *)
(*                                                                         *)
(* A message leaves its queue when its handler ends, also by an exception; *)
(* a relay that dies leaves it there to be delivered again.  No prefetch   *)
(* is set, so batches overlap.  A record is [id, content]: id "" is a      *)
(* missing transaction_id, content "" a missing fee, id "junk" no object.  *)
(* The content decides the file that is ingested, and its hash.            *)
(***************************************************************************)
EXTENDS Naturals, Sequences

CONSTANTS
    Batches,       \* messages and requests
    Lists,         \* the records a batch may hold
    Contents,
    Tenants,       \* each with its key of the API
    Queued,        \* the batches that come by AMQP
    MaxCrashes     \* bound on deaths of the relay

VARIABLES
    batch,         \* per batch: [at, tenant, list, next, verdicts, seen]
    ledger,        \* <<tenant, content>> -> state of its ledger row
    registered,    \* contents HeartBeat refuses as duplicates
    stored,        \* <<tenant, content>> -> blobs written
    pruned,        \* <<tenant, content>> -> how often its row has been pruned
    crashes

\* What the proofs assume of the constants: a batch is a list of records,
\* whose contents are known or missing.
Rows == [id : STRING, content : Contents \cup {""}]

LegalConstants ==
    /\ Lists \subseteq Seq(Rows)
    /\ MaxCrashes \in Nat

store == <<ledger, registered, stored, pruned>>
vars  == <<batch, store, crashes>>

Keys == Tenants \X Contents

\* verdicts: [id, as] in the order given; seen: transactions not to repeat.
New == [at |-> "new", tenant |-> "none", list |-> <<>>, next |-> 1, verdicts |-> <<>>, seen |-> {}]

TypeOK ==
    /\ \A b \in Batches :
          /\ batch[b].at \in {"new", "record", "ledger", "store", "register", "settle",
                              "codes", "answered", "raised", "lost"}
          /\ batch[b].tenant \in Tenants \cup {"none"}
          /\ \A i \in 1..Len(batch[b].verdicts) :
                batch[b].verdicts[i].as \in {"processed", "duplicate", "failed"}
    /\ ledger \in [Keys -> {"none", "pending", "error", "processed"}]
    /\ registered \subseteq Contents
    /\ stored \in [Keys -> Nat] /\ pruned \in [Keys -> Nat]
    /\ crashes \in 0..MaxCrashes

Init ==
    /\ batch = [b \in Batches |-> New]
    /\ ledger = [k \in Keys |-> "none"] /\ registered = {}
    /\ stored = [k \in Keys |-> 0] /\ pruned = [k \in Keys |-> 0]
    /\ crashes = 0

Working   == {b \in Batches : batch[b].at \in {"record", "ledger", "store", "register", "settle", "codes"}}
Record(b) == batch[b].list[batch[b].next]
Key(b)    == <<batch[b].tenant, Record(b).content>>

\* The verdict on the record in hand; the loop goes on with the next.
Judge(b, as) ==
    batch' = [batch EXCEPT ![b].at = "record", ![b].next = @ + 1,
                           ![b].verdicts = Append(@, [id |-> Record(b).id, as |-> as])]

JudgeAndNote(b, as) ==
    batch' = [batch EXCEPT ![b].at = "record", ![b].next = @ + 1,
                           ![b].seen = @ \cup {Record(b).id},
                           ![b].verdicts = Append(@, [id |-> Record(b).id, as |-> as])]

Goto(b, step) == batch' = [batch EXCEPT ![b].at = step]

-----------------------------------------------------------------------------
\* A JSON list with a tenant that is known; anything else is answered, or
\* taken off the queue, without a record being looked at.
Arrive(b) ==
    /\ batch[b].at = "new"
    /\ \E l \in Lists, t \in Tenants :
          batch' = [batch EXCEPT ![b] = [New EXCEPT !.at = "record", !.tenant = t, !.list = l]]
    /\ UNCHANGED <<store, crashes>>

Malformed(b) == Record(b).id = "" \/ Record(b).content = ""
Repeated(b)  == Record(b).id \in batch[b].seen

\* Validation, the check within the batch, and the first steps of ingest up
\* to HeartBeat's duplicate check.
TakeRecord(b) ==
    /\ batch[b].at = "record" /\ batch[b].next <= Len(batch[b].list)
    /\ Record(b).id # "junk"
    /\ IF Malformed(b) THEN Judge(b, "failed")
       ELSE IF Repeated(b) THEN Judge(b, "duplicate")
       ELSE IF Record(b).content \in registered THEN JudgeAndNote(b, "duplicate")
       ELSE Goto(b, "ledger")
    /\ UNCHANGED <<store, crashes>>

\* What is no object has no .get: the exception leaves process_batch, and
\* what was ingested before it stays without an answer.
TakeJunk(b) ==
    /\ batch[b].at = "record" /\ batch[b].next <= Len(batch[b].list)
    /\ Record(b).id = "junk"
    /\ Goto(b, "raised")
    /\ UNCHANGED <<store, crashes>>

\* The limit is reached, or something ingest needs is out of order.
IngestRefuses(b) ==
    /\ batch[b].at = "ledger"
    /\ Judge(b, "failed")
    /\ UNCHANGED <<store, crashes>>

\* Rows of finished ingests that are old, or beyond the size of the table;
\* no other row is pruned.
Finished == {k \in Keys : ledger[k] = "processed"}

\* The ledger with these rows, less those that are pruned.
Prune(gone, rows) ==
    /\ ledger' = [k \in Keys |-> IF k \in gone THEN "none" ELSE rows[k]]
    /\ pruned' = [k \in Keys |-> IF k \in gone THEN pruned[k] + 1 ELSE pruned[k]]

\* Seeded fault for Claimable: rows nobody finished are taken up again.
ClaimableAgain(k) == ledger[k] \in {"none", "pending", "error"}

Claimable(k) == ledger[k] = "none"

\* record_received: a new row, upon which others may be pruned; the result
\* of a processed one; a row that is pending or in error, though nothing may
\* have come of it, is a duplicate.
Claim(b) ==
    /\ batch[b].at = "ledger"
    /\ IF Claimable(Key(b))
       THEN /\ \E gone \in SUBSET Finished : Prune(gone, [ledger EXCEPT ![Key(b)] = "pending"])
            /\ Goto(b, "store")
       ELSE /\ IF ledger[Key(b)] = "processed" THEN Goto(b, "codes") ELSE JudgeAndNote(b, "duplicate")
            /\ UNCHANGED <<ledger, pruned>>
    /\ UNCHANGED <<registered, stored, crashes>>

StoreBlob(b) ==
    /\ batch[b].at = "store"
    /\ stored' = [stored EXCEPT ![Key(b)] = @ + 1]
    /\ Goto(b, "register")
    /\ UNCHANGED <<ledger, registered, pruned, crashes>>

\* mark_error may fail too, and is only logged then.
StoreFails(b) ==
    /\ batch[b].at = "store"
    /\ \E mark \in {"error", "pending"} : ledger' = [ledger EXCEPT ![Key(b)] = mark]
    /\ Judge(b, "failed")
    /\ UNCHANGED <<registered, stored, pruned, crashes>>

\* Core is told, and HeartBeat, which may not take it.
Register(b) ==
    /\ batch[b].at = "register"
    /\ registered' \in {registered, registered \cup {Record(b).content}}
    /\ Goto(b, "settle")
    /\ UNCHANGED <<ledger, stored, pruned, crashes>>

Settle(b) ==
    /\ batch[b].at = "settle"
    /\ ledger' = [ledger EXCEPT ![Key(b)] = "processed"]
    /\ Goto(b, "codes")
    /\ UNCHANGED <<registered, stored, pruned, crashes>>

\* mark_processed raises out of the ingest: the record has failed, with its
\* blob stored and its row pending.
SettleFails(b) ==
    /\ batch[b].at = "settle"
    /\ Judge(b, "failed")
    /\ UNCHANGED <<store, crashes>>

\* Seeded fault for Processed: the transaction is not noted.
ProcessedUnnoted(b) == Judge(b, "processed")

Processed(b) == JudgeAndNote(b, "processed")

\* IRN and QR code, both made here and now.
MakeCodes(b) ==
    /\ batch[b].at = "codes"
    /\ Processed(b)
    /\ UNCHANGED <<store, crashes>>

CodesFail(b) ==
    /\ batch[b].at = "codes"
    /\ Judge(b, "failed")
    /\ UNCHANGED <<store, crashes>>

\* The answer of the route, or the reply and the acknowledgement; a reply
\* that cannot be published is not sent again.
Reply(b) ==
    /\ batch[b].at = "record" /\ batch[b].next > Len(batch[b].list)
    /\ Goto(b, "answered")
    /\ UNCHANGED <<store, crashes>>

\* The relay dies and is started again, which prunes: requests are lost,
\* messages come again from the first record on.
Crash ==
    /\ crashes < MaxCrashes /\ Working # {}
    /\ crashes' = crashes + 1
    /\ batch' = [b \in Batches |->
          IF b \notin Working THEN batch[b]
          ELSE IF b \in Queued THEN [batch[b] EXCEPT !.at = "record", !.next = 1, !.verdicts = <<>>, !.seen = {}]
          ELSE [batch[b] EXCEPT !.at = "lost"]]
    /\ \E gone \in SUBSET Finished : Prune(gone, ledger)
    /\ UNCHANGED <<registered, stored>>

Step(b) ==
    \/ Arrive(b) \/ TakeRecord(b) \/ TakeJunk(b) \/ IngestRefuses(b) \/ Claim(b)
    \/ StoreBlob(b) \/ StoreFails(b) \/ Register(b) \/ Settle(b) \/ SettleFails(b)
    \/ MakeCodes(b) \/ CodesFail(b) \/ Reply(b)

Next == Crash \/ \E b \in Batches : Step(b)

Spec == Init /\ [][Next]_vars

-----------------------------------------------------------------------------
(***************************************************************************)
(* Properties.                                                             *)
(***************************************************************************)

\* A transaction of a tenant is stored again only for a row of it that was
\* finished and pruned: over overlapping batches, messages delivered again
\* after a crash, and transactions repeated after a failure.
TransactionStoredOnce == \A k \in Keys : stored[k] <= pruned[k] + 1

\* An answer has a verdict on every record in its order; a transaction is
\* processed at most once in it, and its content is stored.
AnswerCoversBatch ==
    \A b \in Batches : batch[b].at = "answered" =>
        LET list == batch[b].list  verdict == batch[b].verdicts
        IN  /\ Len(verdict) = Len(list)
            /\ \A i \in 1..Len(list) : verdict[i].as = "processed" =>
                  /\ stored[<<batch[b].tenant, list[i].content>>] > 0
                  /\ \A j \in 1..Len(list) :
                        (list[j].id = list[i].id /\ verdict[j].as = "processed") => j = i
=============================================================================
