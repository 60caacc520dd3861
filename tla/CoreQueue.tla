----------------------------- MODULE CoreQueue -----------------------------
(***************************************************************************)
(* The ingestion queue of the Core service: the rows of core_queue, the    *)
(* POST /enqueue handler that inserts them and the QueueScanner loop of    *)
(* each Core process that claims, processes and recovers them.             *)
(*                                                                         *)
(* A row is named by its blob_uuid, which is UNIQUE in the schema.  Every  *)
(* SQL statement (one transaction each, committed when get_connection's    *)
(* context exits) is one atomic step; everything between two statements,   *)
(* awaits included, is a point where the other processes run.              *)
(***************************************************************************)
EXTENDS Naturals, FiniteSets

CONSTANTS
    Entries,        \* the blob_uuids callers may enqueue
    NoEntry,        \* "no row in hand"
    Callers,        \* concurrent POST /enqueue requests
    Scanners,       \* Core processes, one QueueScanner each
    Priority,       \* the priority column of each entry
    MaxAttempts,    \* the max_attempts column (3 in the schema)
    BatchSize,      \* config.batch_size, the LIMIT of the scan
    MaxCrashes,     \* bound: how often a Core process dies or is stopped
    IntervalBinds   \* does the driver bind a parameter inside a quoted
                    \* literal, as INTERVAL '%s seconds' needs?

ASSUME ConstantsOK ==
    /\ IsFiniteSet(Entries) /\ IsFiniteSet(Scanners)
    /\ NoEntry \notin Entries
    /\ Priority \in [Entries -> Nat]
    /\ MaxAttempts \in Nat
    /\ BatchSize \in Nat \ {0}
    /\ MaxCrashes \in Nat
    /\ IntervalBinds \in BOOLEAN

VARIABLES
    status,     \* status column, "none" while the row does not exist
    retries,    \* retry_count column
    stale,      \* processing_started_at is older than the threshold
    created,    \* rank of created_at, 0 while the row does not exist
    call,       \* how far each enqueue request is
    asked,      \* the blob it asks for
    pc,         \* where each scanner is
    todo,       \* the rows of its batch it has not begun
    cur,        \* the row process_entry has in hand
    runs,       \* how often process_entry has gone to work on the entry
    published,  \* queue.entry_processed events published for the entry
    crashes     \* crashes so far

rowVars  == <<status, retries, stale, created>>
callVars == <<call, asked>>
scanVars == <<pc, todo, cur>>
histVars == <<runs, published>>
vars     == <<status, retries, stale, created, callVars, asked, pc, todo, cur,
              runs, published, crashes>>

Terminal == {"PROCESSED", "FAILED"}
Status   == {"none", "PENDING", "PROCESSING"} \cup Terminal

CallPC == {"new", "checked", "created", "duplicate", "conflict"}

\* "failing": in the except branch of process_entry, FAILED not yet written.
ScanPC == {"idle", "fetched", "batch", "working", "publish", "failing",
           "recover", "down"}

TypeOK ==
    /\ status \in [Entries -> Status]
    /\ retries \in [Entries -> Nat]
    /\ stale \in [Entries -> BOOLEAN]
    /\ created \in [Entries -> Nat]
    /\ call \in [Callers -> CallPC]
    /\ asked \in [Callers -> Entries \cup {NoEntry}]
    /\ pc \in [Scanners -> ScanPC]
    /\ todo \in [Scanners -> SUBSET Entries]
    /\ cur \in [Scanners -> Entries \cup {NoEntry}]
    /\ runs \in [Entries -> Nat]
    /\ published \in [Entries -> Nat]
    /\ crashes \in 0..MaxCrashes

Init ==
    /\ status = [e \in Entries |-> "none"]
    /\ retries = [e \in Entries |-> 0]
    /\ stale = [e \in Entries |-> FALSE]
    /\ created = [e \in Entries |-> 0]
    /\ call = [c \in Callers |-> "new"]
    /\ asked = [c \in Callers |-> NoEntry]
    /\ pc = [s \in Scanners |-> "idle"]
    /\ todo = [s \in Scanners |-> {}]
    /\ cur = [s \in Scanners |-> NoEntry]
    /\ runs = [e \in Entries |-> 0]
    /\ published = [e \in Entries |-> 0]
    /\ crashes = 0

-----------------------------------------------------------------------------
(***************************************************************************)
(* POST /enqueue.  The duplicate check and the INSERT use two connections. *)
(***************************************************************************)

Rows == {e \in Entries : status[e] # "none"}

EnqueueCheck(c) ==
    /\ call[c] = "new"
    /\ \E e \in Entries :
         /\ asked' = [asked EXCEPT ![c] = e]
         /\ call' = [call EXCEPT ![c] = IF e \in Rows THEN "duplicate" ELSE "checked"]
    /\ UNCHANGED <<rowVars, scanVars, histVars, crashes>>

\* UNIQUE (blob_uuid) turns the loser of a race into an unhandled error.
EnqueueConflict(c) ==
    /\ call[c] = "checked"
    /\ asked[c] \in Rows
    /\ call' = [call EXCEPT ![c] = "conflict"]
    /\ UNCHANGED <<rowVars, asked, scanVars, histVars, crashes>>

\* Seeded fault: an upsert, so that a late INSERT does not fail.
EnqueueUpsert(c) ==
    LET e == asked[c] IN
    /\ call[c] = "checked"
    /\ status' = [status EXCEPT ![e] = "PENDING"]
    /\ created' = [created EXCEPT ![e] = Cardinality(Rows) + 1]
    /\ call' = [call EXCEPT ![c] = "created"]
    /\ UNCHANGED <<retries, stale, asked, scanVars, histVars, crashes>>

EnqueueInsert(c) ==
    LET e == asked[c] IN
    /\ call[c] = "checked"
    /\ e \notin Rows
    /\ status' = [status EXCEPT ![e] = "PENDING"]
    /\ created' = [created EXCEPT ![e] = Cardinality(Rows) + 1]
    /\ call' = [call EXCEPT ![c] = "created"]
    /\ UNCHANGED <<retries, stale, asked, scanVars, histVars, crashes>>

-----------------------------------------------------------------------------
(***************************************************************************)
(* QueueScanner._tick: the SELECT holds its row locks only until its       *)
(* connection context exits, before the first row is processed.            *)
(***************************************************************************)

\* Seeded fault: a plain SELECT, no row locks.
NothingLocked == {}

\* Rows locked by a SELECT ... FOR UPDATE whose transaction is still open.
Locked == UNION {todo[s] : s \in {t \in Scanners : pc[t] = "fetched"}}

\* ORDER BY priority DESC, created_at ASC
Precedes(e, f) ==
    \/ Priority[e] > Priority[f]
    \/ Priority[e] = Priority[f] /\ created[e] < created[f]

\* The sets the LIMITed, SKIP LOCKED select may return.
Selectable(B) ==
    LET pending == {e \in Entries : status[e] = "PENDING"} \ Locked IN
    /\ B \subseteq pending
    /\ \/ B = pending /\ Cardinality(B) <= BatchSize
       \/ Cardinality(B) = BatchSize
    /\ \A e \in B, f \in pending \ B : Precedes(e, f)

Goto(s, label) ==
    /\ pc' = [pc EXCEPT ![s] = label]
    /\ UNCHANGED <<todo, cur>>

\* A SELECT that raises leaves everything as it was: no action stands for it.
TickSelect(s) ==
    /\ pc[s] = "idle"
    /\ \E B \in SUBSET Entries :
         /\ Selectable(B)
         /\ todo' = [todo EXCEPT ![s] = B]
    /\ pc' = [pc EXCEPT ![s] = "fetched"]
    /\ UNCHANGED cur
    /\ UNCHANGED <<rowVars, callVars, histVars, crashes>>

TickRelease(s) ==
    /\ pc[s] = "fetched"
    /\ Goto(s, "batch")
    /\ UNCHANGED <<rowVars, callVars, histVars, crashes>>

TickDone(s) ==
    /\ pc[s] = "batch"
    /\ todo[s] = {}
    /\ Goto(s, "recover")
    /\ UNCHANGED <<rowVars, callVars, histVars, crashes>>

-----------------------------------------------------------------------------
(***************************************************************************)
(* process_entry on the next row of the batch.                             *)
(***************************************************************************)

\* The for loop of _tick takes its next row, and lets go of the last one.
Take(s, e, label) ==
    /\ pc' = [pc EXCEPT ![s] = label]
    /\ todo' = [todo EXCEPT ![s] = @ \ {e}]
    /\ cur' = [cur EXCEPT ![s] = e]

Drop(s) ==
    /\ pc' = [pc EXCEPT ![s] = "batch"]
    /\ cur' = [cur EXCEPT ![s] = NoEntry]
    /\ UNCHANGED todo

NextOf(s, e) == e \in todo[s] /\ \A f \in todo[s] : ~Precedes(f, e)

\* UPDATE ... SET status = 'PROCESSING' WHERE ... AND status = 'PENDING'.
\* The row count is not looked at: the handler goes on either way.
ClaimEntry(s) ==
    /\ pc[s] = "batch"
    /\ \E e \in Entries \ Locked :
         /\ NextOf(s, e)
         /\ IF status[e] = "PENDING"
            THEN /\ status' = [status EXCEPT ![e] = "PROCESSING"]
                 /\ stale' = [stale EXCEPT ![e] = FALSE]
            ELSE UNCHANGED <<status, stale>>
         /\ runs' = [runs EXCEPT ![e] = @ + 1]
         /\ Take(s, e, "working")
    /\ UNCHANGED <<retries, created, callVars, published, crashes>>

\* The claiming UPDATE raises.
ClaimRaises(s) ==
    /\ pc[s] = "batch"
    /\ \E e \in Entries :
         /\ NextOf(s, e)
         /\ Take(s, e, "failing")
    /\ UNCHANGED <<rowVars, callVars, histVars, crashes>>

\* Seeded fault: the status the orchestrator uses and the schema lacks.
CompleteAsSkipped(s) ==
    /\ pc[s] = "working"
    /\ cur[s] \notin Locked
    /\ status' = [status EXCEPT ![cur[s]] = "SKIPPED"]
    /\ Goto(s, "publish")
    /\ UNCHANGED <<retries, stale, created, callVars, histVars, crashes>>

\* Seeded fault: the event is forgotten.
CompleteSilently(s) ==
    /\ pc[s] = "working"
    /\ cur[s] \notin Locked
    /\ status' = [status EXCEPT ![cur[s]] = "PROCESSED"]
    /\ Drop(s)
    /\ UNCHANGED <<retries, stale, created, callVars, histVars, crashes>>

\* Blob fetched, parsed and hashed; the unconditional UPDATE to PROCESSED.
CompleteEntry(s) ==
    /\ pc[s] = "working"
    /\ cur[s] \notin Locked
    /\ status' = [status EXCEPT ![cur[s]] = "PROCESSED"]
    /\ Goto(s, "publish")
    /\ UNCHANGED <<retries, stale, created, callVars, histVars, crashes>>

\* Fetching, detecting, parsing, the dedup query or the UPDATE raises.
WorkRaises(s) ==
    /\ pc[s] = "working"
    /\ Goto(s, "failing")
    /\ UNCHANGED <<rowVars, callVars, histVars, crashes>>

\* The event has no company_id: publish does not touch the event ledger
\* and cannot raise.
PublishProcessed(s) ==
    /\ pc[s] = "publish"
    /\ published' = [published EXCEPT ![cur[s]] = @ + 1]
    /\ Drop(s)
    /\ UNCHANGED <<rowVars, callVars, runs, crashes>>

\* Seeded fault: a failed entry goes back to the queue.
FailRequeues(s) ==
    LET e == cur[s] IN
    /\ pc[s] = "failing"
    /\ e \notin Locked
    /\ status' = [status EXCEPT ![e] = "PENDING"]
    /\ retries' = [retries EXCEPT ![e] = @ + 1]
    /\ Drop(s)
    /\ UNCHANGED <<stale, created, callVars, histVars, crashes>>

FailEntry(s) ==
    LET e == cur[s] IN
    /\ pc[s] = "failing"
    /\ e \notin Locked
    /\ status' = [status EXCEPT ![e] = "FAILED"]
    /\ retries' = [retries EXCEPT ![e] = @ + 1]
    /\ Drop(s)
    /\ UNCHANGED <<stale, created, callVars, histVars, crashes>>

\* The UPDATE to FAILED raises too: logged, and the row stays as it is.
FailRaises(s) ==
    /\ pc[s] = "failing"
    /\ Drop(s)
    /\ UNCHANGED <<rowVars, callVars, histVars, crashes>>

-----------------------------------------------------------------------------
(***************************************************************************)
(* QueueScanner._recover_stale, and time.                                  *)
(***************************************************************************)

\* Seeded fault: the recovery forgets AND status = 'PROCESSING'.
AnyOldRow == {e \in Entries : stale[e]}

StaleRows == {e \in Entries : status[e] = "PROCESSING" /\ stale[e]}

\* Seeded fault: the first UPDATE does not count the retry.
RecoverUncounted(s) ==
    /\ pc[s] = "recover"
    /\ IntervalBinds
    /\ status' = [e \in Entries |->
                    IF e \notin StaleRows THEN status[e]
                    ELSE IF retries[e] < MaxAttempts THEN "PENDING" ELSE "FAILED"]
    /\ Goto(s, "idle")
    /\ UNCHANGED <<retries, stale, created, callVars, histVars, crashes>>

\* Seeded fault: the second UPDATE is missing.
RecoverOnlyRetries(s) ==
    /\ pc[s] = "recover"
    /\ IntervalBinds
    /\ status' = [e \in Entries |->
                    IF e \in StaleRows /\ retries[e] < MaxAttempts
                    THEN "PENDING" ELSE status[e]]
    /\ retries' = [e \in Entries |->
                    IF e \in StaleRows /\ retries[e] < MaxAttempts
                    THEN retries[e] + 1 ELSE retries[e]]
    /\ Goto(s, "idle")
    /\ UNCHANGED <<stale, created, callVars, histVars, crashes>>

\* Seeded fault: an off-by-one in retry_count < max_attempts.
RecoverOnceMore(s) ==
    /\ pc[s] = "recover"
    /\ IntervalBinds
    /\ status' = [e \in Entries |->
                    IF e \notin StaleRows THEN status[e]
                    ELSE IF retries[e] <= MaxAttempts THEN "PENDING" ELSE "FAILED"]
    /\ retries' = [e \in Entries |->
                    IF e \in StaleRows /\ retries[e] <= MaxAttempts
                    THEN retries[e] + 1 ELSE retries[e]]
    /\ Goto(s, "idle")
    /\ UNCHANGED <<stale, created, callVars, histVars, crashes>>

RecoverStale(s) ==
    /\ pc[s] = "recover"
    /\ IntervalBinds
    /\ status' = [e \in Entries |->
                    IF e \notin StaleRows THEN status[e]
                    ELSE IF retries[e] < MaxAttempts THEN "PENDING" ELSE "FAILED"]
    /\ retries' = [e \in Entries |->
                    IF e \in StaleRows /\ retries[e] < MaxAttempts
                    THEN retries[e] + 1 ELSE retries[e]]
    /\ Goto(s, "idle")
    /\ UNCHANGED <<stale, created, callVars, histVars, crashes>>

\* _loop logs the exception and sleeps.
RecoverRaises(s) ==
    /\ pc[s] = "recover"
    /\ Goto(s, "idle")
    /\ UNCHANGED <<rowVars, callVars, histVars, crashes>>

\* scanner_stale_threshold seconds pass after the claim.
Age(e) ==
    /\ status[e] = "PROCESSING"
    /\ ~stale[e]
    /\ stale' = [stale EXCEPT ![e] = TRUE]
    /\ UNCHANGED <<status, retries, created, callVars, scanVars, histVars, crashes>>

\* The process dies, or stop() cancels the task: CancelledError is not an
\* Exception, so no row is marked FAILED.  Open transactions roll back.
Crash(s) ==
    /\ pc[s] # "down"
    /\ crashes < MaxCrashes
    /\ crashes' = crashes + 1
    /\ pc' = [pc EXCEPT ![s] = "down"]
    /\ todo' = [todo EXCEPT ![s] = {}]
    /\ cur' = [cur EXCEPT ![s] = NoEntry]
    /\ UNCHANGED <<rowVars, callVars, histVars>>

Restart(s) ==
    /\ pc[s] = "down"
    /\ Goto(s, "idle")
    /\ UNCHANGED <<rowVars, callVars, histVars, crashes>>

-----------------------------------------------------------------------------
Enqueue(c) == EnqueueCheck(c) \/ EnqueueConflict(c) \/ EnqueueInsert(c)

Process(s) ==
    \/ ClaimEntry(s) \/ CompleteEntry(s) \/ PublishProcessed(s) \/ FailEntry(s)
    \/ ClaimRaises(s) \/ WorkRaises(s) \/ FailRaises(s)

Loop(s) ==
    \/ TickSelect(s) \/ TickRelease(s) \/ TickDone(s) \/ Restart(s)
    \/ RecoverStale(s) \/ RecoverRaises(s)

Next ==
    \/ \E c \in Callers : Enqueue(c)
    \/ \E s \in Scanners : Process(s) \/ Loop(s) \/ Crash(s)
    \/ \E e \in Entries : Age(e)

Spec == Init /\ [][Next]_vars

(***************************************************************************)
(* A scanner keeps running (asyncio schedules its task), a stuck row gets  *)
(* old, a restarted container comes back, and the database does not refuse *)
(* the claim or the recovery statement every time (a recovery statement    *)
(* the driver cannot run at all is never enabled).  Nothing is assumed of  *)
(* enqueue requests, of crashes, of the success of the work or of the      *)
(* UPDATE that records a failure.                                          *)
(***************************************************************************)
Fairness ==
    /\ \A s \in Scanners : /\ WF_vars(Process(s) \/ Loop(s))
                           /\ SF_vars(ClaimEntry(s))
                           /\ SF_vars(RecoverStale(s))
    /\ \A e \in Entries : WF_vars(Age(e))

FairSpec == Spec /\ Fairness

(***************************************************************************)
(* Properties                                                              *)
(***************************************************************************)

\* POST /enqueue answers 201 to at most one request per blob, however many
\* arrive between its check and its INSERT, and every refused request names
\* a blob whose row exists.
EnqueueAnswers ==
    /\ \A c, d \in Callers :
         /\ call[c] = "created" /\ call[d] = "created"
         /\ asked[c] = asked[d]
         => c = d
    /\ \A c \in Callers :
         call[c] \in {"created", "duplicate", "conflict"} => asked[c] \in Rows

\* FOR UPDATE SKIP LOCKED keeps the batches of two scanners apart while
\* their SELECT transactions are open (queue_scanner.py:101-111).
LockedBatchesDisjoint ==
    \A s, t \in Scanners :
        s # t /\ pc[s] = "fetched" /\ pc[t] = "fetched"
        => todo[s] \cap todo[t] = {}

\* The claim of _tick's docstring (queue_scanner.py:98-99): several scanner
\* instances never have the same row in hand.
NoContention ==
    \A s, t \in Scanners :
        s # t => (todo[s] \cup {cur[s]}) \cap (todo[t] \cup {cur[t]})
                    \subseteq {NoEntry}

\* process_entry works on a row at most MaxAttempts + 1 times, and
\* retry_count never passes that either: crashes, stale recoveries and
\* failures whose own UPDATE fails cannot make an entry circulate for ever.
AttemptBound ==
    \A e \in Entries : runs[e] <= MaxAttempts + 1 /\ retries[e] <= MaxAttempts + 1

\* With several Core processes each of them may run the entry once per
\* period in which the row is PENDING.
AttemptBoundPerScanner ==
    \A e \in Entries : runs[e] <= (MaxAttempts + 1) * Cardinality(Scanners)

\* A settled entry stays settled: no late worker turns PROCESSED into
\* FAILED or back (both UPDATEs of process_entry are unconditional).
TerminalIsFinal ==
    [][\A e \in Entries : status[e] \in Terminal => status'[e] = status[e]]_vars

\* An entry is announced at most once, and only once it is PROCESSED.
AnnouncedOnce ==
    \A e \in Entries :
        published[e] <= 1 /\ (published[e] = 1 => status[e] = "PROCESSED")

\* Whatever fails and however often a process crashes, an accepted entry
\* ends PROCESSED or FAILED and stays so (queue_scanner.py:28-31: the
\* scanner catches what fell through, stale entries included).
Settles ==
    \A e \in Entries :
        status[e] = "PENDING" ~> [](status[e] \in Terminal)

\* While no process crashes, an entry that ends PROCESSED is announced.
ProcessedIsAnnounced ==
    \A e \in Entries :
        status[e] = "PROCESSED" /\ crashes = 0
        ~> published[e] > 0 \/ crashes > 0

(***************************************************************************)
(* With one scanner: what is known of the row in hand and of the rows      *)
(* still to do, and how attempts and retries account for each other.       *)
(***************************************************************************)
HandOK ==
    \A s \in Scanners :
        LET e == cur[s] IN
        /\ pc[s] \in {"working", "publish", "failing"}
           => e \in Entries /\ e \notin todo[s]
        /\ pc[s] = "working" => status[e] = "PROCESSING"
        /\ pc[s] = "publish" => status[e] = "PROCESSED" /\ published[e] = 0
        /\ pc[s] = "failing" => status[e] \in {"PENDING", "PROCESSING"}
        /\ \A f \in todo[s] : status[f] = "PENDING"

AccountOK ==
    \A e \in Entries :
        /\ status[e] = "none" => runs[e] = 0 /\ retries[e] = 0
        /\ status[e] = "PENDING" => runs[e] = retries[e] /\ runs[e] <= MaxAttempts
        /\ status[e] = "PROCESSING" => runs[e] = retries[e] + 1 /\ runs[e] <= MaxAttempts + 1
        /\ runs[e] <= MaxAttempts + 1 /\ retries[e] <= MaxAttempts + 1

OneScannerInv == TypeOK /\ HandOK /\ AccountOK /\ AnnouncedOnce

\* The one-scanner queue implements the documented state machine.
Lifecycle == INSTANCE QueueLifecycle
    WITH attempts <- runs, announced <- published, MaxRuns <- MaxAttempts + 1

LifecycleSpec == Lifecycle!Spec

=============================================================================
