---------------------------- MODULE RelayIngest ----------------------------
(***************************************************************************)
(* IngestionService.ingest of the Relay, the durable ingest ledger it      *)
(* writes first (relay.db, one SQLite file) and the two services it calls, *)
(* HeartBeat (blob store and global duplicate table) and Core (queue),     *)
(* which are seen only through those calls.                                *)
(*                                                                         *)
(* One Relay process runs all requests on one event loop: a step ends      *)
(* where the handler awaits a service.  Ledger calls are synchronous,      *)
(* autocommitted statements.  A crash kills every request in flight and    *)
(* keeps the ledger and the services.                                      *)
(***************************************************************************)
EXTENDS Naturals, Sequences, FiniteSets

CONSTANTS
    Requests,    \* calls of ingest, retries by clients and redeliveries alike
    NoRequest,
    Tenants,
    Shas,        \* contents of files, by their SHA-256
    Uploads,     \* the lists of files a request may carry (they validate)
    PruneEvery,  \* prune_every_n: ledger inserts between two prunes
    MaxRows,     \* max_rows: the size at which a prune starts to evict
    MaxCrashes   \* bound on restarts of the Relay process

ASSUME IngestConstants ==
    /\ NoRequest \notin Requests
    /\ IsFiniteSet(Tenants) /\ IsFiniteSet(Shas)
    /\ Uploads \subseteq Seq(Shas) \ {<<>>}
    /\ PruneEvery \in Nat \ {0} /\ MaxRows \in Nat \ {0}
    /\ MaxCrashes \in Nat

VARIABLES
    (* the requests *)
    at,          \* the step each request waits in
    tenant,      \* who sent it
    files,       \* the files it carries
    done,        \* files dealt with in the current step
    answer,      \* how it ended
    replayOf,    \* the request whose stored result was returned instead
    (* the ledger: one row per (tenant, sha of the FIRST file) *)
    result,      \* the result column, "none" while there is no row
    owner,       \* the request that inserted the row (data_uuid)
    payload,     \* the request whose result is stored (result_json)
    rank,        \* order of insertion (received_at, rowid)
    inserts,     \* rows inserted so far
    sincePrune,  \* _writes_since_prune
    old,         \* rows older than the retention window
    (* the services *)
    blobs,       \* HeartBeat: <<request, i>> once the i-th file is committed
    known,       \* HeartBeat: contents in its duplicate table
    queued,      \* Core: requests whose data_uuid has been enqueued
    crashes

reqVars    == <<at, tenant, files, done, answer, replayOf>>
ledgerVars == <<result, owner, payload, rank, inserts, sincePrune, old>>
hbVars     == <<blobs, known, queued>>
vars       == <<at, tenant, files, done, answer, replayOf, result, owner, payload, rank,
                inserts, sincePrune, old, blobs, known, queued, crashes>>

Keys   == Tenants \X Shas
\* Seeded fault for Key: one ledger file for all tenants, keyed by content.
KeyOfContent(r) == <<CHOOSE t \in Tenants : TRUE, files[r][1]>>

Key(r) == <<tenant[r], files[r][1]>>
Rows   == {k \in Keys : result[k] # "none"}

Waits   == {"new", "dedup", "ledger", "write", "enqueue", "register", "mark", "over"}
Answers == {"none", "limited", "ingested", "replayed", "refused", "failed", "lost"}
Results == {"none", "pending", "processed", "error"}

\* The steps in which a request holds its ledger row.
Holding  == {"write", "enqueue", "register", "mark"}
InFlight == {"dedup", "ledger"} \cup Holding

TypeOK ==
    /\ at \in [Requests -> Waits]
    /\ tenant \in [Requests -> Tenants \cup {NoRequest}]
    /\ files \in [Requests -> Uploads \cup {<<>>}]
    /\ \A r \in Requests : at[r] # "new" => tenant[r] \in Tenants /\ files[r] \in Uploads
    /\ done \in [Requests -> Nat]
    /\ answer \in [Requests -> Answers]
    /\ replayOf \in [Requests -> Requests \cup {NoRequest}]
    /\ result \in [Keys -> Results]
    /\ owner \in [Keys -> Requests \cup {NoRequest}]
    /\ payload \in [Keys -> Requests \cup {NoRequest}]
    /\ rank \in [Keys -> Nat]
    /\ inserts \in Nat /\ sincePrune \in 0..PruneEvery
    /\ old \subseteq Keys
    /\ blobs \subseteq Requests \X Nat
    /\ known \subseteq Shas
    /\ queued \subseteq Requests
    /\ crashes \in 0..MaxCrashes

Init ==
    /\ at = [r \in Requests |-> "new"]
    /\ tenant = [r \in Requests |-> NoRequest]
    /\ files = [r \in Requests |-> <<>>]
    /\ done = [r \in Requests |-> 0]
    /\ answer = [r \in Requests |-> "none"]
    /\ replayOf = [r \in Requests |-> NoRequest]
    /\ result = [k \in Keys |-> "none"]
    /\ owner = [k \in Keys |-> NoRequest]
    /\ payload = [k \in Keys |-> NoRequest]
    /\ rank = [k \in Keys |-> 0]
    /\ inserts = 0 /\ sincePrune = 0 /\ old = {}
    /\ blobs = {} /\ known = {} /\ queued = {}
    /\ crashes = 0

-----------------------------------------------------------------------------
(***************************************************************************)
(* Bookkeeping of a request.                                               *)
(***************************************************************************)

Goto(r, step) ==
    /\ at' = [at EXCEPT ![r] = step]
    /\ done' = [done EXCEPT ![r] = 0]
    /\ UNCHANGED <<tenant, files, answer, replayOf>>

\* One more file dealt with; after the last one, on to the next step.
NextFile(r, step) ==
    IF done[r] + 1 = Len(files[r])
    THEN Goto(r, step)
    ELSE /\ done' = [done EXCEPT ![r] = @ + 1]
         /\ UNCHANGED <<at, tenant, files, answer, replayOf>>

Answer(r, a) ==
    /\ at' = [at EXCEPT ![r] = "over"]
    /\ answer' = [answer EXCEPT ![r] = a]
    /\ UNCHANGED <<tenant, files, done, replayOf>>

-----------------------------------------------------------------------------
(***************************************************************************)
(* Steps 1-3: nothing outside the request changes.                         *)
(***************************************************************************)

\* A validated request arrives; the daily limit may turn it away.
Arrive(r) ==
    /\ at[r] = "new"
    /\ tenant' \in {[tenant EXCEPT ![r] = t] : t \in Tenants}
    /\ files' \in {[files EXCEPT ![r] = u] : u \in Uploads}
    /\ \/ /\ at' = [at EXCEPT ![r] = "dedup"]
          /\ UNCHANGED answer
       \/ /\ at' = [at EXCEPT ![r] = "over"]
          /\ answer' = [answer EXCEPT ![r] = "limited"]
    /\ UNCHANGED <<done, replayOf, ledgerVars, hbVars, crashes>>

\* The session cache is filled only after the blobs are written, so it is
\* empty during these checks; HeartBeat's table spans all tenants.
DedupRefuses(r) ==
    /\ at[r] = "dedup"
    /\ files[r][done[r] + 1] \in known
    /\ Answer(r, "refused")
    /\ UNCHANGED <<ledgerVars, hbVars, crashes>>

\* HeartBeat does not know the content, or cannot be asked.
DedupPasses(r) ==
    /\ at[r] = "dedup"
    /\ NextFile(r, "ledger")
    /\ UNCHANGED <<ledgerVars, hbVars, crashes>>

-----------------------------------------------------------------------------
(***************************************************************************)
(* The ledger.  A prune removes rows past the retention window and, when   *)
(* the table is over MaxRows, the oldest rows by which it is: processed    *)
(* rows only, though the size counts all of them.                          *)
(***************************************************************************)

\* Seeded faults for Victims: the result filter is forgotten; the order is
\* newest first.
OldestOfAll(res, rnk) ==
    LET size == Cardinality({k \in Keys : res[k] # "none"})
        before(k) == {j \in Keys : res[j] # "none" /\ rnk[j] < rnk[k]}
    IN  {k \in Keys : res[k] # "none" /\ Cardinality(before(k)) + MaxRows < size}

NewestFirst(res, rnk) ==
    LET settled == {k \in Keys : res[k] = "processed"}
        size    == Cardinality({k \in Keys : res[k] # "none"})
        after(k) == {j \in settled : rnk[k] < rnk[j]}
    IN  {k \in settled : k \in old \/ Cardinality(after(k)) + MaxRows < size}

Victims(res, rnk) ==
    LET settled == {k \in Keys : res[k] = "processed"}
        size    == Cardinality({k \in Keys : res[k] # "none"})
        before(k) == {j \in settled : rnk[j] < rnk[k]}
    IN  {k \in settled : k \in old \/ Cardinality(before(k)) + MaxRows < size}

Remove(gone, res, own, pay, rnk) ==
    /\ result' = [k \in Keys |-> IF k \in gone THEN "none" ELSE res[k]]
    /\ owner' = [k \in Keys |-> IF k \in gone THEN NoRequest ELSE own[k]]
    /\ payload' = [k \in Keys |-> IF k \in gone THEN NoRequest ELSE pay[k]]
    /\ rank' = [k \in Keys |-> IF k \in gone THEN 0 ELSE rnk[k]]
    /\ old' = old \ gone

\* Seeded fault for LedgerNew: the write counter is not reset by the gate.
LedgerNewNoReset(r) ==
    LET res == [result EXCEPT ![Key(r)] = "pending"]
        rnk == [rank EXCEPT ![Key(r)] = inserts + 1]
        due == sincePrune + 1 >= PruneEvery
    IN
    /\ at[r] = "ledger"
    /\ result[Key(r)] = "none"
    /\ Remove(IF due THEN Victims(res, rnk) ELSE {}, res, [owner EXCEPT ![Key(r)] = r],
              payload, rnk)
    /\ inserts' = inserts + 1
    /\ sincePrune' = sincePrune + 1
    /\ Goto(r, "write")
    /\ UNCHANGED <<hbVars, crashes>>

\* record_received inserts the row, write-first, and every PruneEvery-th
\* insert prunes before the handler goes on to write blobs; a prune that
\* raises is logged and removes nothing.
LedgerNew(r) ==
    LET k   == Key(r)
        res == [result EXCEPT ![k] = "pending"]
        rnk == [rank EXCEPT ![k] = inserts + 1]
        due == sincePrune + 1 >= PruneEvery
    IN
    /\ at[r] = "ledger"
    /\ result[k] = "none"
    /\ \E gone \in {{}, IF due THEN Victims(res, rnk) ELSE {}} :
          Remove(gone, res, [owner EXCEPT ![k] = r], payload, rnk)
    /\ inserts' = inserts + 1
    /\ sincePrune' = IF due THEN 0 ELSE sincePrune + 1
    /\ Goto(r, "write")
    /\ UNCHANGED <<hbVars, crashes>>

\* A stored result is returned with status "duplicate".
LedgerReplays(r) ==
    LET k == Key(r) IN
    /\ at[r] = "ledger"
    /\ result[k] # "none"
    /\ payload[k] # NoRequest
    /\ at' = [at EXCEPT ![r] = "over"]
    /\ answer' = [answer EXCEPT ![r] = "replayed"]
    /\ replayOf' = [replayOf EXCEPT ![r] = payload[k]]
    /\ UNCHANGED <<tenant, files, done, ledgerVars, hbVars, crashes>>

\* Seeded fault for LedgerRefuses: a row without a result is taken over.
LedgerReclaims(r) ==
    /\ at[r] = "ledger"
    /\ result[Key(r)] # "none"
    /\ payload[Key(r)] = NoRequest
    /\ result' = [result EXCEPT ![Key(r)] = "pending"]
    /\ owner' = [owner EXCEPT ![Key(r)] = r]
    /\ Goto(r, "write")
    /\ UNCHANGED <<payload, rank, inserts, sincePrune, old, hbVars, crashes>>

\* The row is pending or in error: DuplicateFileError.
LedgerRefuses(r) ==
    /\ at[r] = "ledger"
    /\ result[Key(r)] # "none"
    /\ payload[Key(r)] = NoRequest
    /\ Answer(r, "refused")
    /\ UNCHANGED <<ledgerVars, hbVars, crashes>>

-----------------------------------------------------------------------------
(***************************************************************************)
(* Step 4, the commit point, and the best-effort steps after it.           *)
(***************************************************************************)

\* Seeded faults: the loop leaves after the first file; a failed request
\* takes its row back so that the client may retry.
WriteFirstBlob(r) ==
    /\ at[r] = "write"
    /\ blobs' = blobs \cup {<<r, 1>>}
    /\ Goto(r, "enqueue")
    /\ UNCHANGED <<ledgerVars, known, queued, crashes>>

WriteFailsForgets(r) ==
    /\ at[r] = "write"
    /\ blobs' \in {blobs, blobs \cup {<<r, done[r] + 1>>}}
    /\ Remove({Key(r)}, result, owner, payload, rank)
    /\ Answer(r, "failed")
    /\ UNCHANGED <<inserts, sincePrune, known, queued, crashes>>

WriteBlob(r) ==
    /\ at[r] = "write"
    /\ blobs' = blobs \cup {<<r, done[r] + 1>>}
    /\ NextFile(r, "enqueue")
    /\ UNCHANGED <<ledgerVars, known, queued, crashes>>

\* The retries are used up or the token is rejected.  If only the answers
\* were lost the blob is there all the same; a failing mark_error is logged.
WriteFails(r) ==
    /\ at[r] = "write"
    /\ blobs' \in {blobs, blobs \cup {<<r, done[r] + 1>>}}
    /\ result' \in {result, [result EXCEPT ![Key(r)] = "error"]}
    /\ Answer(r, "failed")
    /\ UNCHANGED <<owner, payload, rank, inserts, sincePrune, old, known, queued, crashes>>

\* A failure here is answered with an "orphan_" queue id.
EnqueueCore(r) ==
    /\ at[r] = "enqueue"
    /\ queued' \in {queued, queued \cup {r}}
    /\ Goto(r, "register")
    /\ UNCHANGED <<ledgerVars, blobs, known, crashes>>

\* HeartBeat's register handler fills its duplicate table; failures are logged.
RegisterBlob(r) ==
    /\ at[r] = "register"
    /\ known' \in {known, known \cup {files[r][done[r] + 1]}}
    /\ NextFile(r, "mark")
    /\ UNCHANGED <<ledgerVars, blobs, queued, crashes>>

\* After the audit call: mark_processed, then the answer.
MarkProcessed(r) ==
    /\ at[r] = "mark"
    /\ result' = [result EXCEPT ![Key(r)] = "processed"]
    /\ payload' = [payload EXCEPT ![Key(r)] = r]
    /\ Answer(r, "ingested")
    /\ UNCHANGED <<owner, rank, inserts, sincePrune, old, hbVars, crashes>>

\* A ledger statement raises and the handler with it: before the pipeline,
\* or after the commit, when the row stays pending.
LedgerRaises(r) ==
    /\ at[r] \in {"ledger", "mark"}
    /\ Answer(r, "failed")
    /\ UNCHANGED <<ledgerVars, hbVars, crashes>>

-----------------------------------------------------------------------------
\* The retention window passes.
Age(k) ==
    /\ k \in Rows \ old
    /\ old' = old \cup {k}
    /\ UNCHANGED <<reqVars, result, owner, payload, rank, inserts, sincePrune, hbVars, crashes>>

\* The process dies and starts again; opening the ledger prunes it, if it can.
CrashRestart ==
    /\ crashes < MaxCrashes
    /\ crashes' = crashes + 1
    /\ at' = [r \in Requests |-> IF at[r] \in InFlight THEN "over" ELSE at[r]]
    /\ answer' = [r \in Requests |-> IF at[r] \in InFlight THEN "lost" ELSE answer[r]]
    /\ \E gone \in {{}, Victims(result, rank)} : Remove(gone, result, owner, payload, rank)
    /\ sincePrune' = 0
    /\ UNCHANGED <<tenant, files, done, replayOf, inserts, hbVars>>

Step(r) ==
    \/ DedupRefuses(r) \/ DedupPasses(r)
    \/ LedgerNew(r) \/ LedgerReplays(r) \/ LedgerRefuses(r)
    \/ WriteBlob(r) \/ WriteFails(r) \/ EnqueueCore(r) \/ RegisterBlob(r)
    \/ MarkProcessed(r) \/ LedgerRaises(r)

Next ==
    \/ \E r \in Requests : Arrive(r) \/ Step(r)
    \/ \E k \in Keys : Age(k)
    \/ CrashRestart

Spec == Init /\ [][Next]_vars

-----------------------------------------------------------------------------
(***************************************************************************)
(* Properties.                                                             *)
(***************************************************************************)

Committed(r) == \A i \in DOMAIN files[r] : <<r, i>> \in blobs

(* While a request is between record_received and mark_processed its row   *)
(* is there, pending and its own: the PRIMARY KEY lets no second request   *)
(* for the same tenant and first file run the pipeline at the same time,   *)
(* and no prune that other requests trigger removes the row under it.      *)
HoldsItsRow ==
    \A r \in Requests : at[r] \in Holding =>
        /\ result[Key(r)] = "pending"
        /\ owner[Key(r)] = r
        /\ payload[Key(r)] = NoRequest

(* Write-first: blobs committed for a request that did not complete, lost  *)
(* in a crash or failed half-way through its files, are never without a    *)
(* trace.  Its row stands, pending or in error, whatever is pruned.        *)
TraceSurvives ==
    \A r \in Requests :
        (\E i \in DOMAIN files[r] : <<r, i>> \in blobs) /\ answer[r] # "ingested" =>
            /\ owner[Key(r)] = r
            /\ result[Key(r)] \in {"pending", "error"}

(* Step 4 is the commit point: Core is told of a request, and the client   *)
(* told it was ingested, only when every one of its files is stored.       *)
CommitPoint ==
    \A r \in Requests : r \in queued \/ answer[r] = "ingested" => Committed(r)

(* A replayed answer is the stored answer of a request of the same tenant  *)
(* with the same first file, which was itself carried out in full and not  *)
(* replayed: an answer is never a replay of a replay or of a failure.  (The *)
(* other files of the two may differ: the key does not hold them.)         *)
ReplaySound ==
    \A r \in Requests : answer[r] = "replayed" =>
        LET p == replayOf[r] IN
        /\ p \in Requests \ {r}
        /\ answer[p] = "ingested"
        /\ tenant[p] = tenant[r]
        /\ files[p][1] = files[r][1]
        /\ Committed(p)

(* What makes the four above inductive: how far each request has got with  *)
(* its files, and which result a processed row holds.                      *)
FilesLeft ==
    \A r \in Requests :
        /\ at[r] = "new" => done[r] = 0
        /\ at[r] \in {"dedup", "write", "register"} => done[r] < Len(files[r])

Progress ==
    \A r \in Requests :
        /\ at[r] # "over" => answer[r] = "none"
        /\ at[r] \in {"new", "dedup", "ledger"} =>
              r \notin queued /\ \A b \in blobs : b[1] # r
        /\ at[r] = "write" => r \notin queued /\ \A i \in 1..done[r] : <<r, i>> \in blobs
        /\ at[r] \in {"enqueue", "register", "mark"} => Committed(r)

StoredResults ==
    \A k \in Keys :
        /\ result[k] = "processed" <=> payload[k] # NoRequest
        /\ payload[k] # NoRequest =>
              answer[payload[k]] = "ingested" /\ Key(payload[k]) = k

IngestInv == /\ HoldsItsRow /\ TraceSurvives /\ CommitPoint /\ ReplaySound
             /\ FilesLeft /\ Progress /\ StoredResults

(* The service contract says of a file uploaded many times in quick        *)
(* succession that only one blob is stored.  HeartBeat learns of a file in *)
(* step 6, long after it was asked in step 3, and the ledger's key holds   *)
(* the first file only: two requests that overlap store a file they share. *)
SameFileStoredOnce ==
    \A b, c \in blobs : files[b[1]][b[2]] = files[c[1]][c[2]] => b = c

(* What a step may do to a row: an unsettled row is never pruned, a row in *)
(* error stays as it is for ever (so every retry of that key is refused),  *)
(* a stored result is never replaced by another, and a row changes hands   *)
(* only by being pruned and inserted anew.                                 *)
RowSteps ==
    \A k \in Keys :
        /\ result[k] \in {"pending", "error"} => result'[k] # "none" /\ owner'[k] = owner[k]
        /\ result[k] = "error" => result'[k] = "error" /\ payload'[k] = payload[k]
        /\ result[k] = "processed" =>
              \/ result'[k] = "none"
              \/ result'[k] = "processed" /\ payload'[k] = payload[k]

RowLifecycle == [][RowSteps]_vars

(* A prune, of the gate or of a restart, that removes anything brings the  *)
(* table under MaxRows or leaves no processed row in it, and a row that is *)
(* evicted for size is older than every processed row that is kept.        *)
PruneStep ==
    LET kept == {k \in Keys : result'[k] = "processed"}
        gone == {k \in Keys : result[k] # "none" /\ result'[k] = "none"}
    IN
    /\ gone # {} =>
          kept = {} \/ Cardinality({k \in Keys : result'[k] # "none"}) <= MaxRows
    /\ \A k \in gone \ old, j \in kept : rank[k] < rank[j]

PruneKeepsNewest == [][PruneStep]_vars

=============================================================================
