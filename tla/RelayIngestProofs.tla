------------------------- MODULE RelayIngestProofs -------------------------
(***************************************************************************)
(* Proofs about RelayIngest, for every set of requests, tenants, contents  *)
(* and lists of files and every value of the bounds.                       *)
(***************************************************************************)
EXTENDS RelayIngest, FiniteSetTheorems, WellFoundedInduction, TLAPS

\* Every step is the arrival or a step of one request, the passing of time
\* or a restart.
LEMMA StepCases ==
  ASSUME Next
  PROVE  \/ \E r \in Requests : Arrive(r) \/ Step(r)
         \/ \E k \in Keys : Age(k)
         \/ CrashRestart
BY DEF Next

\* A list of files is a sequence with a first element.
LEMMA UploadFacts ==
  ASSUME NEW u \in Uploads
  PROVE  u \in Seq(Shas) /\ Len(u) \in Nat \ {0} /\ u[1] \in Shas /\ DOMAIN u = 1..Len(u)
<1>1. u \in Seq(Shas) /\ u # <<>>
  BY IngestConstants
<1> QED
  BY <1>1

\* From its arrival on a request has a key.
LEMMA KeyType ==
  ASSUME TypeOK, NEW r \in Requests, at[r] # "new"
  PROVE  Key(r) \in Keys
BY UploadFacts DEF TypeOK, Key, Keys

-----------------------------------------------------------------------------
(***************************************************************************)
(* Types.                                                                  *)
(***************************************************************************)

LEMMA TypeInit == Init => TypeOK
BY IngestConstants DEF Init, TypeOK, Waits, Answers, Results, Keys

\* What the bookkeeping operators of a request keep.
LEMMA GotoType ==
  ASSUME TypeOK, NEW r \in Requests, at[r] # "new", NEW s \in Waits, Goto(r, s)
  PROVE  /\ at' \in [Requests -> Waits] /\ done' \in [Requests -> Nat]
         /\ UNCHANGED <<tenant, files, answer, replayOf>>
         /\ \A q \in Requests : at'[q] # "new" => at[q] # "new"
BY DEF TypeOK, Goto

LEMMA NextFileType ==
  ASSUME TypeOK, NEW r \in Requests, at[r] # "new", NEW s \in Waits, NextFile(r, s)
  PROVE  /\ at' \in [Requests -> Waits] /\ done' \in [Requests -> Nat]
         /\ UNCHANGED <<tenant, files, answer, replayOf>>
         /\ \A q \in Requests : at'[q] # "new" => at[q] # "new"
<1>1. CASE done[r] + 1 = Len(files[r])
  BY <1>1, GotoType DEF NextFile
<1>2. CASE done[r] + 1 # Len(files[r])
  <2>1. done' = [q \in Requests |-> IF q = r THEN done[q] + 1 ELSE done[q]]
    BY <1>2 DEF NextFile, TypeOK
  <2> QED
    BY <1>2, <2>1 DEF NextFile, TypeOK
<1> QED
  BY <1>1, <1>2

LEMMA AnswerType ==
  ASSUME TypeOK, NEW r \in Requests, at[r] # "new", NEW a \in Answers, Answer(r, a)
  PROVE  /\ at' \in [Requests -> Waits] /\ answer' \in [Requests -> Answers]
         /\ UNCHANGED <<tenant, files, done, replayOf>>
         /\ \A q \in Requests : at'[q] # "new" => at[q] # "new"
BY DEF TypeOK, Answer, Waits

\* Removing rows keeps the types of the ledger's columns.
LEMMA RemoveType ==
  ASSUME NEW gone, NEW res \in [Keys -> Results],
         NEW own \in [Keys -> Requests \cup {NoRequest}],
         NEW pay \in [Keys -> Requests \cup {NoRequest}],
         NEW rnk \in [Keys -> Nat],
         old \subseteq Keys, Remove(gone, res, own, pay, rnk)
  PROVE  /\ result' \in [Keys -> Results] /\ rank' \in [Keys -> Nat]
         /\ owner' \in [Keys -> Requests \cup {NoRequest}]
         /\ payload' \in [Keys -> Requests \cup {NoRequest}]
         /\ old' \subseteq Keys
BY DEF Remove, Results

LEMMA TypeStep == TypeOK /\ FilesLeft /\ [Next]_vars => TypeOK'
<1> SUFFICES ASSUME TypeOK, FilesLeft, [Next]_vars PROVE TypeOK'
  OBVIOUS
<1> USE DEF reqVars, ledgerVars, hbVars
<1>1. ASSUME NEW r \in Requests, Arrive(r) PROVE TypeOK'
  <2>1. PICK t \in Tenants : tenant' = [tenant EXCEPT ![r] = t]
    BY <1>1 DEF Arrive
  <2>2. PICK u \in Uploads : files' = [files EXCEPT ![r] = u]
    BY <1>1 DEF Arrive
  <2>3. at' \in [Requests -> Waits] /\ answer' \in [Requests -> Answers]
    BY <1>1 DEF Arrive, TypeOK, Waits, Answers
  <2>4. /\ tenant' \in [Requests -> Tenants \cup {NoRequest}]
        /\ files' \in [Requests -> Uploads \cup {<<>>}]
    BY <2>1, <2>2 DEF TypeOK
  <2>5. \A q \in Requests : at'[q] # "new" => tenant'[q] \in Tenants /\ files'[q] \in Uploads
    BY <1>1, <2>1, <2>2 DEF Arrive, TypeOK
  <2> QED
    BY <1>1, <2>3, <2>4, <2>5 DEF Arrive, TypeOK
<1>2. ASSUME NEW r \in Requests, DedupRefuses(r) \/ LedgerRefuses(r) \/ LedgerRaises(r)
      PROVE  TypeOK'
  <2>1. at[r] # "new" /\ \E a \in Answers : Answer(r, a)
    BY <1>2 DEF DedupRefuses, LedgerRefuses, LedgerRaises, Answers
  <2> QED
    BY <1>2, <2>1, AnswerType DEF DedupRefuses, LedgerRefuses, LedgerRaises, TypeOK
<1>3. ASSUME NEW r \in Requests, DedupPasses(r) PROVE TypeOK'
  BY <1>3, NextFileType DEF DedupPasses, TypeOK, Waits
<1>4. ASSUME NEW r \in Requests, LedgerNew(r) PROVE TypeOK'
  <2> DEFINE k   == Key(r)
             res == [result EXCEPT ![k] = "pending"]
             own == [owner EXCEPT ![k] = r]
             rnk == [rank EXCEPT ![k] = inserts + 1]
             due == sincePrune + 1 >= PruneEvery
  <2>1. at[r] = "ledger" /\ Goto(r, "write") /\ inserts' = inserts + 1
        /\ sincePrune' = (IF due THEN 0 ELSE sincePrune + 1)
        /\ UNCHANGED <<hbVars, crashes>>
    BY <1>4 DEF LedgerNew
  <2>2. PICK gone : Remove(gone, res, own, payload, rnk)
    BY <1>4 DEF LedgerNew
  <2>3. /\ res \in [Keys -> Results] /\ own \in [Keys -> Requests \cup {NoRequest}]
        /\ rnk \in [Keys -> Nat]
    <3>1. res \in [Keys -> Results]
      BY DEF TypeOK, Results
    <3>2. own \in [Keys -> Requests \cup {NoRequest}]
      BY DEF TypeOK
    <3>3. inserts + 1 \in Nat /\ rank \in [Keys -> Nat]
      BY DEF TypeOK
    <3>4. rnk \in [Keys -> Nat]
      BY <3>3
    <3> QED
      BY <3>1, <3>2, <3>4
  <2>4. /\ result' \in [Keys -> Results] /\ rank' \in [Keys -> Nat]
        /\ owner' \in [Keys -> Requests \cup {NoRequest}]
        /\ payload' \in [Keys -> Requests \cup {NoRequest}]
        /\ old' \subseteq Keys
    BY <2>2, <2>3, RemoveType DEF TypeOK
  <2>5. sincePrune' \in 0..PruneEvery /\ inserts' \in Nat
    BY <2>1, IngestConstants DEF TypeOK
  <2> QED
    BY <2>1, <2>4, <2>5, GotoType DEF TypeOK, Waits
<1>5. ASSUME NEW r \in Requests, LedgerReplays(r) PROVE TypeOK'
  <2>1. payload[Key(r)] \in Requests \cup {NoRequest}
    BY <1>5, KeyType DEF LedgerReplays, TypeOK
  <2> QED
    BY <1>5, <2>1 DEF LedgerReplays, TypeOK, Waits, Answers
<1>6. ASSUME NEW r \in Requests, WriteBlob(r) PROVE TypeOK'
  BY <1>6, NextFileType DEF WriteBlob, TypeOK, Waits
<1>7. ASSUME NEW r \in Requests, WriteFails(r) PROVE TypeOK'
  <2>1. at[r] # "new" /\ Answer(r, "failed") /\ "failed" \in Answers
    BY <1>7 DEF WriteFails, Answers
  <2>2. result' \in [Keys -> Results]
    BY <1>7 DEF WriteFails, TypeOK, Results
  <2>3. blobs' \subseteq Requests \X Nat
    BY <1>7 DEF WriteFails, TypeOK
  <2> QED
    BY <1>7, <2>1, <2>2, <2>3, AnswerType DEF WriteFails, TypeOK
<1>8. ASSUME NEW r \in Requests, EnqueueCore(r) PROVE TypeOK'
  BY <1>8, GotoType DEF EnqueueCore, TypeOK, Waits
<1>9. ASSUME NEW r \in Requests, RegisterBlob(r) PROVE TypeOK'
  <2>1. files[r] \in Uploads /\ done[r] \in Nat /\ done[r] < Len(files[r])
    BY <1>9 DEF RegisterBlob, TypeOK, FilesLeft
  <2>2. files[r][done[r] + 1] \in Shas
    BY <2>1, UploadFacts
  <2> QED
    BY <1>9, <2>2, NextFileType DEF RegisterBlob, TypeOK, Waits
<1>10. ASSUME NEW r \in Requests, MarkProcessed(r) PROVE TypeOK'
  <2>1. at[r] # "new" /\ Answer(r, "ingested") /\ "ingested" \in Answers
    BY <1>10 DEF MarkProcessed, Answers
  <2>2. result' \in [Keys -> Results] /\ payload' \in [Keys -> Requests \cup {NoRequest}]
    BY <1>10 DEF MarkProcessed, TypeOK, Results
  <2> QED
    BY <1>10, <2>1, <2>2, AnswerType DEF MarkProcessed, TypeOK
<1>11. ASSUME NEW k \in Keys, Age(k) PROVE TypeOK'
  BY <1>11 DEF Age, TypeOK
<1>12. CASE CrashRestart
  <2>1. at' \in [Requests -> Waits] /\ answer' \in [Requests -> Answers]
    BY <1>12 DEF CrashRestart, TypeOK, Waits, Answers
  <2>2. \A q \in Requests : at'[q] # "new" => at[q] # "new"
    BY <1>12 DEF CrashRestart, TypeOK, InFlight, Holding
  <2>3. /\ result' \in [Keys -> Results] /\ rank' \in [Keys -> Nat]
        /\ owner' \in [Keys -> Requests \cup {NoRequest}]
        /\ payload' \in [Keys -> Requests \cup {NoRequest}]
        /\ old' \subseteq Keys
    BY <1>12, RemoveType DEF CrashRestart, TypeOK
  <2>4. sincePrune' \in 0..PruneEvery /\ crashes' \in 0..MaxCrashes
    BY <1>12, IngestConstants DEF CrashRestart, TypeOK
  <2> QED
    BY <1>12, <2>1, <2>2, <2>3, <2>4 DEF CrashRestart, TypeOK
<1>13. CASE UNCHANGED vars
  BY <1>13 DEF vars, TypeOK
<1> QED
  BY <1>1, <1>2, <1>3, <1>4, <1>5, <1>6, <1>7, <1>8, <1>9, <1>10, <1>11, <1>12, <1>13,
     StepCases DEF Step

\* How far a request may be among its files once it has moved to a step.
LEMMA FilesFrame ==
  ASSUME TypeOK, FilesLeft, NEW r \in Requests, at[r] # "new", NEW s \in Waits,
         s # "new", Goto(r, s) \/ (done[r] < Len(files[r]) /\ NextFile(r, s))
  PROVE  FilesLeft'
<1>1. Len(files[r]) \in Nat \ {0} /\ done[r] \in Nat
  BY UploadFacts DEF TypeOK
<1>2. CASE Goto(r, s)
  <2>1. /\ at' = [q \in Requests |-> IF q = r THEN s ELSE at[q]]
        /\ done' = [q \in Requests |-> IF q = r THEN 0 ELSE done[q]]
        /\ UNCHANGED files
    BY <1>2 DEF Goto, TypeOK
  <2> QED
    BY <1>1, <2>1 DEF FilesLeft
<1>3. CASE done[r] + 1 = Len(files[r]) /\ NextFile(r, s)
  BY <1>2, <1>3 DEF NextFile
<1>4. CASE done[r] + 1 # Len(files[r]) /\ done[r] < Len(files[r]) /\ NextFile(r, s)
  <2>1. done' = [q \in Requests |-> IF q = r THEN done[q] + 1 ELSE done[q]]
        /\ UNCHANGED <<at, files>>
    BY <1>4 DEF NextFile, TypeOK
  <2> QED
    BY <1>1, <1>4, <2>1 DEF FilesLeft, TypeOK
<1> QED
  BY <1>2, <1>3, <1>4

LEMMA FilesStep == TypeOK /\ FilesLeft /\ [Next]_vars => FilesLeft'
<1> SUFFICES ASSUME TypeOK, FilesLeft, [Next]_vars PROVE FilesLeft'
  OBVIOUS
<1> USE DEF reqVars, ledgerVars, hbVars
<1>1. ASSUME NEW r \in Requests, Arrive(r) PROVE FilesLeft'
  <2>1. PICK u \in Uploads : files' = [files EXCEPT ![r] = u]
    BY <1>1 DEF Arrive
  <2>2. Len(u) \in Nat \ {0}
    BY UploadFacts
  <2> QED
    BY <1>1, <2>1, <2>2 DEF Arrive, FilesLeft, TypeOK
<1>2. ASSUME NEW r \in Requests, NEW a \in Answers, Answer(r, a) PROVE FilesLeft'
  BY <1>2 DEF Answer, FilesLeft, TypeOK
<1>3. ASSUME NEW r \in Requests, DedupRefuses(r) \/ LedgerRefuses(r) \/ WriteFails(r)
                                 \/ MarkProcessed(r) \/ LedgerRaises(r)
      PROVE  FilesLeft'
  BY <1>2, <1>3 DEF DedupRefuses, LedgerRefuses, WriteFails, MarkProcessed, LedgerRaises, Answers
<1>4. ASSUME NEW r \in Requests, DedupPasses(r) \/ WriteBlob(r) \/ RegisterBlob(r)
      PROVE  FilesLeft'
  <2>1. at[r] # "new" /\ done[r] < Len(files[r])
    BY <1>4 DEF DedupPasses, WriteBlob, RegisterBlob, FilesLeft
  <2>2. \E s \in Waits \ {"new"} : NextFile(r, s)
    BY <1>4 DEF DedupPasses, WriteBlob, RegisterBlob, Waits
  <2> QED
    BY <2>1, <2>2, FilesFrame
<1>5. ASSUME NEW r \in Requests, LedgerNew(r) \/ EnqueueCore(r) PROVE FilesLeft'
  <2>1. at[r] # "new" /\ \E s \in Waits \ {"new"} : Goto(r, s)
    BY <1>5 DEF LedgerNew, EnqueueCore, Waits
  <2> QED
    BY <2>1, FilesFrame
<1>6. ASSUME NEW r \in Requests, LedgerReplays(r) PROVE FilesLeft'
  BY <1>6 DEF LedgerReplays, FilesLeft, TypeOK
<1>7. ASSUME NEW k \in Keys, Age(k) PROVE FilesLeft'
  BY <1>7 DEF Age, FilesLeft
<1>8. CASE CrashRestart
  BY <1>8 DEF CrashRestart, FilesLeft, TypeOK, InFlight, Holding
<1>9. CASE UNCHANGED vars
  BY <1>9 DEF vars, FilesLeft
<1> QED
  BY <1>1, <1>3, <1>4, <1>5, <1>6, <1>7, <1>8, <1>9, StepCases DEF Step

\* The state of the requests, of the ledger and of the services keeps its
\* type.
THEOREM TypeCorrect == Spec => []TypeOK
<1>1. Init => TypeOK /\ FilesLeft
  BY TypeInit DEF Init, FilesLeft
<1>2. TypeOK /\ FilesLeft /\ [Next]_vars => TypeOK' /\ FilesLeft'
  BY TypeStep, FilesStep
<1> QED
  BY <1>1, <1>2, PTL DEF Spec

-----------------------------------------------------------------------------
(***************************************************************************)
(* The ledger under the pipelines, and the commit point.                   *)
(***************************************************************************)

\* Only processed rows are pruned.
LEMMA VictimsSettled ==
  ASSUME NEW res, NEW rnk, NEW k \in Victims(res, rnk)
  PROVE  k \in Keys /\ res[k] = "processed"
BY DEF Victims

\* A request keeps its tenant and files, hence its key, from its arrival on;
\* what is committed stays committed.
LEMMA Kept ==
  ASSUME TypeOK, [Next]_vars, NEW r \in Requests, at[r] # "new"
  PROVE  /\ tenant'[r] = tenant[r] /\ files'[r] = files[r] /\ Key(r)' = Key(r)
         /\ at'[r] # "new"
         /\ Committed(r) => Committed(r)'
         /\ blobs \subseteq blobs' /\ queued \subseteq queued'
<1> USE DEF reqVars, ledgerVars, hbVars
<1> SUFFICES /\ tenant'[r] = tenant[r] /\ files'[r] = files[r] /\ at'[r] # "new"
             /\ blobs \subseteq blobs' /\ queued \subseteq queued'
  BY DEF Key, Committed
<1>1. ASSUME NEW q \in Requests, Arrive(q)
      PROVE  /\ tenant'[r] = tenant[r] /\ files'[r] = files[r] /\ at'[r] # "new"
             /\ blobs \subseteq blobs' /\ queued \subseteq queued'
  BY <1>1 DEF Arrive, TypeOK
<1>2. ASSUME NEW q \in Requests, NEW s \in Waits \ {"new"},
             NextFile(q, s) \/ Goto(q, s) \/ \E a \in Answers : Answer(q, a)
      PROVE  tenant'[r] = tenant[r] /\ files'[r] = files[r] /\ at'[r] # "new"
  BY <1>2 DEF NextFile, Goto, Answer, TypeOK
<1>3. ASSUME NEW q \in Requests, Step(q)
      PROVE  tenant'[r] = tenant[r] /\ files'[r] = files[r] /\ at'[r] # "new"
  <2>1. CASE \/ DedupPasses(q) \/ LedgerNew(q) \/ WriteBlob(q) \/ EnqueueCore(q)
             \/ RegisterBlob(q)
    BY <1>2, <2>1 DEF DedupPasses, LedgerNew, WriteBlob, EnqueueCore, RegisterBlob, Waits
  <2>2. CASE \/ DedupRefuses(q) \/ LedgerRefuses(q) \/ WriteFails(q)
             \/ MarkProcessed(q) \/ LedgerRaises(q)
    BY <1>2, <2>2 DEF DedupRefuses, LedgerRefuses, WriteFails, MarkProcessed, LedgerRaises,
                      Waits, Answers
  <2>3. CASE LedgerReplays(q)
    BY <2>3 DEF LedgerReplays, TypeOK
  <2> QED
    BY <1>3, <2>1, <2>2, <2>3 DEF Step
<1>4. ASSUME NEW q \in Requests, Step(q)
      PROVE  blobs \subseteq blobs' /\ queued \subseteq queued'
  BY <1>4 DEF Step, DedupRefuses, DedupPasses, LedgerNew, LedgerReplays, LedgerRefuses,
              WriteBlob, WriteFails, EnqueueCore, RegisterBlob, MarkProcessed, LedgerRaises
<1>5. ASSUME NEW k \in Keys, Age(k)
      PROVE  /\ tenant'[r] = tenant[r] /\ files'[r] = files[r] /\ at'[r] # "new"
             /\ blobs \subseteq blobs' /\ queued \subseteq queued'
  BY <1>5 DEF Age
<1>6. CASE CrashRestart
  BY <1>6 DEF CrashRestart, TypeOK, InFlight, Holding
<1>7. CASE UNCHANGED vars
  BY <1>7 DEF vars
<1> QED
  BY <1>1, <1>3, <1>4, <1>5, <1>6, <1>7, StepCases

\* Two requests in the pipeline hold different rows.
LEMMA KeysApart ==
  ASSUME HoldsItsRow, NEW r \in Requests, NEW q \in Requests,
         at[r] \in Holding, at[q] \in Holding, r # q
  PROVE  Key(r) # Key(q)
BY DEF HoldsItsRow

\* What an insert does to the rows: its own becomes pending, others stay or
\* are processed rows that are pruned.
LEMMA InsertRows ==
  ASSUME TypeOK, NEW r \in Requests, LedgerNew(r)
  PROVE  /\ Key(r) \in Keys /\ result[Key(r)] = "none"
         /\ result'[Key(r)] = "pending" /\ owner'[Key(r)] = r
         /\ payload'[Key(r)] = payload[Key(r)]
         /\ \A k \in Keys \ {Key(r)} :
               \/ result'[k] = result[k] /\ owner'[k] = owner[k] /\ payload'[k] = payload[k]
               \/ result[k] = "processed" /\ result'[k] = "none" /\ payload'[k] = NoRequest
<1> DEFINE kr  == Key(r)
           res == [result EXCEPT ![kr] = "pending"]
           own == [owner EXCEPT ![kr] = r]
           rnk == [rank EXCEPT ![kr] = inserts + 1]
<1>1. Key(r) \in Keys /\ result[kr] = "none"
  BY KeyType DEF LedgerNew
<1>2. PICK gone : gone \in {{}, Victims(res, rnk)} /\ Remove(gone, res, own, payload, rnk)
  BY DEF LedgerNew
<1>3. \A k \in gone : k \in Keys /\ res[k] = "processed"
  BY <1>2, VictimsSettled
<1>4. kr \notin gone
  BY <1>1, <1>3 DEF TypeOK
<1>5. result'[kr] = "pending" /\ owner'[kr] = r /\ payload'[kr] = payload[kr]
  BY <1>1, <1>2, <1>4 DEF Remove, TypeOK
<1>6. ASSUME NEW k \in Keys \ {kr}
      PROVE  \/ result'[k] = result[k] /\ owner'[k] = owner[k] /\ payload'[k] = payload[k]
             \/ result[k] = "processed" /\ result'[k] = "none" /\ payload'[k] = NoRequest
  <2>1. res[k] = result[k] /\ own[k] = owner[k]
    BY <1>6 DEF TypeOK
  <2>2. CASE k \in gone
    BY <1>2, <1>3, <2>1, <2>2 DEF Remove
  <2>3. CASE k \notin gone
    BY <1>2, <2>1, <2>3 DEF Remove
  <2> QED
    BY <2>2, <2>3
<1> QED
  BY <1>1, <1>5, <1>6

\* What a restart does to the rows.
LEMMA RestartRows ==
  ASSUME CrashRestart
  PROVE  \A k \in Keys :
            \/ result'[k] = result[k] /\ owner'[k] = owner[k] /\ payload'[k] = payload[k]
            \/ result[k] = "processed" /\ result'[k] = "none" /\ payload'[k] = NoRequest
<1>1. PICK gone : gone \in {{}, Victims(result, rank)}
                  /\ Remove(gone, result, owner, payload, rank)
  BY DEF CrashRestart
<1> SUFFICES ASSUME NEW k \in Keys
             PROVE  \/ result'[k] = result[k] /\ owner'[k] = owner[k] /\ payload'[k] = payload[k]
                    \/ result[k] = "processed" /\ result'[k] = "none" /\ payload'[k] = NoRequest
  OBVIOUS
<1>2. CASE k \in gone
  BY <1>1, <1>2, VictimsSettled DEF Remove
<1>3. CASE k \notin gone
  BY <1>1, <1>3 DEF Remove
<1> QED
  BY <1>2, <1>3

LEMMA HoldsStep == TypeOK /\ HoldsItsRow /\ StoredResults /\ [Next]_vars => HoldsItsRow'
<1> SUFFICES ASSUME TypeOK, HoldsItsRow, StoredResults, [Next]_vars,
                    NEW r \in Requests, at'[r] \in Holding
             PROVE  /\ result'[Key(r)'] = "pending" /\ owner'[Key(r)'] = r
                    /\ payload'[Key(r)'] = NoRequest
  BY DEF HoldsItsRow
<1> DEFINE Held == /\ result'[Key(r)'] = "pending" /\ owner'[Key(r)'] = r
                   /\ payload'[Key(r)'] = NoRequest
<1> USE DEF reqVars, ledgerVars, hbVars
<1>1. ASSUME at[r] \in Holding, UNCHANGED <<result, owner, payload>> PROVE Held
  BY <1>1, Kept DEF HoldsItsRow, Holding
<1>2. ASSUME NEW q \in Requests,
             \/ Arrive(q) \/ DedupRefuses(q) \/ DedupPasses(q) \/ LedgerReplays(q)
             \/ LedgerRefuses(q) \/ WriteBlob(q) \/ EnqueueCore(q) \/ RegisterBlob(q)
             \/ LedgerRaises(q)
      PROVE  Held
  <2>1. UNCHANGED <<result, owner, payload>>
    BY <1>2 DEF Arrive, DedupRefuses, DedupPasses, LedgerReplays, LedgerRefuses, WriteBlob,
                EnqueueCore, RegisterBlob, LedgerRaises
  <2>2. at[r] \in Holding
    BY <1>2 DEF Arrive, DedupRefuses, DedupPasses, LedgerReplays, LedgerRefuses, WriteBlob,
                EnqueueCore, RegisterBlob, LedgerRaises, Goto, NextFile, Answer, Holding, TypeOK
  <2> QED
    BY <1>1, <2>1, <2>2
<1>3. ASSUME NEW q \in Requests, LedgerNew(q) PROVE Held
  <2>1. at[q] = "ledger" /\ at' = [at EXCEPT ![q] = "write"]
    BY <1>3 DEF LedgerNew, Goto
  <2>2. CASE r = q
    BY <1>3, <2>1, <2>2, InsertRows, Kept DEF StoredResults
  <2>3. CASE r # q
    <3>1. at[r] \in Holding
      BY <2>1, <2>3 DEF TypeOK
    <3>2. Key(r) \in Keys /\ result[Key(r)] = "pending" /\ Key(r)' = Key(r)
      BY <3>1, KeyType, Kept DEF HoldsItsRow, Holding
    <3> QED
      BY <1>3, <3>1, <3>2, InsertRows DEF HoldsItsRow
  <2> QED
    BY <2>2, <2>3
<1>4. ASSUME NEW q \in Requests, WriteFails(q) \/ MarkProcessed(q) PROVE Held
  <2>1. at[q] \in Holding /\ at' = [at EXCEPT ![q] = "over"]
    BY <1>4 DEF WriteFails, MarkProcessed, Answer, Holding
  <2>2. r # q /\ at[r] \in Holding
    BY <2>1 DEF TypeOK, Holding
  <2>3. Key(r) # Key(q) /\ Key(r)' = Key(r) /\ Key(r) \in Keys
    BY <2>1, <2>2, KeysApart, KeyType, Kept DEF Holding
  <2> QED
    BY <1>4, <2>2, <2>3 DEF WriteFails, MarkProcessed, HoldsItsRow, TypeOK
<1>5. ASSUME NEW k \in Keys, Age(k) PROVE Held
  BY <1>1, <1>5 DEF Age
<1>6. CASE CrashRestart
  BY <1>6 DEF CrashRestart, InFlight, Holding, TypeOK
<1>7. CASE UNCHANGED vars
  BY <1>1, <1>7 DEF vars
<1> QED
  BY <1>2, <1>3, <1>4, <1>5, <1>6, <1>7, StepCases DEF Step

\* The part of Progress about one request, and the blobs it depends on.
ProgressOf(r) ==
    /\ at[r] # "over" => answer[r] = "none"
    /\ at[r] \in {"new", "dedup", "ledger"} =>
          r \notin queued /\ \A b \in blobs : b[1] # r
    /\ at[r] = "write" => r \notin queued /\ \A i \in 1..done[r] : <<r, i>> \in blobs
    /\ at[r] \in {"enqueue", "register", "mark"} => Committed(r)

\* The steps of other requests leave it alone.
LEMMA ProgressFrame ==
  ASSUME TypeOK, NEW r \in Requests, ProgressOf(r),
         at'[r] = at[r], answer'[r] = answer[r], done'[r] = done[r], files'[r] = files[r],
         r \in queued' => r \in queued,
         \A i \in Nat : <<r, i>> \in blobs' <=> <<r, i>> \in blobs,
         blobs' \subseteq Requests \X Nat
  PROVE  ProgressOf(r)'
<1>1. \A b \in blobs' : b[1] = r => b \in blobs
  BY DEF TypeOK
<1>2. Committed(r) => Committed(r)'
  <2>1. files[r] \in Uploads \/ files[r] = <<>>
    BY DEF TypeOK
  <2>2. files[r] \in Uploads => \A i \in DOMAIN files[r] : i \in Nat
    BY UploadFacts
  <2>3. files[r] = <<>> => DOMAIN files[r] = {}
    OBVIOUS
  <2> QED
    BY <2>1, <2>2, <2>3 DEF Committed
<1>3. done[r] \in Nat
  BY DEF TypeOK
<1> QED
  BY <1>1, <1>2, <1>3 DEF ProgressOf

LEMMA ProgressStep == TypeOK /\ FilesLeft /\ Progress /\ [Next]_vars => Progress'
<1> SUFFICES ASSUME TypeOK, FilesLeft, Progress, [Next]_vars, NEW r \in Requests
             PROVE  ProgressOf(r)'
  BY DEF Progress, ProgressOf
<1> USE DEF reqVars, ledgerVars, hbVars
<1>1. ProgressOf(r)
  BY DEF Progress, ProgressOf
<1>2. TypeOK'
  BY TypeStep
<1>3. ASSUME NEW q \in Requests, q # r, Arrive(q) PROVE ProgressOf(r)'
  BY <1>1, <1>2, <1>3, ProgressFrame DEF Arrive, TypeOK
<1>4. ASSUME NEW q \in Requests, q # r, Step(q) PROVE ProgressOf(r)'
  <2>1. /\ at'[r] = at[r] /\ answer'[r] = answer[r] /\ done'[r] = done[r]
        /\ files'[r] = files[r]
    BY <1>4 DEF Step, DedupRefuses, DedupPasses, LedgerNew, LedgerReplays, LedgerRefuses,
                WriteBlob, WriteFails, EnqueueCore, RegisterBlob, MarkProcessed, LedgerRaises,
                Goto, NextFile, Answer, TypeOK
  <2>2. r \in queued' => r \in queued
    BY <1>4 DEF Step, DedupRefuses, DedupPasses, LedgerNew, LedgerReplays, LedgerRefuses,
                WriteBlob, WriteFails, EnqueueCore, RegisterBlob, MarkProcessed, LedgerRaises
  <2>3. \A i \in Nat : <<r, i>> \in blobs' <=> <<r, i>> \in blobs
    BY <1>4 DEF Step, DedupRefuses, DedupPasses, LedgerNew, LedgerReplays, LedgerRefuses,
                WriteBlob, WriteFails, EnqueueCore, RegisterBlob, MarkProcessed, LedgerRaises
  <2> QED
    BY <1>1, <1>2, <2>1, <2>2, <2>3, ProgressFrame DEF TypeOK
<1>5. CASE Arrive(r)
  BY <1>1, <1>5 DEF Arrive, ProgressOf, TypeOK
<1>6. CASE DedupRefuses(r) \/ LedgerRefuses(r) \/ WriteFails(r) \/ MarkProcessed(r)
           \/ LedgerRaises(r) \/ LedgerReplays(r)
  <2>1. at'[r] = "over"
    BY <1>6 DEF DedupRefuses, LedgerRefuses, WriteFails, MarkProcessed, LedgerRaises,
                LedgerReplays, Answer, TypeOK
  <2> QED
    BY <2>1 DEF ProgressOf
<1>7. CASE DedupPasses(r)
  BY <1>1, <1>7 DEF DedupPasses, NextFile, Goto, ProgressOf, TypeOK
<1>8. CASE LedgerNew(r)
  <2>1. /\ at'[r] = "write" /\ done'[r] = 0 /\ answer'[r] = answer[r]
        /\ at[r] = "ledger" /\ UNCHANGED <<queued, blobs>>
    BY <1>8 DEF LedgerNew, Goto, TypeOK
  <2> QED
    BY <1>1, <2>1 DEF ProgressOf
<1>9. CASE WriteBlob(r)
  <2>1. /\ at[r] = "write" /\ UNCHANGED <<queued, answer, files>>
        /\ blobs' = blobs \cup {<<r, done[r] + 1>>} /\ NextFile(r, "enqueue")
    BY <1>9 DEF WriteBlob, NextFile, Goto
  <2>2. \A i \in 1..(done[r] + 1) : <<r, i>> \in blobs'
    BY <1>1, <2>1 DEF ProgressOf, TypeOK
  <2>3. DOMAIN files[r] = 1..Len(files[r]) /\ Len(files[r]) \in Nat /\ done[r] \in Nat
    BY <2>1, UploadFacts DEF TypeOK
  <2>4. CASE done[r] + 1 = Len(files[r])
    <3>1. at'[r] = "enqueue" /\ Committed(r)'
      BY <2>1, <2>2, <2>3, <2>4 DEF NextFile, Goto, Committed, TypeOK
    <3> QED
      BY <1>1, <2>1, <3>1 DEF ProgressOf
  <2>5. CASE done[r] + 1 # Len(files[r])
    <3>1. at'[r] = "write" /\ done'[r] = done[r] + 1
      BY <2>1, <2>5 DEF NextFile, TypeOK
    <3> QED
      BY <1>1, <2>1, <2>2, <3>1 DEF ProgressOf
  <2> QED
    BY <2>4, <2>5
<1>10. CASE EnqueueCore(r) \/ RegisterBlob(r)
  <2>1. /\ at[r] \in {"enqueue", "register"} /\ at'[r] \in {"register", "mark"}
        /\ UNCHANGED <<answer, files, blobs>>
    BY <1>10 DEF EnqueueCore, RegisterBlob, NextFile, Goto, TypeOK
  <2> QED
    BY <1>1, <2>1 DEF ProgressOf, Committed
<1>11. ASSUME NEW k \in Keys, Age(k) PROVE ProgressOf(r)'
  BY <1>1, <1>11 DEF Age, ProgressOf, Committed
<1>12. CASE CrashRestart
  <2>1. at'[r] = "over" \/ (at'[r] = at[r] /\ answer'[r] = answer[r])
    BY <1>12 DEF CrashRestart, TypeOK
  <2> QED
    BY <1>1, <1>12, <2>1 DEF CrashRestart, ProgressOf, Committed
<1>13. CASE UNCHANGED vars
  BY <1>1, <1>13 DEF vars, ProgressOf, Committed
<1> QED
  BY <1>3, <1>4, <1>5, <1>6, <1>7, <1>8, <1>9, <1>10, <1>11, <1>12, <1>13, StepCases DEF Step

\* A request's answer is given once.
LEMMA AnswersStay ==
  ASSUME TypeOK, Progress, [Next]_vars, NEW r \in Requests, answer[r] # "none"
  PROVE  at[r] = "over" /\ answer'[r] = answer[r] /\ replayOf'[r] = replayOf[r]
<1> USE DEF reqVars, ledgerVars, hbVars
<1>1. at[r] = "over"
  BY DEF Progress
<1>2. ASSUME NEW q \in Requests, Arrive(q) \/ Step(q)
      PROVE  answer'[r] = answer[r] /\ replayOf'[r] = replayOf[r]
  BY <1>1, <1>2
     DEF Arrive, Step, DedupRefuses, DedupPasses, LedgerNew, LedgerReplays, LedgerRefuses,
         WriteBlob, WriteFails, EnqueueCore, RegisterBlob, MarkProcessed, LedgerRaises,
         Goto, NextFile, Answer, TypeOK
<1>3. ASSUME NEW k \in Keys, Age(k)
      PROVE  answer'[r] = answer[r] /\ replayOf'[r] = replayOf[r]
  BY <1>3 DEF Age
<1>4. CASE CrashRestart
  BY <1>1, <1>4 DEF CrashRestart, InFlight, Holding, TypeOK
<1>5. CASE UNCHANGED vars
  BY <1>1, <1>5 DEF vars
<1> QED
  BY <1>1, <1>2, <1>3, <1>4, <1>5, StepCases

LEMMA CommitStep == TypeOK /\ Progress /\ CommitPoint /\ [Next]_vars => CommitPoint'
<1> SUFFICES ASSUME TypeOK, Progress, CommitPoint, [Next]_vars, NEW r \in Requests,
                    r \in queued' \/ answer'[r] = "ingested"
             PROVE  Committed(r)'
  BY DEF CommitPoint
<1> USE DEF reqVars, ledgerVars, hbVars
<1>1. at[r] # "new" /\ Committed(r) => Committed(r)'
  BY Kept
<1>2. CASE r \in queued \/ answer[r] = "ingested"
  <2>1. at[r] # "new"
    BY <1>2 DEF Progress
  <2> QED
    BY <1>1, <1>2, <2>1 DEF CommitPoint
<1>3. CASE r \notin queued /\ answer[r] # "ingested"
  <2>1. ASSUME NEW q \in Requests, Arrive(q) \/ Step(q)
        PROVE  q = r /\ (EnqueueCore(q) \/ MarkProcessed(q))
    BY <1>3, <2>1
       DEF Arrive, Step, DedupRefuses, DedupPasses, LedgerNew, LedgerReplays, LedgerRefuses,
           WriteBlob, WriteFails, EnqueueCore, RegisterBlob, MarkProcessed, LedgerRaises,
           Goto, NextFile, Answer, TypeOK
  <2>2. ASSUME NEW k \in Keys, Age(k) PROVE FALSE
    BY <1>3, <2>2 DEF Age
  <2>3. ASSUME CrashRestart PROVE FALSE
    BY <1>3, <2>3 DEF CrashRestart, TypeOK
  <2>4. ASSUME UNCHANGED vars PROVE FALSE
    BY <1>3, <2>4 DEF vars
  <2>5. at[r] \in {"enqueue", "mark"}
    BY <2>1, <2>2, <2>3, <2>4, StepCases DEF EnqueueCore, MarkProcessed
  <2> QED
    BY <1>1, <2>5 DEF Progress
<1> QED
  BY <1>2, <1>3

\* The part of StoredResults about one row.
StoredOf(k) ==
    /\ result[k] = "processed" <=> payload[k] # NoRequest
    /\ payload[k] # NoRequest =>
          answer[payload[k]] = "ingested" /\ Key(payload[k]) = k

LEMMA StoredStep ==
  TypeOK /\ Progress /\ HoldsItsRow /\ StoredResults /\ [Next]_vars => StoredResults'
<1> SUFFICES ASSUME TypeOK, Progress, HoldsItsRow, StoredResults, [Next]_vars, NEW k \in Keys
             PROVE  StoredOf(k)'
  BY DEF StoredResults, StoredOf
<1> USE DEF reqVars, ledgerVars, hbVars
<1> DEFINE Good == StoredOf(k)'
<1>1. ASSUME payload'[k] = payload[k],
             result'[k] = "processed" <=> result[k] = "processed"
      PROVE  Good
  <2>1. CASE payload[k] = NoRequest
    BY <1>1, <2>1 DEF StoredResults, StoredOf
  <2>2. CASE payload[k] # NoRequest
    <3>1. PICK p \in Requests : p = payload[k] /\ answer[p] = "ingested" /\ Key(p) = k
      BY <2>2 DEF StoredResults, TypeOK
    <3>2. at[p] = "over" /\ answer'[p] = "ingested"
      BY <3>1, AnswersStay
    <3>3. Key(p)' = k
      BY <3>1, <3>2, Kept
    <3>4. payload'[k] = p /\ result'[k] = "processed"
      BY <1>1, <2>2, <3>1 DEF StoredResults
    <3> QED
      BY <2>2, <3>1, <3>2, <3>3, <3>4 DEF StoredOf, Key
  <2> QED
    BY <2>1, <2>2
<1>2. ASSUME NEW q \in Requests,
             \/ Arrive(q) \/ DedupRefuses(q) \/ DedupPasses(q) \/ LedgerReplays(q)
             \/ LedgerRefuses(q) \/ WriteBlob(q) \/ EnqueueCore(q) \/ RegisterBlob(q)
             \/ LedgerRaises(q)
      PROVE  Good
  <2>1. UNCHANGED <<result, payload>>
    BY <1>2 DEF Arrive, DedupRefuses, DedupPasses, LedgerReplays, LedgerRefuses, WriteBlob,
                EnqueueCore, RegisterBlob, LedgerRaises
  <2> QED
    BY <1>1, <2>1
<1>3. ASSUME NEW q \in Requests, LedgerNew(q) PROVE Good
  BY <1>1, <1>3, InsertRows DEF StoredResults, StoredOf
<1>4. ASSUME NEW q \in Requests, WriteFails(q) PROVE Good
  <2>1. at[q] = "write" /\ UNCHANGED payload
        /\ result' \in {result, [result EXCEPT ![Key(q)] = "error"]}
    BY <1>4 DEF WriteFails
  <2>2. k = Key(q) => result[k] = "pending"
    BY <2>1 DEF HoldsItsRow, Holding
  <2>3. result'[k] = "processed" <=> result[k] = "processed"
    BY <2>1, <2>2 DEF TypeOK
  <2> QED
    BY <1>1, <2>1, <2>3
<1>5. ASSUME NEW q \in Requests, MarkProcessed(q) PROVE Good
  <2>1. /\ at[q] = "mark" /\ result' = [result EXCEPT ![Key(q)] = "processed"]
        /\ payload' = [payload EXCEPT ![Key(q)] = q] /\ Answer(q, "ingested")
    BY <1>5 DEF MarkProcessed
  <2>2. CASE k = Key(q)
    <3>1. result'[k] = "processed" /\ payload'[k] = q /\ answer'[q] = "ingested"
      BY <2>1, <2>2 DEF TypeOK, Answer
    <3>2. Key(q)' = k
      BY <2>1, <2>2, Kept
    <3> QED
      BY <3>1, <3>2, IngestConstants DEF StoredOf, Key
  <2>3. CASE k # Key(q)
    BY <1>1, <2>1, <2>3 DEF TypeOK
  <2> QED
    BY <2>2, <2>3
<1>6. ASSUME NEW j \in Keys, Age(j) PROVE Good
  BY <1>1, <1>6 DEF Age
<1>7. CASE CrashRestart
  BY <1>1, <1>7, RestartRows DEF StoredResults, StoredOf
<1>8. CASE UNCHANGED vars
  BY <1>1, <1>8 DEF vars
<1> QED
  BY <1>2, <1>3, <1>4, <1>5, <1>6, <1>7, <1>8, StepCases DEF Step

\* The part of ReplaySound about one request.
ReplayOf(r) ==
    LET p == replayOf[r] IN
    /\ p \in Requests \ {r}
    /\ answer[p] = "ingested"
    /\ tenant[p] = tenant[r]
    /\ files[p][1] = files[r][1]
    /\ Committed(p)

LEMMA ReplayStep ==
  TypeOK /\ Progress /\ CommitPoint /\ StoredResults /\ ReplaySound /\ [Next]_vars => ReplaySound'
<1> SUFFICES ASSUME TypeOK, Progress, CommitPoint, StoredResults, ReplaySound, [Next]_vars,
                    NEW r \in Requests, answer'[r] = "replayed"
             PROVE  ReplayOf(r)'
  BY DEF ReplaySound, ReplayOf
<1> USE DEF reqVars, ledgerVars, hbVars
<1>1. ASSUME NEW p \in Requests \ {r}, replayOf'[r] = p, at[r] # "new",
             answer[p] = "ingested", tenant[p] = tenant[r], files[p][1] = files[r][1]
      PROVE  ReplayOf(r)'
  <2>1. at[p] = "over" /\ answer'[p] = "ingested" /\ Committed(p)
    BY <1>1, AnswersStay DEF CommitPoint
  <2>2. /\ tenant'[p] = tenant'[r] /\ files'[p][1] = files'[r][1] /\ Committed(p)'
    BY <1>1, <2>1, Kept
  <2> QED
    BY <1>1, <2>1, <2>2 DEF ReplayOf, Committed
<1>2. CASE answer[r] = "replayed"
  <2>1. at[r] = "over" /\ replayOf'[r] = replayOf[r]
    BY <1>2, AnswersStay
  <2> QED
    BY <1>1, <1>2, <2>1 DEF ReplaySound, ReplayOf
<1>3. CASE answer[r] # "replayed"
  <2>1. ASSUME NEW q \in Requests, Arrive(q) \/ Step(q) PROVE q = r /\ LedgerReplays(r)
    BY <1>3, <2>1
       DEF Arrive, Step, DedupRefuses, DedupPasses, LedgerNew, LedgerReplays, LedgerRefuses,
           WriteBlob, WriteFails, EnqueueCore, RegisterBlob, MarkProcessed, LedgerRaises,
           Goto, NextFile, Answer, TypeOK
  <2>2. ASSUME NEW k \in Keys, Age(k) PROVE FALSE
    BY <1>3, <2>2 DEF Age
  <2>3. ASSUME CrashRestart PROVE FALSE
    BY <1>3, <2>3 DEF CrashRestart, TypeOK
  <2>4. ASSUME UNCHANGED vars PROVE FALSE
    BY <1>3, <2>4 DEF vars
  <2>5. LedgerReplays(r)
    BY <2>1, <2>2, <2>3, <2>4, StepCases
  <2>6. /\ at[r] = "ledger" /\ Key(r) \in Keys /\ payload[Key(r)] # NoRequest
        /\ replayOf'[r] = payload[Key(r)]
    BY <2>5, KeyType DEF LedgerReplays, TypeOK
  <2>7. PICK p \in Requests :
             p = payload[Key(r)] /\ answer[p] = "ingested" /\ Key(p) = Key(r)
    BY <2>6 DEF StoredResults, TypeOK
  <2>8. p # r
    BY <2>6, <2>7 DEF Progress
  <2>9. tenant[p] = tenant[r] /\ files[p][1] = files[r][1]
    BY <2>7 DEF Key
  <2> QED
    BY <1>1, <2>6, <2>7, <2>8, <2>9
<1> QED
  BY <1>2, <1>3

LEMMA TraceStep ==
  TypeOK /\ Progress /\ HoldsItsRow /\ TraceSurvives /\ [Next]_vars => TraceSurvives'
<1> SUFFICES ASSUME TypeOK, Progress, HoldsItsRow, TraceSurvives, [Next]_vars,
                    NEW r \in Requests, \E i \in DOMAIN files'[r] : <<r, i>> \in blobs',
                    answer'[r] # "ingested"
             PROVE  owner'[Key(r)'] = r /\ result'[Key(r)'] \in {"pending", "error"}
  BY DEF TraceSurvives
<1> USE DEF reqVars, ledgerVars, hbVars
<1> DEFINE Traced == owner'[Key(r)'] = r /\ result'[Key(r)'] \in {"pending", "error"}
<1>1. CASE \E i \in DOMAIN files[r] : <<r, i>> \in blobs
  <2>1. at[r] # "new"
    BY <1>1 DEF Progress
  <2>2. answer[r] # "ingested"
    BY AnswersStay
  <2>3. owner[Key(r)] = r /\ result[Key(r)] \in {"pending", "error"}
    BY <1>1, <2>2 DEF TraceSurvives
  <2>4. Key(r) \in Keys /\ Key(r)' = Key(r)
    BY <2>1, KeyType, Kept
  <2>5. ASSUME UNCHANGED <<result, owner>> PROVE Traced
    BY <2>3, <2>4, <2>5
  <2>6. ASSUME NEW q \in Requests,
               \/ Arrive(q) \/ DedupRefuses(q) \/ DedupPasses(q) \/ LedgerReplays(q)
               \/ LedgerRefuses(q) \/ WriteBlob(q) \/ EnqueueCore(q) \/ RegisterBlob(q)
               \/ LedgerRaises(q)
        PROVE  Traced
    BY <2>5, <2>6 DEF Arrive, DedupRefuses, DedupPasses, LedgerReplays, LedgerRefuses,
                      WriteBlob, EnqueueCore, RegisterBlob, LedgerRaises
  <2>7. ASSUME NEW q \in Requests, LedgerNew(q) PROVE Traced
    BY <2>3, <2>4, <2>7, InsertRows
  <2>8. ASSUME NEW q \in Requests, WriteFails(q) PROVE Traced
    BY <2>3, <2>4, <2>8 DEF WriteFails, TypeOK
  <2>9. ASSUME NEW q \in Requests, MarkProcessed(q) PROVE Traced
    <3>1. at[q] = "mark" /\ Answer(q, "ingested")
      BY <2>9 DEF MarkProcessed
    <3>2. q # r
      BY <3>1 DEF Answer, TypeOK
    <3>3. owner[Key(q)] = q
      BY <3>1 DEF HoldsItsRow, Holding
    <3>4. Key(q) # Key(r)
      BY <2>3, <3>2, <3>3
    <3> QED
      BY <2>3, <2>4, <2>9, <3>4 DEF MarkProcessed, TypeOK
  <2>10. ASSUME NEW k \in Keys, Age(k) PROVE Traced
    BY <2>5, <2>10 DEF Age
  <2>11. CASE CrashRestart
    BY <2>3, <2>4, <2>11, RestartRows
  <2>12. CASE UNCHANGED vars
    BY <2>5, <2>12 DEF vars
  <2> QED
    BY <2>6, <2>7, <2>8, <2>9, <2>10, <2>11, <2>12, StepCases DEF Step
<1>2. CASE ~ \E i \in DOMAIN files[r] : <<r, i>> \in blobs
  <2>1. ASSUME at[r] = "new" PROVE FALSE
    <3>1. \A b \in blobs : b[1] # r
      BY <2>1 DEF Progress
    <3>2. ASSUME NEW q \in Requests, Arrive(q) \/ (q # r /\ Step(q))
          PROVE  \A i \in Nat : <<r, i>> \in blobs' => <<r, i>> \in blobs
      BY <3>2 DEF Arrive, Step, DedupRefuses, DedupPasses, LedgerNew, LedgerReplays,
                  LedgerRefuses, WriteBlob, WriteFails, EnqueueCore, RegisterBlob,
                  MarkProcessed, LedgerRaises
    <3>3. ~ Step(r)
      BY <2>1 DEF Step, DedupRefuses, DedupPasses, LedgerNew, LedgerReplays, LedgerRefuses,
                  WriteBlob, WriteFails, EnqueueCore, RegisterBlob, MarkProcessed, LedgerRaises
    <3>4. (\E k \in Keys : Age(k)) \/ CrashRestart \/ UNCHANGED vars => blobs' = blobs
      BY DEF Age, CrashRestart, vars
    <3>5. \A i \in Nat : <<r, i>> \in blobs' => <<r, i>> \in blobs
      BY <3>2, <3>3, <3>4, StepCases
    <3>6. blobs' \subseteq Requests \X Nat
      <4>1. ASSUME NEW q \in Requests, Step(q) PROVE blobs' \subseteq Requests \X Nat
        BY <4>1 DEF TypeOK, Step, DedupRefuses, DedupPasses, LedgerNew, LedgerReplays,
                    LedgerRefuses, WriteBlob, WriteFails, EnqueueCore, RegisterBlob,
                    MarkProcessed, LedgerRaises
      <4>2. ASSUME NEW q \in Requests, Arrive(q) PROVE blobs' \subseteq Requests \X Nat
        BY <4>2 DEF Arrive, TypeOK
      <4> QED
        BY <3>4, <4>1, <4>2, StepCases DEF TypeOK
    <3> QED
      BY <3>1, <3>5, <3>6
  <2>2. files'[r] = files[r] /\ Key(r)' = Key(r) /\ Key(r) \in Keys
    BY <2>1, Kept, KeyType
  <2>3. ASSUME NEW q \in Requests, Arrive(q) \/ Step(q)
        PROVE  q = r /\ (WriteBlob(r) \/ WriteFails(r))
    BY <1>2, <2>2, <2>3
       DEF Arrive, Step, DedupRefuses, DedupPasses, LedgerNew, LedgerReplays, LedgerRefuses,
           WriteBlob, WriteFails, EnqueueCore, RegisterBlob, MarkProcessed, LedgerRaises
  <2>4. ASSUME \/ \E k \in Keys : Age(k)
               \/ CrashRestart
               \/ UNCHANGED vars
        PROVE  FALSE
    BY <1>2, <2>2, <2>4 DEF Age, CrashRestart, vars
  <2>5. WriteBlob(r) \/ WriteFails(r)
    BY <2>3, <2>4, StepCases
  <2>6. owner[Key(r)] = r /\ result[Key(r)] = "pending"
    BY <2>5 DEF WriteBlob, WriteFails, HoldsItsRow, Holding
  <2> QED
    BY <2>2, <2>5, <2>6 DEF WriteBlob, WriteFails, TypeOK
<1> QED
  BY <1>1, <1>2

-----------------------------------------------------------------------------
(***************************************************************************)
(* The inductive invariant and the theorems.                               *)
(***************************************************************************)

LEMMA IngestInit == Init => TypeOK /\ IngestInv
<1> SUFFICES ASSUME Init PROVE IngestInv
  BY TypeInit
<1>1. HoldsItsRow /\ TraceSurvives /\ CommitPoint /\ ReplaySound
  BY DEF Init, HoldsItsRow, Holding, TraceSurvives, CommitPoint, ReplaySound
<1>2. FilesLeft /\ Progress /\ StoredResults
  BY DEF Init, FilesLeft, Progress, StoredResults
<1> QED
  BY <1>1, <1>2 DEF IngestInv

LEMMA IngestStep == TypeOK /\ IngestInv /\ [Next]_vars => TypeOK' /\ IngestInv'
BY TypeStep, FilesStep, ProgressStep, HoldsStep, StoredStep, CommitStep, ReplayStep, TraceStep
   DEF IngestInv

LEMMA IngestAlways == Spec => [](TypeOK /\ IngestInv)
BY IngestInit, IngestStep, PTL DEF Spec

\* The inductive invariant of ingestion: who owns a row, what survives of a
\* request that broke off, when its commit point is passed, and what a replay
\* may say.
THEOREM IngestHolds == Spec => []IngestInv
BY IngestAlways, PTL

\* No two requests run the pipeline of one (tenant, first file) at the same
\* time, and no row is pruned under a pipeline.
THEOREM PipelineExclusive == Spec => []HoldsItsRow
<1>1. TypeOK /\ IngestInv => HoldsItsRow
  BY DEF IngestInv
<1> QED
  BY <1>1, IngestAlways, PTL

\* Stored blobs of a request that did not complete always have their row.
THEOREM TraceKept == Spec => []TraceSurvives
<1>1. TypeOK /\ IngestInv => TraceSurvives
  BY DEF IngestInv
<1> QED
  BY <1>1, IngestAlways, PTL

\* What the ledger does promise of copies.  Of two requests of one tenant with
\* the same first file that have both stored a file, one was carried out in
\* full and no longer has its row: nothing but a prune of a finished row lets
\* a first file be stored again.  (A file that is not the first of both may
\* be stored twice without one.)
Stored(r) == \E i \in DOMAIN files[r] : <<r, i>> \in blobs

CopiesNeedPrune ==
    \A p, r \in Requests : p # r /\ Stored(p) /\ Stored(r) /\ Key(p) = Key(r) =>
        \E q \in {p, r} : answer[q] = "ingested" /\ owner[Key(q)] # q

THEOREM FirstFileStoredOnce == Spec => []CopiesNeedPrune
<1>1. TraceSurvives => CopiesNeedPrune
  <2> SUFFICES ASSUME TraceSurvives, NEW p \in Requests, NEW r \in Requests, p # r,
                      Stored(p), Stored(r), Key(p) = Key(r)
               PROVE  \E q \in {p, r} : answer[q] = "ingested" /\ owner[Key(q)] # q
    BY DEF CopiesNeedPrune
  <2>1. PICK q \in {p, r} : owner[Key(q)] # q
    OBVIOUS
  <2>2. answer[q] = "ingested"
    BY <2>1 DEF TraceSurvives, Stored
  <2> QED
    BY <2>1, <2>2
<1> QED
  BY <1>1, TraceKept, PTL

\* Nobody is told of a request some of whose files are not stored.
THEOREM CommitPointHolds == Spec => []CommitPoint
<1>1. TypeOK /\ IngestInv => CommitPoint
  BY DEF IngestInv
<1> QED
  BY <1>1, IngestAlways, PTL

\* A replay returns what a completed request of the same tenant and first
\* file was answered.
THEOREM ReplaysAreSound == Spec => []ReplaySound
<1>1. TypeOK /\ IngestInv => ReplaySound
  BY DEF IngestInv
<1> QED
  BY <1>1, IngestAlways, PTL

LEMMA RowStep == TypeOK /\ IngestInv /\ [Next]_vars => RowSteps
<1> SUFFICES ASSUME TypeOK, HoldsItsRow, StoredResults, [Next]_vars PROVE RowSteps
  BY DEF IngestInv
<1> USE DEF reqVars, ledgerVars, hbVars
<1>1. ASSUME UNCHANGED <<result, owner, payload>> PROVE RowSteps
  BY <1>1 DEF RowSteps
<1>2. ASSUME NEW q \in Requests,
             \/ Arrive(q) \/ DedupRefuses(q) \/ DedupPasses(q) \/ LedgerReplays(q)
             \/ LedgerRefuses(q) \/ WriteBlob(q) \/ EnqueueCore(q) \/ RegisterBlob(q)
             \/ LedgerRaises(q)
      PROVE  RowSteps
  BY <1>1, <1>2 DEF Arrive, DedupRefuses, DedupPasses, LedgerReplays, LedgerRefuses,
                    WriteBlob, EnqueueCore, RegisterBlob, LedgerRaises
<1>3. ASSUME NEW q \in Requests, LedgerNew(q) PROVE RowSteps
  BY <1>3, InsertRows DEF RowSteps
<1>4. ASSUME NEW q \in Requests, WriteFails(q) \/ MarkProcessed(q) PROVE RowSteps
  <2>1. result[Key(q)] = "pending"
    BY <1>4 DEF WriteFails, MarkProcessed, HoldsItsRow, Holding
  <2> QED
    BY <1>4, <2>1 DEF WriteFails, MarkProcessed, RowSteps, TypeOK
<1>5. ASSUME NEW k \in Keys, Age(k) PROVE RowSteps
  BY <1>1, <1>5 DEF Age
<1>6. CASE CrashRestart
  BY <1>6, RestartRows DEF RowSteps
<1>7. CASE UNCHANGED vars
  BY <1>1, <1>7 DEF vars
<1> QED
  BY <1>2, <1>3, <1>4, <1>5, <1>6, <1>7, StepCases DEF Step

\* Unsettled rows are never pruned, errors are for ever, and a stored result
\* is never replaced.
THEOREM RowsLiveOn == Spec => RowLifecycle
BY IngestAlways, RowStep, PTL DEF Spec, RowLifecycle

-----------------------------------------------------------------------------
(***************************************************************************)
(* What a prune removes.                                                   *)
(***************************************************************************)

LEMMA KeysFinite == IsFiniteSet(Keys)
BY IngestConstants, FS_Product DEF Keys

\* Of some rows one is the oldest, or as old as any.
LEMMA Oldest ==
  ASSUME NEW S \in SUBSET Keys, S # {}, NEW rnk \in [Keys -> Nat]
  PROVE  \E j \in S : \A k \in S : rnk[j] <= rnk[k]
<1> DEFINE T == {rnk[k] : k \in S}
<1>1. T \subseteq Nat /\ T # {}
  OBVIOUS
<1>2. PICK x \in T : \A y \in T : ~ (<<y, x>> \in OpToRel(<, Nat))
  BY <1>1, WFMin, NatLessThanWellFounded
<1>3. \A y \in T : x <= y
  <2>1. \A y \in T : ~ (y < x)
    BY <1>1, <1>2 DEF OpToRel
  <2> QED
    BY <1>1, <2>1
<1> QED
  BY <1>3

\* The victims are as many as the table is too large by, or all that may go:
\* those older than the oldest row that stays are victims, and they are no
\* fewer than that.
LEMMA VictimsEnough ==
  ASSUME NEW res \in [Keys -> Results], NEW rnk \in [Keys -> Nat]
  PROVE  LET V    == Victims(res, rnk)
             kept == {k \in Keys \ V : res[k] = "processed"}
             rows == {k \in Keys : res[k] # "none"}
         IN  /\ kept = {} \/ Cardinality(rows \ V) <= MaxRows
             /\ \A k \in V \ old, j \in kept : rnk[k] < rnk[j]
<1> DEFINE V         == Victims(res, rnk)
           settled   == {k \in Keys : res[k] = "processed"}
           kept      == {k \in Keys \ V : res[k] = "processed"}
           rows      == {k \in Keys : res[k] # "none"}
           size      == Cardinality(rows)
           before(k) == {j \in settled : rnk[j] < rnk[k]}
<1>1. V = {k \in settled : k \in old \/ Cardinality(before(k)) + MaxRows < size}
  BY DEF Victims
<1>2. /\ MaxRows \in Nat /\ IsFiniteSet(rows) /\ size \in Nat /\ V \subseteq rows
      /\ IsFiniteSet(settled)
  <2>1. rows \in SUBSET Keys /\ settled \in SUBSET Keys /\ V \subseteq rows
    BY <1>1
  <2>2. IsFiniteSet(rows) /\ IsFiniteSet(settled)
    BY <2>1, KeysFinite, FS_Subset
  <2> HIDE DEF V, rows, settled
  <2> QED
    BY <2>1, <2>2, FS_CardinalityType, IngestConstants
<1>3. \A k \in Keys : IsFiniteSet(before(k)) /\ Cardinality(before(k)) \in Nat
  <2>1. \A k \in Keys : before(k) \in SUBSET settled
    OBVIOUS
  <2> HIDE DEF before, settled
  <2> QED
    BY <1>2, <2>1, FS_Subset, FS_CardinalityType
<1>4. ASSUME NEW j \in kept PROVE Cardinality(before(j)) + MaxRows >= size
  <2>1. j \in settled /\ j \notin V /\ Cardinality(before(j)) \in Nat
    BY <1>3
  <2>2. ~(Cardinality(before(j)) + MaxRows < size)
    BY <1>1, <2>1
  <2> HIDE DEF before, size
  <2> QED
    BY <1>2, <2>1, <2>2
<1>5. ASSUME kept # {} PROVE Cardinality(rows \ V) <= MaxRows
  <2>1. PICK j \in kept : \A k \in kept : rnk[j] <= rnk[k]
    BY <1>5, Oldest
  <2>2. before(j) \subseteq V
    BY <2>1
  <2>3. IsFiniteSet(V) /\ Cardinality(before(j)) <= Cardinality(V) /\ Cardinality(V) \in Nat
    BY <1>2, <2>2, FS_Subset, FS_CardinalityType
  <2>4. Cardinality(rows \ V) = size - Cardinality(V)
    <3>1. rows \cap V = V
      BY <1>2
    <3> QED
      BY <1>2, <3>1, FS_Difference
  <2> HIDE DEF V, kept, rows, size, before
  <2>5. Cardinality(before(j)) + MaxRows >= size
    BY <1>4, <2>1
  <2>6. Cardinality(before(j)) \in Nat
    BY <1>3, <2>1 DEF kept
  <2> QED
    BY <1>2, <2>3, <2>4, <2>5, <2>6
<1>6. ASSUME NEW k \in V \ old, NEW j \in kept PROVE rnk[k] < rnk[j]
  <2>1. Cardinality(before(k)) + MaxRows < size /\ Cardinality(before(j)) + MaxRows >= size
    BY <1>1, <1>4, <1>6
  <2>2. k \in Keys /\ j \in Keys
    BY <1>1, <1>6
  <2>3. SUFFICES ASSUME rnk[j] <= rnk[k] PROVE FALSE
    BY <2>2
  <2>4. before(j) \subseteq before(k)
    BY <2>2, <2>3
  <2>5. Cardinality(before(j)) <= Cardinality(before(k))
    BY <1>3, <2>2, <2>4, FS_Subset
  <2>6. Cardinality(before(j)) \in Nat /\ Cardinality(before(k)) \in Nat
    BY <1>3, <2>2
  <2> HIDE DEF before, size
  <2> QED
    BY <1>2, <2>1, <2>5, <2>6
<1> QED
  BY <1>5, <1>6

\* A prune of the rows as they are, or with one that was just inserted.
LEMMA PruneRows ==
  ASSUME TypeOK, NEW res \in [Keys -> Results], NEW rnk \in [Keys -> Nat], NEW own, NEW pay,
         \A k \in Keys : \/ res[k] = result[k] /\ rnk[k] = rank[k]
                         \/ result[k] = "none" /\ res[k] = "pending",
         NEW gone \in {{}, Victims(res, rnk)}, Remove(gone, res, own, pay, rnk)
  PROVE  PruneStep
<1>1. CASE gone = {}
  <2>1. \A k \in Keys : result[k] # "none" => result'[k] # "none"
    BY <1>1 DEF Remove
  <2> QED
    BY <2>1 DEF PruneStep
<1>2. CASE gone = Victims(res, rnk)
  <2> DEFINE V == Victims(res, rnk)
  <2>1. \A k \in Keys : result'[k] = IF k \in V THEN "none" ELSE res[k]
    BY <1>2 DEF Remove
  <2>2. {k \in Keys : result'[k] = "processed"} = {k \in Keys \ V : res[k] = "processed"}
    BY <2>1
  <2>3. {k \in Keys : result'[k] # "none"} = {k \in Keys : res[k] # "none"} \ V
    BY <2>1
  <2>4. \A k \in {i \in Keys : result[i] # "none" /\ result'[i] = "none"} : k \in V /\ rnk[k] = rank[k]
    BY <2>1
  <2>5. \A j \in {k \in Keys \ V : res[k] = "processed"} : rnk[j] = rank[j]
    OBVIOUS
  <2>6. /\ {k \in Keys \ V : res[k] = "processed"} = {} \/ Cardinality({k \in Keys : res[k] # "none"} \ V) <= MaxRows
        /\ \A k \in V \ old, j \in {i \in Keys \ V : res[i] = "processed"} : rnk[k] < rnk[j]
    BY VictimsEnough
  <2> HIDE DEF V
  <2> QED
    BY <2>2, <2>3, <2>4, <2>5, <2>6 DEF PruneStep
<1> QED
  BY <1>1, <1>2

LEMMA PruneSteps == TypeOK /\ IngestInv /\ [Next]_vars => PruneStep
<1> SUFFICES ASSUME TypeOK, HoldsItsRow, [Next]_vars PROVE PruneStep
  BY DEF IngestInv
<1> USE DEF reqVars, ledgerVars, hbVars
<1>1. ASSUME \A k \in Keys : result[k] # "none" => result'[k] # "none" PROVE PruneStep
  BY <1>1 DEF PruneStep
<1>2. ASSUME NEW q \in Requests,
             \/ Arrive(q) \/ DedupRefuses(q) \/ DedupPasses(q) \/ LedgerReplays(q)
             \/ LedgerRefuses(q) \/ WriteBlob(q) \/ EnqueueCore(q) \/ RegisterBlob(q)
             \/ LedgerRaises(q)
      PROVE  PruneStep
  BY <1>1, <1>2 DEF Arrive, DedupRefuses, DedupPasses, LedgerReplays, LedgerRefuses,
                    WriteBlob, EnqueueCore, RegisterBlob, LedgerRaises
<1>3. ASSUME NEW q \in Requests, LedgerNew(q) PROVE PruneStep
  <2> DEFINE kr  == Key(q)
             res == [result EXCEPT ![kr] = "pending"]
             rnk == [rank EXCEPT ![kr] = inserts + 1]
  <2>1. kr \in Keys /\ result[kr] = "none"
    BY <1>3, InsertRows
  <2>2. res \in [Keys -> Results] /\ rnk \in [Keys -> Nat]
    BY <2>1 DEF TypeOK, Results
  <2>3. \A k \in Keys : \/ res[k] = result[k] /\ rnk[k] = rank[k]
                        \/ result[k] = "none" /\ res[k] = "pending"
    BY <2>1 DEF TypeOK
  <2>4. PICK gone \in {{}, Victims(res, rnk)} :
                Remove(gone, res, [owner EXCEPT ![kr] = q], payload, rnk)
    BY <1>3 DEF LedgerNew
  <2> HIDE DEF res, rnk
  <2> QED
    BY <2>2, <2>3, <2>4, PruneRows
<1>4. ASSUME NEW q \in Requests, WriteFails(q) \/ MarkProcessed(q) PROVE PruneStep
  <2>1. \A k \in Keys : result[k] # "none" => result'[k] # "none"
    BY <1>4 DEF WriteFails, MarkProcessed, TypeOK
  <2> QED
    BY <1>1, <2>1
<1>5. ASSUME NEW k \in Keys, Age(k) PROVE PruneStep
  BY <1>1, <1>5 DEF Age
<1>6. CASE CrashRestart
  <2>1. PICK gone \in {{}, Victims(result, rank)} : Remove(gone, result, owner, payload, rank)
    BY <1>6 DEF CrashRestart
  <2>2. result \in [Keys -> Results] /\ rank \in [Keys -> Nat]
    BY DEF TypeOK
  <2> QED
    BY <2>1, <2>2, PruneRows
<1>7. CASE UNCHANGED vars
  BY <1>1, <1>7 DEF vars
<1> QED
  BY <1>2, <1>3, <1>4, <1>5, <1>6, <1>7, StepCases DEF Step

\* Whatever rows there are and in whatever order they came: a prune that
\* removes anything brings the ledger under MaxRows if it can, and removes no
\* row for its size that is younger than a processed row it keeps.
THEOREM PrunesKeepNewest == Spec => PruneKeepsNewest
BY IngestAlways, PruneSteps, PTL DEF Spec, PruneKeepsNewest

=============================================================================
