-------------------------- MODULE CoreQueueProofs --------------------------
(***************************************************************************)
(* Proofs about CoreQueue, for every set of entries, callers and scanners  *)
(* and every value of the bounds.                                          *)
(***************************************************************************)
EXTENDS CoreQueue, FiniteSetTheorems, TLAPS


\* Every step is one of the actions of the enqueue handler, of a scanner or
\* of the clock.
LEMMA StepCases ==
  ASSUME Next
  PROVE  \/ \E c \in Callers : EnqueueCheck(c) \/ EnqueueConflict(c) \/ EnqueueInsert(c)
         \/ \E s \in Scanners :
              \/ TickSelect(s) \/ TickRelease(s) \/ TickDone(s)
              \/ ClaimEntry(s) \/ ClaimRaises(s) \/ CompleteEntry(s) \/ WorkRaises(s)
              \/ PublishProcessed(s) \/ FailEntry(s) \/ FailRaises(s)
              \/ RecoverStale(s) \/ RecoverRaises(s) \/ Crash(s) \/ Restart(s)
         \/ \E e \in Entries : Age(e)
BY DEF Next, Enqueue, Process, Loop

\* The rows are finitely many, so the rank given to a new row is a number.
LEMMA RowsCount == Cardinality(Rows) \in Nat
<1>1. Rows \subseteq Entries
  BY DEF Rows
<1>2. IsFiniteSet(Rows)
  BY <1>1, FS_Subset, ConstantsOK
<1> QED
  BY <1>2, FS_CardinalityType

LEMMA TypeInit == Init => TypeOK
BY ConstantsOK DEF Init, TypeOK, CallPC, ScanPC, Status, Terminal

LEMMA TypeStep == TypeOK /\ [Next]_vars => TypeOK'
<1> SUFFICES ASSUME TypeOK, [Next]_vars PROVE TypeOK'
  OBVIOUS
<1> USE DEF TypeOK, Status, Terminal, CallPC, ScanPC, rowVars, callVars, scanVars,
            histVars, Goto, Take, Drop
<1>1. ASSUME NEW c \in Callers, EnqueueCheck(c) \/ EnqueueConflict(c) PROVE TypeOK'
  BY <1>1 DEF EnqueueCheck, EnqueueConflict
<1>2. ASSUME NEW c \in Callers, EnqueueInsert(c) PROVE TypeOK'
  <2>1. created' \in [Entries -> Nat]
    <3>1. Cardinality(Rows) + 1 \in Nat
      BY RowsCount
    <3> QED
      BY <1>2, <3>1 DEF EnqueueInsert
  <2>2. status' \in [Entries -> Status] /\ call' \in [Callers -> CallPC]
    BY <1>2 DEF EnqueueInsert
  <2> QED
    BY <1>2, <2>1, <2>2 DEF EnqueueInsert
<1>3. ASSUME NEW s \in Scanners, TickSelect(s) \/ TickRelease(s) \/ TickDone(s) PROVE TypeOK'
  BY <1>3 DEF TickSelect, TickRelease, TickDone
<1>4. ASSUME NEW s \in Scanners, ClaimEntry(s) PROVE TypeOK'
  <2>1. PICK e \in Entries : ClaimEntry(s)!2!(e)
    BY <1>4 DEF ClaimEntry
  <2>2. runs' \in [Entries -> Nat]
    BY <2>1
  <2>3. status' \in [Entries -> Status] /\ stale' \in [Entries -> BOOLEAN]
    BY <2>1
  <2>4. pc' \in [Scanners -> ScanPC]
    BY <2>1
  <2>5. todo' \in [Scanners -> SUBSET Entries] /\ cur' \in [Scanners -> Entries \cup {NoEntry}]
    BY <2>1
  <2> QED
    BY <1>4, <2>2, <2>3, <2>4, <2>5 DEF ClaimEntry
<1>5. ASSUME NEW s \in Scanners, ClaimRaises(s) PROVE TypeOK'
  BY <1>5 DEF ClaimRaises
<1>6. ASSUME NEW s \in Scanners, CompleteEntry(s) \/ WorkRaises(s) PROVE TypeOK'
  BY <1>6 DEF CompleteEntry, WorkRaises
<1>7. ASSUME NEW s \in Scanners, PublishProcessed(s) PROVE TypeOK'
  <2>1. published' \in [Entries -> Nat]
    <3>1. published' = [e \in Entries |-> IF e = cur[s] THEN published[e] + 1 ELSE published[e]]
      BY <1>7 DEF PublishProcessed
    <3> QED
      BY <3>1
  <2>2. pc' \in [Scanners -> ScanPC] /\ cur' \in [Scanners -> Entries \cup {NoEntry}]
    BY <1>7 DEF PublishProcessed
  <2> QED
    BY <1>7, <2>1, <2>2 DEF PublishProcessed
<1>8. ASSUME NEW s \in Scanners, FailEntry(s) \/ FailRaises(s) PROVE TypeOK'
  BY <1>8 DEF FailEntry, FailRaises
<1>9. ASSUME NEW s \in Scanners, RecoverStale(s) \/ RecoverRaises(s) PROVE TypeOK'
  BY <1>9 DEF RecoverStale, RecoverRaises
<1>10. ASSUME NEW s \in Scanners, Crash(s) PROVE TypeOK'
  BY <1>10, ConstantsOK DEF Crash
<1>11. ASSUME NEW s \in Scanners, Restart(s) PROVE TypeOK'
  BY <1>11 DEF Restart
<1>12. ASSUME NEW e \in Entries, Age(e) PROVE TypeOK'
  BY <1>12 DEF Age
<1>13. CASE UNCHANGED vars
  BY <1>13 DEF vars
<1> QED
  BY <1>1, <1>2, <1>3, <1>4, <1>5, <1>6, <1>7, <1>8, <1>9, <1>10, <1>11, <1>12, <1>13, StepCases

\* The state of the queue, its callers and its scanners keeps its type.
THEOREM TypeCorrect == Spec => []TypeOK
BY TypeInit, TypeStep, PTL DEF Spec

-----------------------------------------------------------------------------
(***************************************************************************)
(* POST /enqueue, whatever the scanners do.                                *)
(***************************************************************************)

\* No step makes a row disappear or come back as if it had never existed.
LEMMA RowsGrow == TypeOK /\ [Next]_vars => Rows \subseteq Rows'
<1> SUFFICES ASSUME TypeOK, [Next]_vars, NEW e \in Entries, status[e] # "none"
             PROVE  status'[e] # "none"
  BY DEF Rows
<1> USE DEF TypeOK, rowVars
<1>1. ASSUME NEW c \in Callers, EnqueueCheck(c) \/ EnqueueConflict(c) \/ EnqueueInsert(c)
      PROVE  status'[e] # "none"
  BY <1>1 DEF EnqueueCheck, EnqueueConflict, EnqueueInsert, Rows
<1>2. ASSUME NEW s \in Scanners, ClaimEntry(s) \/ CompleteEntry(s) \/ FailEntry(s)
      PROVE  status'[e] # "none"
  BY <1>2 DEF ClaimEntry, CompleteEntry, FailEntry
<1>3. ASSUME NEW s \in Scanners, RecoverStale(s)
      PROVE  status'[e] # "none"
  BY <1>3 DEF RecoverStale
<1>4. ASSUME NEW s \in Scanners,
             \/ TickSelect(s) \/ TickRelease(s) \/ TickDone(s) \/ ClaimRaises(s)
             \/ WorkRaises(s) \/ PublishProcessed(s) \/ FailRaises(s)
             \/ RecoverRaises(s) \/ Crash(s) \/ Restart(s)
      PROVE  status'[e] # "none"
  BY <1>4 DEF TickSelect, TickRelease, TickDone, ClaimRaises, WorkRaises,
              PublishProcessed, FailRaises, RecoverRaises, Crash, Restart
<1>5. ASSUME NEW f \in Entries, Age(f) PROVE status'[e] # "none"
  BY <1>5 DEF Age
<1>6. CASE UNCHANGED vars
  BY <1>6 DEF vars
<1> QED
  BY <1>1, <1>2, <1>3, <1>4, <1>5, <1>6, StepCases

\* Past its first step a request names a blob.
AskedOK == \A c \in Callers : call[c] # "new" => asked[c] \in Entries

LEMMA EnqueueStep ==
  ASSUME TypeOK, AskedOK, EnqueueAnswers, [Next]_vars
  PROVE  AskedOK' /\ EnqueueAnswers'
<1> USE DEF TypeOK, AskedOK
<1>1. Rows \subseteq Rows'
  BY RowsGrow
<1>2. ASSUME UNCHANGED callVars PROVE AskedOK' /\ EnqueueAnswers'
  BY <1>1, <1>2 DEF callVars, EnqueueAnswers
<1>3. ASSUME NEW c \in Callers, EnqueueCheck(c) PROVE AskedOK' /\ EnqueueAnswers'
  <2>1. PICK e \in Entries :
          /\ asked' = [asked EXCEPT ![c] = e]
          /\ call' = [call EXCEPT ![c] = IF e \in Rows THEN "duplicate" ELSE "checked"]
    BY <1>3 DEF EnqueueCheck
  <2>2. AskedOK'
    BY <2>1
  <2>3. ASSUME NEW a \in Callers, call'[a] \in {"created", "duplicate", "conflict"}
        PROVE  asked'[a] \in Rows'
    BY <1>1, <2>1, <2>3 DEF EnqueueAnswers
  <2>4. ASSUME NEW a \in Callers, NEW b \in Callers, call'[a] = "created",
               call'[b] = "created", asked'[a] = asked'[b]
        PROVE  a = b
    BY <2>1, <2>4 DEF EnqueueAnswers
  <2> QED
    BY <2>2, <2>3, <2>4 DEF EnqueueAnswers
<1>4. ASSUME NEW c \in Callers, EnqueueConflict(c) PROVE AskedOK' /\ EnqueueAnswers'
  BY <1>1, <1>4 DEF EnqueueConflict, EnqueueAnswers
<1>5. ASSUME NEW c \in Callers, EnqueueInsert(c) PROVE AskedOK' /\ EnqueueAnswers'
  <2>1. /\ call[c] = "checked" /\ asked[c] \in Entries /\ asked[c] \notin Rows
        /\ asked' = asked /\ call' = [call EXCEPT ![c] = "created"]
        /\ asked[c] \in Rows'
    BY <1>5 DEF EnqueueInsert, Rows
  <2>2. AskedOK'
    BY <2>1
  <2>3. ASSUME NEW a \in Callers, call'[a] \in {"created", "duplicate", "conflict"}
        PROVE  asked'[a] \in Rows'
    BY <1>1, <2>1, <2>3 DEF EnqueueAnswers
  <2>4. ASSUME NEW a \in Callers, NEW b \in Callers, call'[a] = "created",
               call'[b] = "created", asked'[a] = asked'[b]
        PROVE  a = b
    BY <2>1, <2>4 DEF EnqueueAnswers
  <2> QED
    BY <2>2, <2>3, <2>4 DEF EnqueueAnswers
<1>6. ASSUME NEW s \in Scanners,
             \/ TickSelect(s) \/ TickRelease(s) \/ TickDone(s)
             \/ ClaimEntry(s) \/ ClaimRaises(s) \/ CompleteEntry(s) \/ WorkRaises(s)
             \/ PublishProcessed(s) \/ FailEntry(s) \/ FailRaises(s)
             \/ RecoverStale(s) \/ RecoverRaises(s) \/ Crash(s) \/ Restart(s)
      PROVE  UNCHANGED callVars
  BY <1>6 DEF TickSelect, TickRelease, TickDone, ClaimEntry, ClaimRaises, CompleteEntry,
              WorkRaises, PublishProcessed, FailEntry, FailRaises, RecoverStale,
              RecoverRaises, Crash, Restart
<1>7. ASSUME NEW e \in Entries, Age(e) PROVE UNCHANGED callVars
  BY <1>7 DEF Age
<1>8. CASE UNCHANGED vars
  BY <1>2, <1>8 DEF vars, callVars
<1> QED
  BY <1>2, <1>3, <1>4, <1>5, <1>6, <1>7, <1>8, StepCases

\* At most one POST /enqueue per blob is answered 201, and every answer
\* names a row that exists, for any number of concurrent requests.
THEOREM EnqueueCorrect == Spec => []EnqueueAnswers
<1>1. Init => AskedOK /\ EnqueueAnswers
  BY DEF Init, AskedOK, EnqueueAnswers
<1>2. TypeOK /\ (AskedOK /\ EnqueueAnswers) /\ [Next]_vars => (AskedOK /\ EnqueueAnswers)'
  BY EnqueueStep
<1> QED
  BY <1>1, <1>2, TypeCorrect, PTL DEF Spec

-----------------------------------------------------------------------------
(***************************************************************************)
(* One Core process: the deployment of docker-compose.yml.  The scanner    *)
(* selects, works and recovers in turn, so the row in its hand and those   *)
(* of its batch are touched by nobody else.                                *)
(***************************************************************************)
OneScanner == \A s, t \in Scanners : s = t

LEMMA OneScannerInit == Init => OneScannerInv
BY TypeInit, ConstantsOK
   DEF Init, OneScannerInv, HandOK, AccountOK, AnnouncedOnce

\* Steps that leave rows, counters and the scanner alone.
LEMMA OneScannerFrame ==
  ASSUME OneScannerInv, TypeOK', UNCHANGED <<status, retries, runs, published, scanVars>>
  PROVE  OneScannerInv'
BY DEF OneScannerInv, HandOK, AccountOK, AnnouncedOnce, scanVars

\* Steps of the loop that hold no row.
LEMMA OneScannerLoop ==
  ASSUME OneScannerInv, TypeOK', UNCHANGED <<status, retries, runs, published>>,
         NEW s \in Scanners, OneScanner,
         pc'[s] \notin {"working", "publish", "failing"},
         \A f \in todo'[s] : status[f] = "PENDING"
  PROVE  OneScannerInv'
<1>1. HandOK'
  BY DEF OneScannerInv, HandOK, OneScanner
<1>2. AccountOK' /\ AnnouncedOnce'
  BY DEF OneScannerInv, AccountOK, AnnouncedOnce
<1> QED
  BY <1>1, <1>2 DEF OneScannerInv

LEMMA OneScannerStep ==
  ASSUME OneScanner, OneScannerInv, [Next]_vars
  PROVE  OneScannerInv'
<1>1. TypeOK'
  BY TypeStep DEF OneScannerInv
<1> USE DEF TypeOK, OneScannerInv, OneScanner, rowVars, histVars, Goto, Take, Drop
<1>2. ASSUME NEW c \in Callers, EnqueueCheck(c) \/ EnqueueConflict(c) PROVE OneScannerInv'
  BY <1>1, <1>2, OneScannerFrame DEF EnqueueCheck, EnqueueConflict
<1>3. ASSUME NEW c \in Callers, EnqueueInsert(c) PROVE OneScannerInv'
  <2>1. HandOK'
    BY <1>3 DEF EnqueueInsert, HandOK, Rows, scanVars
  <2>2. AccountOK' /\ AnnouncedOnce'
    BY <1>3, ConstantsOK DEF EnqueueInsert, AccountOK, AnnouncedOnce, Rows
  <2> QED
    BY <1>1, <2>1, <2>2
<1>4. ASSUME NEW s \in Scanners, TickSelect(s) PROVE OneScannerInv'
  <2>1. PICK B \in SUBSET Entries : Selectable(B) /\ todo' = [todo EXCEPT ![s] = B]
    BY <1>4 DEF TickSelect
  <2>2. \A f \in todo'[s] : status[f] = "PENDING"
    BY <2>1 DEF Selectable
  <2>3. pc'[s] = "fetched"
    BY <1>4 DEF TickSelect
  <2> QED
    BY <1>1, <1>4, <2>2, <2>3, OneScannerLoop DEF TickSelect
<1>5. ASSUME NEW s \in Scanners,
             \/ TickRelease(s) \/ TickDone(s) \/ FailRaises(s)
             \/ RecoverRaises(s) \/ Crash(s) \/ Restart(s)
      PROVE  OneScannerInv'
  <2>1. /\ pc'[s] \notin {"working", "publish", "failing"}
        /\ todo'[s] \subseteq todo[s]
        /\ UNCHANGED <<status, retries, runs, published>>
    BY <1>5 DEF TickRelease, TickDone, FailRaises, RecoverRaises, Crash, Restart
  <2> QED
    BY <1>1, <2>1, OneScannerLoop DEF HandOK
<1>6. ASSUME NEW s \in Scanners, ClaimEntry(s) PROVE OneScannerInv'
  <2>1. PICK e \in Entries : ClaimEntry(s)!2!(e)
    BY <1>6 DEF ClaimEntry
  <2>2. e \in todo[s] /\ status[e] = "PENDING"
    BY <2>1 DEF NextOf, HandOK
  <2>3. /\ status' = [status EXCEPT ![e] = "PROCESSING"]
        /\ runs' = [runs EXCEPT ![e] = runs[e] + 1]
        /\ retries' = retries /\ published' = published
    BY <1>6, <2>1, <2>2 DEF ClaimEntry
  <2>4. HandOK'
    BY <2>1, <2>2, <2>3 DEF HandOK
  <2>5. AccountOK' /\ AnnouncedOnce'
    BY <2>2, <2>3, ConstantsOK DEF AccountOK, AnnouncedOnce
  <2> QED
    BY <1>1, <2>4, <2>5
<1>7. ASSUME NEW s \in Scanners, ClaimRaises(s) PROVE OneScannerInv'
  <2>1. PICK e \in Entries : NextOf(s, e) /\ Take(s, e, "failing")
    BY <1>7 DEF ClaimRaises
  <2>2. e \in todo[s] /\ status[e] = "PENDING"
    BY <2>1 DEF NextOf, HandOK
  <2>3. UNCHANGED <<status, retries, runs, published>>
    BY <1>7 DEF ClaimRaises
  <2>4. HandOK'
    BY <2>1, <2>2, <2>3 DEF HandOK
  <2>5. AccountOK' /\ AnnouncedOnce'
    BY <2>3 DEF AccountOK, AnnouncedOnce
  <2> QED
    BY <1>1, <2>4, <2>5
<1>8. ASSUME NEW s \in Scanners, CompleteEntry(s) PROVE OneScannerInv'
  <2>1. cur[s] \in Entries /\ status[cur[s]] = "PROCESSING"
    BY <1>8 DEF CompleteEntry, HandOK
  <2>2. HandOK'
    BY <1>8, <2>1 DEF CompleteEntry, HandOK, AnnouncedOnce
  <2>3. AccountOK' /\ AnnouncedOnce'
    BY <1>8, <2>1 DEF CompleteEntry, AccountOK, AnnouncedOnce
  <2> QED
    BY <1>1, <2>2, <2>3
<1>9. ASSUME NEW s \in Scanners, WorkRaises(s) PROVE OneScannerInv'
  <2>1. HandOK'
    BY <1>9 DEF WorkRaises, HandOK
  <2>2. AccountOK' /\ AnnouncedOnce'
    BY <1>9 DEF WorkRaises, AccountOK, AnnouncedOnce
  <2> QED
    BY <1>1, <2>1, <2>2
<1>10. ASSUME NEW s \in Scanners, PublishProcessed(s) PROVE OneScannerInv'
  <2>1. cur[s] \in Entries /\ status[cur[s]] = "PROCESSED" /\ published[cur[s]] = 0
    BY <1>10 DEF PublishProcessed, HandOK
  <2>2. published' = [published EXCEPT ![cur[s]] = 1]
    BY <1>10, <2>1 DEF PublishProcessed
  <2>3. HandOK'
    BY <1>10, <2>1, <2>2 DEF PublishProcessed, HandOK
  <2>4. AccountOK' /\ AnnouncedOnce'
    BY <1>10, <2>1, <2>2 DEF PublishProcessed, AccountOK, AnnouncedOnce
  <2> QED
    BY <1>1, <2>3, <2>4
<1>11. ASSUME NEW s \in Scanners, FailEntry(s) PROVE OneScannerInv'
  <2>1. cur[s] \in Entries /\ status[cur[s]] \in {"PENDING", "PROCESSING"} /\ cur[s] \notin todo[s]
    BY <1>11 DEF FailEntry, HandOK
  <2>2. HandOK'
    BY <1>11, <2>1 DEF FailEntry, HandOK
  <2>3. AccountOK'
    BY <1>11, <2>1, ConstantsOK DEF FailEntry, AccountOK
  <2>4. AnnouncedOnce'
    BY <1>11, <2>1 DEF FailEntry, AnnouncedOnce
  <2> QED
    BY <1>1, <2>2, <2>3, <2>4
<1>12. ASSUME NEW s \in Scanners, RecoverStale(s) PROVE OneScannerInv'
  <2>1. HandOK'
    BY <1>12 DEF RecoverStale, HandOK, StaleRows
  <2>2. AccountOK'
    BY <1>12, ConstantsOK DEF RecoverStale, AccountOK, StaleRows
  <2>3. AnnouncedOnce'
    BY <1>12 DEF RecoverStale, AnnouncedOnce, StaleRows
  <2> QED
    BY <1>1, <2>1, <2>2, <2>3
<1>13. ASSUME NEW e \in Entries, Age(e) PROVE OneScannerInv'
  BY <1>1, <1>13, OneScannerFrame DEF Age
<1>14. CASE UNCHANGED vars
  BY <1>1, <1>14, OneScannerFrame DEF vars, scanVars
<1> QED
  BY <1>2, <1>3, <1>4, <1>5, <1>6, <1>7, <1>8, <1>9, <1>10, <1>11, <1>12,
     <1>13, <1>14, StepCases

\* The inductive invariant of a queue with one scanner.
THEOREM OneScannerCorrect ==
  ASSUME OneScanner
  PROVE  Spec => []OneScannerInv
<1>1. Init => OneScannerInv
  BY OneScannerInit
<1>2. OneScannerInv /\ [Next]_vars => OneScannerInv'
  BY OneScannerStep
<1> QED
  BY <1>1, <1>2, PTL DEF Spec

\* With one Core process an entry is worked on at most MaxAttempts + 1 times,
\* whatever crashes, gets stuck or fails, and retry_count agrees.
THEOREM AttemptsBounded ==
  ASSUME OneScanner
  PROVE  Spec => []AttemptBound
<1>1. OneScannerInv => AttemptBound
  BY DEF OneScannerInv, AccountOK, AttemptBound
<1> QED
  BY <1>1, OneScannerCorrect, PTL

\* With one Core process queue.entry_processed is published at most once per
\* entry, and never for one that is not PROCESSED.
THEOREM AnnouncementsSound ==
  ASSUME OneScanner
  PROVE  Spec => []AnnouncedOnce
<1>1. OneScannerInv => AnnouncedOnce
  BY DEF OneScannerInv
<1> QED
  BY <1>1, OneScannerCorrect, PTL

-----------------------------------------------------------------------------
(***************************************************************************)
(* Several Core processes over one database.                               *)
(***************************************************************************)

\* The rows of a batch exist, and open SELECTs hold different rows.
BatchesApart ==
    /\ TypeOK
    /\ \A s \in Scanners : todo[s] \subseteq Rows
    /\ LockedBatchesDisjoint

LEMMA BatchesApartInit == Init => BatchesApart
BY TypeInit DEF Init, BatchesApart, LockedBatchesDisjoint

\* Only TickSelect adds to a batch, and it leaves out what others hold.
LEMMA BatchesShrink ==
  ASSUME TypeOK, [Next]_vars
  PROVE  \/ \A s \in Scanners : /\ todo'[s] \subseteq todo[s]
                                /\ pc'[s] = "fetched" => pc[s] = "fetched"
         \/ \E s \in Scanners : TickSelect(s)
BY StepCases DEF TypeOK, EnqueueCheck, EnqueueConflict, EnqueueInsert, TickRelease, TickDone,
   ClaimEntry, ClaimRaises, CompleteEntry, WorkRaises, PublishProcessed, FailEntry, FailRaises,
   RecoverStale, RecoverRaises, Crash, Restart, Age, Goto, Take, Drop, scanVars, vars

LEMMA BatchesApartStep == BatchesApart /\ [Next]_vars => BatchesApart'
<1> SUFFICES ASSUME BatchesApart, [Next]_vars PROVE BatchesApart'
  OBVIOUS
<1>1. TypeOK' /\ Rows \subseteq Rows'
  BY TypeStep, RowsGrow DEF BatchesApart
<1>2. CASE \A s \in Scanners : /\ todo'[s] \subseteq todo[s]
                               /\ pc'[s] = "fetched" => pc[s] = "fetched"
  <2>1. \A s \in Scanners : todo'[s] \subseteq Rows'
    BY <1>1, <1>2 DEF BatchesApart
  <2>2. LockedBatchesDisjoint'
    BY <1>2 DEF BatchesApart, LockedBatchesDisjoint
  <2> QED
    BY <1>1, <2>1, <2>2 DEF BatchesApart
<1>3. ASSUME NEW s \in Scanners, TickSelect(s) PROVE BatchesApart'
  <2>1. PICK B \in SUBSET Entries : Selectable(B) /\ todo' = [todo EXCEPT ![s] = B]
    BY <1>3 DEF TickSelect
  <2>2. /\ pc[s] = "idle" /\ pc' = [pc EXCEPT ![s] = "fetched"] /\ UNCHANGED status
    BY <1>3 DEF TickSelect, rowVars
  <2>3. B \subseteq Rows /\ B \cap Locked = {}
    BY <2>1 DEF Selectable, Rows
  <2>4. \A t \in Scanners : todo'[t] = IF t = s THEN B ELSE todo[t]
    BY <2>1 DEF BatchesApart, TypeOK
  <2>5. \A t \in Scanners : pc'[t] = IF t = s THEN "fetched" ELSE pc[t]
    BY <2>2 DEF BatchesApart, TypeOK
  <2>6. \A t \in Scanners : pc[t] = "fetched" => todo[t] \cap B = {}
    BY <2>3 DEF Locked
  <2>7. \A t \in Scanners : todo'[t] \subseteq Rows'
    BY <1>1, <2>3, <2>4 DEF BatchesApart
  <2>8. LockedBatchesDisjoint'
    BY <2>4, <2>5, <2>6 DEF BatchesApart, LockedBatchesDisjoint
  <2> QED
    BY <1>1, <2>7, <2>8 DEF BatchesApart
<1> QED
  BY <1>2, <1>3, BatchesShrink DEF BatchesApart

LEMMA BatchesApartAlways == Spec => []BatchesApart
BY BatchesApartInit, BatchesApartStep, PTL DEF Spec

\* FOR UPDATE SKIP LOCKED: while the transactions of their SELECTs are open,
\* no two scanners, of however many, hold the same row.
THEOREM LocksKeepApart == Spec => []LockedBatchesDisjoint
<1>1. BatchesApart => LockedBatchesDisjoint
  BY DEF BatchesApart
<1> QED
  BY <1>1, BatchesApartAlways, PTL

\* The scanners that may still run an entry before it is recovered: any as
\* long as it is PENDING, afterwards those with the entry in their batch.
Hopeful(e) == {s \in Scanners : status[e] = "PENDING" \/ e \in todo[s]}

\* How often an entry has been PENDING at most.
Rounds(e) == (IF retries[e] < MaxAttempts THEN retries[e] ELSE MaxAttempts) + 1

\* In every round a scanner that still may run the entry has not yet run it.
RunsCounted(e) ==
    /\ status[e] = "none" => runs[e] = 0
    /\ runs[e] + Cardinality(Hopeful(e)) <= Cardinality(Scanners) * Rounds(e)

SharedInv == BatchesApart /\ \A e \in Entries : RunsCounted(e)

LEMMA Hopes ==
  ASSUME NEW H \in SUBSET Scanners
  PROVE  /\ Cardinality(H) \in Nat /\ Cardinality(H) <= Cardinality(Scanners)
         /\ \A I \in SUBSET H : Cardinality(I) \in Nat /\ Cardinality(I) <= Cardinality(H)
         /\ \A s \in H : Cardinality(H \ {s}) = Cardinality(H) - 1
         /\ Cardinality(Scanners) \in Nat
<1>1. IsFiniteSet(Scanners) /\ Cardinality(Scanners) \in Nat
  BY ConstantsOK, FS_CardinalityType
<1>2. IsFiniteSet(H) /\ Cardinality(H) <= Cardinality(Scanners)
  BY <1>1, FS_Subset
<1>3. Cardinality(H) \in Nat
  BY <1>2, FS_CardinalityType
<1>4. \A I \in SUBSET H : Cardinality(I) \in Nat /\ Cardinality(I) <= Cardinality(H)
  BY <1>2, FS_Subset, FS_CardinalityType
<1>5. \A s \in H : Cardinality(H \ {s}) = Cardinality(H) - 1
  BY <1>2, FS_RemoveElement
<1> QED
  BY <1>1, <1>2, <1>3, <1>4, <1>5

\* More rounds never bound less, and one round more bounds more by a run of
\* each scanner.
LEMMA RoundsBound ==
  ASSUME NEW n \in Nat, NEW a \in Nat, NEW b \in Nat, a <= b
  PROVE  n * a <= n * b /\ n * (a + 1) = n * a + n
OBVIOUS

\* Steps that run no entry and give nobody hope.
LEMMA NoNewHope ==
  ASSUME TypeOK, TypeOK', NEW e \in Entries, RunsCounted(e), runs'[e] = runs[e],
         retries[e] <= retries'[e], Hopeful(e)' \subseteq Hopeful(e),
         status'[e] = "none" => status[e] = "none"
  PROVE  RunsCounted(e)'
<1> DEFINE n == Cardinality(Scanners)
<1>1. /\ Cardinality(Hopeful(e)') \in Nat /\ Cardinality(Hopeful(e)) \in Nat
      /\ Cardinality(Hopeful(e)') <= Cardinality(Hopeful(e)) /\ n \in Nat
  BY Hopes DEF Hopeful
<1>2. Rounds(e) \in Nat /\ Rounds(e)' \in Nat /\ Rounds(e) <= Rounds(e)'
  BY ConstantsOK DEF Rounds, TypeOK
<1>3. n * Rounds(e) <= n * Rounds(e)' /\ n * Rounds(e) \in Nat /\ n * Rounds(e)' \in Nat
  BY <1>1, <1>2, RoundsBound
<1>4. runs[e] \in Nat
  BY DEF TypeOK
<1> HIDE DEF n
<1>5. runs[e] + Cardinality(Hopeful(e)') <= n * Rounds(e)'
  BY <1>1, <1>3, <1>4 DEF RunsCounted, n
<1> QED
  BY <1>5 DEF RunsCounted, n


\* A new round: every scanner may run the entry once more.
LEMMA NewRound ==
  ASSUME TypeOK, TypeOK', NEW e \in Entries, runs'[e] = runs[e],
         \/ runs[e] = 0
         \/ RunsCounted(e) /\ retries[e] < MaxAttempts /\ retries'[e] = retries[e] + 1,
         status'[e] # "none"
  PROVE  RunsCounted(e)'
<1> DEFINE n == Cardinality(Scanners)
<1>1. /\ Cardinality(Hopeful(e)') \in Nat /\ Cardinality(Hopeful(e)) \in Nat
      /\ Cardinality(Hopeful(e)') <= n /\ n \in Nat
  BY Hopes DEF Hopeful
<1>2. runs[e] \in Nat /\ retries[e] \in Nat /\ retries'[e] \in Nat /\ MaxAttempts \in Nat
  BY ConstantsOK DEF TypeOK
<1>3. CASE runs[e] = 0
  <2>1. Rounds(e)' \in Nat /\ 1 <= Rounds(e)'
    BY <1>2 DEF Rounds
  <2>2. n * 1 <= n * Rounds(e)' /\ n * 1 = n
    BY <1>1, <2>1, RoundsBound
  <2> HIDE DEF n
  <2>3. runs'[e] + Cardinality(Hopeful(e)') <= n * Rounds(e)'
    <3>1. n * Rounds(e)' \in Nat
      BY <1>1, <2>1
    <3> QED
      BY <1>1, <1>2, <1>3, <2>2, <3>1
  <2> QED
    BY <2>3 DEF RunsCounted, n
<1>4. CASE RunsCounted(e) /\ retries[e] < MaxAttempts /\ retries'[e] = retries[e] + 1
  <2>1. Rounds(e) \in Nat /\ Rounds(e)' = Rounds(e) + 1
    BY <1>2, <1>4 DEF Rounds
  <2>2. n * Rounds(e)' = n * Rounds(e) + n /\ n * Rounds(e) \in Nat
    BY <1>1, <2>1, RoundsBound
  <2>3. runs[e] + Cardinality(Hopeful(e)) <= n * Rounds(e)
    BY <1>4 DEF RunsCounted
  <2> HIDE DEF n
  <2>4. runs'[e] + Cardinality(Hopeful(e)') <= n * Rounds(e)'
    BY <1>1, <1>2, <2>2, <2>3
  <2> QED
    BY <2>4 DEF RunsCounted, n
<1> QED
  BY <1>3, <1>4

\* A run by a scanner that had the entry in its batch, which ends the round.
LEMMA RunEndsRound ==
  ASSUME TypeOK, TypeOK', NEW e \in Entries, NEW s \in Hopeful(e), RunsCounted(e),
         runs'[e] = runs[e] + 1, retries'[e] = retries[e],
         Hopeful(e)' \subseteq Hopeful(e) \ {s}, status'[e] # "none"
  PROVE  RunsCounted(e)'
<1> DEFINE n == Cardinality(Scanners)
<1>1. Cardinality(Hopeful(e)) \in Nat /\ Cardinality(Hopeful(e) \ {s}) = Cardinality(Hopeful(e)) - 1
  BY Hopes DEF Hopeful
<1>2. Cardinality(Hopeful(e)') \in Nat /\ Cardinality(Hopeful(e)') <= Cardinality(Hopeful(e) \ {s})
  <2>1. Hopeful(e) \ {s} \in SUBSET Scanners
    BY DEF Hopeful
  <2> QED
    BY <2>1, Hopes
<1>3. Rounds(e)' = Rounds(e)
  BY DEF Rounds
<1>4. runs[e] \in Nat /\ Rounds(e) \in Nat /\ n * Rounds(e) \in Nat
  BY ConstantsOK, Hopes DEF TypeOK, Rounds
<1> HIDE DEF n
<1>5. runs'[e] + Cardinality(Hopeful(e)') <= n * Rounds(e)'
  BY <1>1, <1>2, <1>3, <1>4 DEF RunsCounted, n
<1> QED
  BY <1>5 DEF RunsCounted, n

LEMMA SharedInit == Init => SharedInv
<1> SUFFICES ASSUME Init, NEW e \in Entries PROVE RunsCounted(e)
  BY BatchesApartInit DEF SharedInv
<1>1. Hopeful(e) = {} /\ runs[e] = 0
  BY DEF Init, Hopeful
<1>2. Cardinality(Hopeful(e)) = 0 /\ Cardinality(Scanners) \in Nat
  BY <1>1, FS_EmptySet, Hopes
<1>3. Rounds(e) \in Nat
  BY ConstantsOK, TypeInit DEF TypeOK, Rounds
<1>4. Cardinality(Scanners) * Rounds(e) \in Nat
  BY <1>2, <1>3
<1> QED
  BY <1>1, <1>2, <1>4 DEF RunsCounted

LEMMA SharedStep == SharedInv /\ [Next]_vars => SharedInv'
<1> SUFFICES ASSUME SharedInv, [Next]_vars, NEW e \in Entries PROVE RunsCounted(e)'
  BY BatchesApartStep DEF SharedInv
<1>1. TypeOK /\ TypeOK' /\ RunsCounted(e) /\ \A s \in Scanners : todo[s] \subseteq Rows
  BY TypeStep DEF SharedInv, BatchesApart
<1> USE DEF TypeOK, rowVars, histVars, Goto, Take, Drop
<1>2. CASE \/ \E c \in Callers : EnqueueCheck(c) \/ EnqueueConflict(c)
           \/ \E s \in Scanners :
                \/ TickRelease(s) \/ TickDone(s) \/ ClaimRaises(s) \/ WorkRaises(s)
                \/ PublishProcessed(s) \/ FailRaises(s) \/ RecoverRaises(s) \/ Crash(s) \/ Restart(s)
           \/ \E f \in Entries : Age(f)
           \/ UNCHANGED vars
  <2>1. UNCHANGED <<status, retries, runs>>
    BY <1>2 DEF EnqueueCheck, EnqueueConflict, TickRelease, TickDone, ClaimRaises, WorkRaises,
       PublishProcessed, FailRaises, RecoverRaises, Crash, Restart, Age, vars
  <2>2. \A s \in Scanners : todo'[s] \subseteq todo[s]
    BY <1>1, <1>2 DEF EnqueueCheck, EnqueueConflict, TickRelease, TickDone, ClaimRaises, WorkRaises,
       PublishProcessed, FailRaises, RecoverRaises, Crash, Restart, Age, scanVars, vars
  <2> QED
    BY <1>1, <2>1, <2>2, NoNewHope DEF Hopeful
<1>3. ASSUME NEW c \in Callers, EnqueueInsert(c) PROVE RunsCounted(e)'
  <2>1. CASE e = asked[c]
    <3>1. status[e] = "none" /\ status'[e] = "PENDING" /\ UNCHANGED <<runs, retries>>
      BY <1>1, <1>3, <2>1 DEF EnqueueInsert, Rows
    <3> QED
      BY <1>1, <3>1, NewRound DEF RunsCounted
  <2>2. CASE e # asked[c]
    <3>1. status'[e] = status[e] /\ UNCHANGED <<runs, retries, todo>>
      BY <1>1, <1>3, <2>2 DEF EnqueueInsert, scanVars
    <3> QED
      BY <1>1, <3>1, NoNewHope DEF Hopeful
  <2> QED
    BY <2>1, <2>2
<1>4. ASSUME NEW s \in Scanners, TickSelect(s) PROVE RunsCounted(e)'
  <2>1. PICK B \in SUBSET Entries : Selectable(B) /\ todo' = [todo EXCEPT ![s] = B]
    BY <1>4 DEF TickSelect
  <2>2. UNCHANGED <<status, retries, runs>>
    BY <1>4 DEF TickSelect
  <2>3. \A t \in Scanners : e \in todo'[t] => e \in todo[t] \/ status[e] = "PENDING"
    BY <1>1, <2>1 DEF Selectable
  <2> QED
    BY <1>1, <2>2, <2>3, NoNewHope DEF Hopeful
<1>5. ASSUME NEW s \in Scanners, ClaimEntry(s) PROVE RunsCounted(e)'
  <2>1. PICK f \in Entries : ClaimEntry(s)!2!(f)
    BY <1>5 DEF ClaimEntry
  <2>2. /\ f \in todo[s] /\ status[f] # "none"
        /\ todo' = [todo EXCEPT ![s] = todo[s] \ {f}] /\ runs' = [runs EXCEPT ![f] = runs[f] + 1]
        /\ UNCHANGED retries
    BY <1>1, <1>5, <2>1 DEF ClaimEntry, NextOf, Rows
  <2>3. /\ status'[f] # "PENDING" /\ status'[f] # "none"
        /\ \A g \in Entries : g # f => status'[g] = status[g]
    BY <1>1, <2>1, <2>2
  <2>4. CASE e = f
    <3>1. s \in Hopeful(e) /\ runs'[e] = runs[e] + 1 /\ Hopeful(e)' \subseteq Hopeful(e) \ {s}
      BY <1>1, <2>2, <2>3, <2>4 DEF Hopeful
    <3> QED
      BY <1>1, <2>2, <2>3, <2>4, <3>1, RunEndsRound
  <2>5. CASE e # f
    <3>1. /\ status'[e] = status[e] /\ runs'[e] = runs[e]
          /\ \A t \in Scanners : e \in todo'[t] => e \in todo[t]
      BY <1>1, <2>2, <2>3, <2>5
    <3> QED
      BY <1>1, <2>2, <3>1, NoNewHope DEF Hopeful
  <2> QED
    BY <2>4, <2>5
<1>6. ASSUME NEW s \in Scanners, CompleteEntry(s) \/ FailEntry(s) PROVE RunsCounted(e)'
  <2>1. /\ UNCHANGED <<runs, todo>>
        /\ status'[e] \in {status[e], "PROCESSED", "FAILED"} /\ retries[e] <= retries'[e]
    BY <1>1, <1>6 DEF CompleteEntry, FailEntry
  <2> QED
    BY <1>1, <2>1, NoNewHope DEF Hopeful
<1>7. ASSUME NEW s \in Scanners, RecoverStale(s) PROVE RunsCounted(e)'
  <2>1. UNCHANGED <<runs, todo>>
    BY <1>7 DEF RecoverStale
  <2>2. CASE e \in StaleRows /\ retries[e] < MaxAttempts
    <3>1. status'[e] = "PENDING" /\ retries'[e] = retries[e] + 1
      BY <1>7, <2>2 DEF RecoverStale
    <3> QED
      BY <1>1, <2>1, <2>2, <3>1, NewRound
  <2>3. CASE ~(e \in StaleRows /\ retries[e] < MaxAttempts)
    <3>1. status'[e] \in {status[e], "FAILED"} /\ retries'[e] = retries[e]
      BY <1>7, <2>3 DEF RecoverStale
    <3> QED
      BY <1>1, <2>1, <3>1, NoNewHope DEF Hopeful
  <2> QED
    BY <2>2, <2>3
<1> QED
  BY <1>2, <1>3, <1>4, <1>5, <1>6, <1>7, StepCases

\* However many Core processes share the database, an entry is worked on at
\* most MaxAttempts + 1 times by each of them, whatever crashes, gets stuck,
\* is recovered twice or fails late.
THEOREM AttemptsBoundedPerScanner == Spec => []AttemptBoundPerScanner
<1>1. ASSUME SharedInv, NEW e \in Entries
      PROVE  runs[e] <= (MaxAttempts + 1) * Cardinality(Scanners)
  <2> DEFINE n == Cardinality(Scanners)
  <2>1. n \in Nat /\ Cardinality(Hopeful(e)) \in Nat
    BY Hopes DEF Hopeful
  <2>2. Rounds(e) \in Nat /\ Rounds(e) <= MaxAttempts + 1 /\ MaxAttempts + 1 \in Nat /\ runs[e] \in Nat
    BY <1>1, ConstantsOK DEF SharedInv, BatchesApart, TypeOK, Rounds
  <2>3. n * Rounds(e) <= n * (MaxAttempts + 1) /\ n * Rounds(e) \in Nat
         /\ n * (MaxAttempts + 1) \in Nat /\ n * (MaxAttempts + 1) = (MaxAttempts + 1) * n
    BY <2>1, <2>2, RoundsBound
  <2>4. runs[e] + Cardinality(Hopeful(e)) <= n * Rounds(e)
    BY <1>1 DEF SharedInv, RunsCounted
  <2> HIDE DEF n
  <2>5. runs[e] <= (MaxAttempts + 1) * n
    BY <2>1, <2>2, <2>3, <2>4
  <2> QED
    BY <2>5 DEF n
<1>2. SharedInv => AttemptBoundPerScanner
  BY <1>1 DEF AttemptBoundPerScanner
<1> QED
  BY <1>2, SharedInit, SharedStep, PTL DEF Spec

-----------------------------------------------------------------------------
(***************************************************************************)
(* Each step of the one-scanner queue is a step of the documented state    *)
(* machine or changes nothing it can see.                                  *)
(***************************************************************************)

\* Initial states map to initial states.
LEMMA LifecycleInit == Init => Lifecycle!Init
BY DEF Init, Lifecycle!Init

\* Every step maps to a lifecycle step or a stutter.
LEMMA LifecycleStep ==
  ASSUME OneScanner, OneScannerInv, [Next]_vars
  PROVE  [Lifecycle!Next]_(Lifecycle!vars)
<1> USE DEF TypeOK, OneScannerInv, rowVars, histVars
<1>1. ASSUME UNCHANGED <<status, runs, published>> PROVE UNCHANGED Lifecycle!vars
  BY <1>1 DEF Lifecycle!vars
<1>2. ASSUME NEW c \in Callers, EnqueueCheck(c) \/ EnqueueConflict(c)
      PROVE  UNCHANGED Lifecycle!vars
  BY <1>1, <1>2 DEF EnqueueCheck, EnqueueConflict
<1>3. ASSUME NEW c \in Callers, EnqueueInsert(c) PROVE [Lifecycle!Next]_(Lifecycle!vars)
  <2>1. CASE asked[c] \in Entries
    <3>1. Lifecycle!Submit(asked[c])
      BY <1>3, <2>1 DEF EnqueueInsert, Rows, Lifecycle!Submit
    <3> QED
      BY <2>1, <3>1 DEF Lifecycle!Next
  <2>2. CASE asked[c] \notin Entries
    BY <1>1, <1>3, <2>2 DEF EnqueueInsert
  <2> QED
    BY <2>1, <2>2
<1>4. ASSUME NEW s \in Scanners, ClaimEntry(s) PROVE [Lifecycle!Next]_(Lifecycle!vars)
  <2>1. PICK e \in Entries : ClaimEntry(s)!2!(e)
    BY <1>4 DEF ClaimEntry
  <2>2. status[e] = "PENDING" /\ runs[e] < MaxAttempts + 1
    BY <2>1, ConstantsOK DEF NextOf, HandOK, AccountOK
  <2>3. Lifecycle!Start(e)
    BY <1>4, <2>1, <2>2 DEF ClaimEntry, Lifecycle!Start
  <2> QED
    BY <2>3 DEF Lifecycle!Next
<1>5. ASSUME NEW s \in Scanners, CompleteEntry(s) PROVE [Lifecycle!Next]_(Lifecycle!vars)
  <2>1. cur[s] \in Entries /\ Lifecycle!Succeed(cur[s])
    BY <1>5 DEF CompleteEntry, HandOK, Lifecycle!Succeed
  <2> QED
    BY <2>1 DEF Lifecycle!Next
<1>6. ASSUME NEW s \in Scanners, PublishProcessed(s) PROVE [Lifecycle!Next]_(Lifecycle!vars)
  <2>1. cur[s] \in Entries /\ status[cur[s]] = "PROCESSED" /\ published[cur[s]] = 0
    BY <1>6 DEF PublishProcessed, HandOK
  <2>2. published' = [published EXCEPT ![cur[s]] = 1]
    BY <1>6, <2>1 DEF PublishProcessed
  <2>3. Lifecycle!Announce(cur[s])
    BY <1>6, <2>1, <2>2 DEF PublishProcessed, Lifecycle!Announce
  <2> QED
    BY <2>1, <2>3 DEF Lifecycle!Next
<1>7. ASSUME NEW s \in Scanners, FailEntry(s) PROVE [Lifecycle!Next]_(Lifecycle!vars)
  <2>1. cur[s] \in Entries /\ Lifecycle!GiveUp(cur[s])
    BY <1>7 DEF FailEntry, HandOK, Lifecycle!GiveUp
  <2> QED
    BY <2>1 DEF Lifecycle!Next
<1>8. ASSUME NEW s \in Scanners, RecoverStale(s) PROVE [Lifecycle!Next]_(Lifecycle!vars)
  <2> DEFINE R == {e \in StaleRows : retries[e] < MaxAttempts}
             E == StaleRows \ R
  <2>1. /\ R \in SUBSET Entries /\ E \in SUBSET Entries
        /\ \A e \in R \cup E : status[e] = "PROCESSING"
    BY DEF StaleRows
  <2>2. \A e \in R : runs[e] < MaxAttempts + 1
    BY ConstantsOK DEF StaleRows, AccountOK
  <2>3. status' = [e \in Entries |-> IF e \in R THEN "PENDING"
                                     ELSE IF e \in E THEN "FAILED" ELSE status[e]]
    BY <1>8 DEF RecoverStale
  <2>4. Lifecycle!Recover(R, E)
    BY <1>8, <2>1, <2>2, <2>3 DEF RecoverStale, Lifecycle!Recover
  <2> QED
    BY <2>1, <2>4 DEF Lifecycle!Next
<1>9. ASSUME NEW s \in Scanners,
             \/ TickSelect(s) \/ TickRelease(s) \/ TickDone(s) \/ ClaimRaises(s)
             \/ WorkRaises(s) \/ FailRaises(s) \/ RecoverRaises(s) \/ Crash(s)
             \/ Restart(s)
      PROVE  UNCHANGED Lifecycle!vars
  BY <1>1, <1>9 DEF TickSelect, TickRelease, TickDone, ClaimRaises, WorkRaises,
                    FailRaises, RecoverRaises, Crash, Restart
<1>10. ASSUME NEW e \in Entries, Age(e) PROVE UNCHANGED Lifecycle!vars
  BY <1>1, <1>10 DEF Age
<1>11. CASE UNCHANGED vars
  BY <1>1, <1>11 DEF vars
<1> QED
  BY <1>2, <1>3, <1>4, <1>5, <1>6, <1>7, <1>8, <1>9, <1>10, <1>11, StepCases

\* With one Core process the queue implements the state machine that the
\* schema documents for core_queue.status, its attempts bounded.
THEOREM ImplementsLifecycle ==
  ASSUME OneScanner
  PROVE  Spec => LifecycleSpec
<1>1. OneScannerInv /\ [Next]_vars => [Lifecycle!Next]_(Lifecycle!vars)
  BY LifecycleStep
<1> QED
  BY <1>1, LifecycleInit, OneScannerCorrect, PTL DEF Spec, LifecycleSpec, Lifecycle!Spec

\* With one Core process a PROCESSED or FAILED entry is never touched again.
THEOREM TerminalStays ==
  ASSUME OneScanner
  PROVE  Spec => TerminalIsFinal
<1>1. [Lifecycle!Next]_(Lifecycle!vars) /\ TypeOK
      => \A e \in Entries : status[e] \in Terminal => status'[e] = status[e]
  <2> SUFFICES ASSUME [Lifecycle!Next]_(Lifecycle!vars), TypeOK,
                      NEW e \in Entries, status[e] \in Terminal
               PROVE  status'[e] = status[e]
    OBVIOUS
  <2>1. ASSUME NEW f \in Entries,
               \/ Lifecycle!Submit(f) \/ Lifecycle!Start(f) \/ Lifecycle!Succeed(f)
               \/ Lifecycle!Announce(f) \/ Lifecycle!GiveUp(f)
        PROVE  status'[e] = status[e]
    BY <2>1 DEF Lifecycle!Submit, Lifecycle!Start, Lifecycle!Succeed,
                Lifecycle!Announce, Lifecycle!GiveUp, Terminal, TypeOK
  <2>2. ASSUME NEW R \in SUBSET Entries, NEW E \in SUBSET Entries, Lifecycle!Recover(R, E)
        PROVE  status'[e] = status[e]
    BY <2>2 DEF Lifecycle!Recover, Terminal
  <2> QED
    BY <2>1, <2>2 DEF Lifecycle!Next, Lifecycle!vars
<1>2. OneScannerInv /\ [Next]_vars
      => [\A e \in Entries : status[e] \in Terminal => status'[e] = status[e]]_vars
  BY <1>1, LifecycleStep DEF OneScannerInv
<1> QED
  BY <1>2, OneScannerCorrect, PTL DEF Spec, TerminalIsFinal

=============================================================================
