-------------------------- MODULE CoreServicesProofs --------------------------
(***************************************************************************)
(* What is proved of Orchestrator, Entities and Finalize holds of          *)
(* CoreServices, where each runs beside the other components.  Statistics, *)
(* Reports, LedgerUpkeep, Enrichment and Resolving are proved here, as     *)
(* instances of CoreServices.  The last part is about types: what each     *)
(* component's invariant leaves to be said of them, and all of them        *)
(* together.                                                               *)
(***************************************************************************)
EXTENDS CoreServices, FinalizeProofs, WellFoundedInduction

\* The proofs of the two components, about the instances of CoreServices.
Previews == INSTANCE OrchestratorProofs WITH MaxDeaths <- MaxCrashes

Edits == INSTANCE EntitiesProofs WITH
    Requests <- Editors, Fields <- EntityFields, request <- editing

\* A step of Core is one of the component in focus, and the others keep still.
LEMMA EachSteps ==
    [CoreNext]_coreVars =>
        /\ [Previewing!Next]_(Previewing!vars)
        /\ [Editing!Next]_(Editing!vars)
        /\ [Enriching!Next]_(Enriching!vars)
        /\ [Figures!Next]_(Figures!vars)
        /\ [Reporting!Next]_(Reporting!vars)
        /\ [Upkeep!Next]_(Upkeep!vars)
        /\ focus = "customers" => [Buying!Next]_(Buying!vars)
        /\ focus = "products" => [Stocking!Next]_(Stocking!vars)
        /\ focus' = focus
BY DEF CoreNext, FinalizeStep, PreviewStep, ResolveStep, MatchStep, EditStep, EnrichStep, CountStep,
       ReportStep, UpkeepStep, coreVars, previewVars, resolveVars, entityVars, enrichVars, figureVars,
       reportVars, upkeepVars, Previewing!vars, Buying!vars, Buying!job, Stocking!vars, Stocking!job,
       Editing!vars, Enriching!vars, Figures!vars, Reporting!vars, Upkeep!vars

-----------------------------------------------------------------------------
\* The proofs speak of the same Orchestrator ...
LEMMA SamePreviewing ==
    /\ Previewing!Init <=> Previews!Init
    /\ [Previewing!Next]_(Previewing!vars) <=> [Previews!Next]_(Previews!vars)
<1>1. Previewing!Init <=> Previews!Init
  BY DEF Previewing!Init, Previews!Init
<1>2. Previewing!TellHeartBeat <=> Previews!TellHeartBeat
  BY DEF Previewing!TellHeartBeat, Previews!TellHeartBeat
<1>3. Previewing!Wait <=> Previews!Wait
  BY DEF Previewing!Wait, Previews!Wait
<1>4. Previewing!FailStale <=> Previews!FailStale
  BY DEF Previewing!FailStale, Previews!FailStale
<1>5. Previewing!Expire <=> Previews!Expire
  BY DEF Previewing!Expire, Previews!Expire
<1>6. Previewing!Die <=> Previews!Die
  BY DEF Previewing!Die, Previews!Die, Previewing!Running, Previews!Running, Previewing!Timed,
         Previews!Timed, Previewing!Working, Previews!Working
<1>7. ASSUME NEW r \in Requests PROVE Previewing!Step(r) <=> Previews!Step(r)
  <2>1. Previewing!Select(r) <=> Previews!Select(r)
    BY DEF Previewing!Goto, Previews!Goto, Previewing!Say, Previews!Say, Previewing!Select,
           Previews!Select
  <2>2. Previewing!SelectFails(r) <=> Previews!SelectFails(r)
    BY DEF Previewing!Say, Previews!Say, Previewing!SelectFails, Previews!SelectFails
  <2>3. Previewing!Claim(r) <=> Previews!Claim(r)
    BY DEF Previewing!Claim, Previews!Claim, Previewing!Free, Previews!Free, Previewing!Goto,
           Previews!Goto, Previewing!Say, Previews!Say
  <2>4. Previewing!ClaimRaises(r) <=> Previews!ClaimRaises(r)
    BY DEF Previewing!ClaimRaises, Previews!ClaimRaises
  <2>5. Previewing!Slow(r) <=> Previews!Slow(r)
    BY DEF Previewing!Running, Previews!Running, Previewing!Slow, Previews!Slow,
           Previewing!Timed, Previews!Timed, Previewing!Working, Previews!Working
  <2>6. Previewing!TimesOut(r) <=> Previews!TimesOut(r)
    BY DEF Previewing!Goto, Previews!Goto, Previewing!Timed, Previews!Timed,
           Previewing!TimesOut, Previews!TimesOut
  <2>7. Previewing!Fetch(r) <=> Previews!Fetch(r)
    BY DEF Previewing!Fetch, Previews!Fetch, Previewing!Goto, Previews!Goto, Previewing!InTime,
           Previews!InTime, Previewing!Tell, Previews!Tell, Previewing!Then, Previews!Then
  <2>8. Previewing!Parse(r) <=> Previews!Parse(r)
    BY DEF Previewing!Flag, Previews!Flag, Previewing!InTime, Previews!InTime, Previewing!Parse,
           Previews!Parse, Previewing!Tell, Previews!Tell, Previewing!Then, Previews!Then,
           Previewing!Unplaced, Previews!Unplaced
  <2>9. Previewing!Dedup(r) <=> Previews!Dedup(r)
    BY DEF Previewing!Dedup, Previews!Dedup, Previewing!Goto, Previews!Goto, Previewing!Say,
           Previews!Say, Previewing!Tell, Previews!Tell
  <2>10. Previewing!Transform(r) <=> Previews!Transform(r)
    BY DEF Previewing!DefaultFlags, Previews!DefaultFlags, Previewing!Flag, Previews!Flag,
           Previewing!InTime, Previews!InTime, Previewing!Raised, Previews!Raised,
           Previewing!Tell, Previews!Tell, Previewing!Then, Previews!Then, Previewing!Transform,
           Previews!Transform, Previewing!Unplaced, Previews!Unplaced
  <2>11. Previewing!Enrich(r) <=> Previews!Enrich(r)
    BY DEF Previewing!Degraded, Previews!Degraded, Previewing!Enrich, Previews!Enrich,
           Previewing!Flag, Previews!Flag, Previewing!InTime, Previews!InTime, Previewing!Tell,
           Previews!Tell, Previewing!Then, Previews!Then
  <2>12. Previewing!Resolve(r) <=> Previews!Resolve(r)
    BY DEF Previewing!Blocking, Previews!Blocking, Previewing!Degraded, Previews!Degraded,
           Previewing!Flag, Previews!Flag, Previewing!InTime, Previews!InTime,
           Previewing!Resolve, Previews!Resolve, Previewing!Tell, Previews!Tell
  <2>13. Previewing!FinishAtOnce(r) <=> Previews!FinishAtOnce(r)
    BY DEF Previewing!FinishAtOnce, Previews!FinishAtOnce, Previewing!Say, Previews!Say,
           Previewing!Written, Previews!Written
  <2>14. Previewing!Generate(r) <=> Previews!Generate(r)
    BY DEF Previewing!Applies, Previews!Applies, Previewing!Blocking, Previews!Blocking,
           Previewing!Branch, Previews!Branch, Previewing!DefaultInvoices,
           Previews!DefaultInvoices, Previewing!DuplicateKinds, Previews!DuplicateKinds,
           Previewing!Generate, Previews!Generate, Previewing!Goto, Previews!Goto,
           Previewing!InTime, Previews!InTime, Previewing!Invoices, Previews!Invoices,
           Previewing!Priority, Previews!Priority, Previewing!Sheet, Previews!Sheet,
           Previewing!Sheets, Previews!Sheets, Previewing!UnusualKinds, Previews!UnusualKinds
  <2>15. Previewing!Publish(r) <=> Previews!Publish(r)
    BY DEF Previewing!Publish, Previews!Publish, Previewing!Say, Previews!Say, Previewing!Tell,
           Previews!Tell, Previewing!Written, Previews!Written
  <2>16. Previewing!Raise(r) <=> Previews!Raise(r)
    BY DEF Previewing!Goto, Previews!Goto, Previewing!Raise, Previews!Raise
  <2>17. Previewing!Fail(r) <=> Previews!Fail(r)
    BY DEF Previewing!Fail, Previews!Fail, Previewing!Say, Previews!Say, Previewing!Written,
           Previews!Written
  <2>18. Previewing!FailLate(r) <=> Previews!FailLate(r)
    BY DEF Previewing!FailLate, Previews!FailLate, Previewing!Goto, Previews!Goto,
           Previewing!Written, Previews!Written
  <2> QED
    BY <2>1, <2>2, <2>3, <2>4, <2>5, <2>6, <2>7, <2>8, <2>9, <2>10, <2>11, <2>12, <2>13, <2>14,
       <2>15, <2>16, <2>17, <2>18 DEF Previewing!Step, Previews!Step
<1>8. Previewing!Next <=> Previews!Next
  BY <1>2, <1>3, <1>4, <1>5, <1>6, <1>7 DEF Previewing!Next, Previews!Next
<1> QED
  BY <1>1, <1>8 DEF Previewing!vars, Previews!vars

LEMMA SameBacking == Previewing!PreviewBacked <=> Previews!PreviewBacked
BY DEF Previewing!PreviewBacked, Previews!PreviewBacked, Previewing!Blocking, Previews!Blocking,
       Previewing!Invoices, Previews!Invoices, Previewing!Sheets, Previews!Sheets,
       Previewing!DefaultInvoices, Previews!DefaultInvoices,
       Previewing!Cardinality, Previews!Cardinality

\* ... and of the same Entities.
LEMMA SameEditing ==
    /\ Editing!Init <=> Edits!Init
    /\ [Editing!Next]_(Editing!vars) <=> [Edits!Next]_(Edits!vars)
<1>1. Editing!Init <=> Edits!Init
  BY DEF Editing!Fresh, Edits!Fresh, Editing!Init, Edits!Init, Editing!NoRequest,
         Edits!NoRequest
<1>2. Editing!Purge <=> Edits!Purge
  BY DEF Editing!Expired, Edits!Expired, Editing!NoRequest, Edits!NoRequest, Editing!Purge,
         Edits!Purge, Editing!Unlocked, Edits!Unlocked
<1>3. Editing!Tick <=> Edits!Tick
  BY DEF Editing!Tick, Edits!Tick
<1>4. ASSUME NEW r \in Editors PROVE Editing!Step(r) <=> Edits!Step(r)
  <2>1. Editing!Arrive(r) <=> Edits!Arrive(r)
    BY DEF Editing!Arrive, Edits!Arrive
  <2>2. Editing!Read(r) <=> Edits!Read(r)
    BY DEF Editing!Answer, Edits!Answer, Editing!Editable, Edits!Editable, Editing!Read,
           Edits!Read, Editing!Refusal, Edits!Refusal
  <2>3. Editing!Unchanged(r) <=> Edits!Unchanged(r)
    BY DEF Editing!Answer, Edits!Answer, Editing!Changed, Edits!Changed, Editing!Unchanged,
           Edits!Unchanged
  <2>4. Editing!LockForUpdate(r) <=> Edits!LockForUpdate(r)
    BY DEF Editing!Changed, Edits!Changed, Editing!Goto, Edits!Goto, Editing!LockForUpdate,
           Edits!LockForUpdate, Editing!NoRequest, Edits!NoRequest, Editing!Unlocked,
           Edits!Unlocked
  <2>5. Editing!CommitUpdate(r) <=> Edits!CommitUpdate(r)
    BY DEF Editing!Answer, Edits!Answer, Editing!Cardinality, Edits!Cardinality,
           Editing!Changed, Edits!Changed, Editing!CommitUpdate, Edits!CommitUpdate,
           Editing!Edited, Edits!Edited, Editing!Entries, Edits!Entries, Editing!Listed,
           Edits!Listed, Editing!NoRequest, Edits!NoRequest
  <2>6. Editing!Abort(r) <=> Edits!Abort(r)
    BY DEF Editing!Abort, Edits!Abort, Editing!Answer, Edits!Answer, Editing!NoRequest,
           Edits!NoRequest
  <2>7. Editing!WriteGone(r) <=> Edits!WriteGone(r)
    BY DEF Editing!Answer, Edits!Answer, Editing!Changed, Edits!Changed, Editing!NoRequest,
           Edits!NoRequest, Editing!Unlocked, Edits!Unlocked, Editing!WriteGone, Edits!WriteGone
  <2>8. Editing!Delete(r) <=> Edits!Delete(r)
    BY DEF Editing!Answer, Edits!Answer, Editing!Delete, Edits!Delete, Editing!NoRequest,
           Edits!NoRequest, Editing!Unlocked, Edits!Unlocked
  <2>9. Editing!AnswerDelete(r) <=> Edits!AnswerDelete(r)
    BY DEF Editing!Answer, Edits!Answer, Editing!AnswerDelete, Edits!AnswerDelete
  <2>10. Editing!LockForRecovery(r) <=> Edits!LockForRecovery(r)
    BY DEF Editing!Goto, Edits!Goto, Editing!LockForRecovery, Edits!LockForRecovery,
           Editing!NoRequest, Edits!NoRequest, Editing!Unlocked, Edits!Unlocked
  <2>11. Editing!CommitRecovery(r) <=> Edits!CommitRecovery(r)
    BY DEF Editing!Answer, Edits!Answer, Editing!CommitRecovery, Edits!CommitRecovery,
           Editing!NoRequest, Edits!NoRequest
  <2> QED
    BY <2>1, <2>2, <2>3, <2>4, <2>5, <2>6, <2>7, <2>8, <2>9, <2>10, <2>11 DEF Editing!Step,
       Edits!Step
<1>5. Editing!Next <=> Edits!Next
  BY <1>2, <1>3, <1>4 DEF Editing!Next, Edits!Next
<1> QED
  BY <1>1, <1>5 DEF Editing!vars, Edits!vars

LEMMA SameRecovery == Editing!RecoveryPromiseKept <=> Edits!RecoveryPromiseKept
BY DEF Editing!RecoveryPromiseKept, Edits!RecoveryPromiseKept

LEMMA SameTraced == [Editing!Traced]_(Editing!vars) <=> [Edits!Traced]_(Edits!vars)
BY DEF Editing!Added, Edits!Added, Editing!Named, Edits!Named, Editing!Traced, Edits!Traced, Editing!vars, Edits!vars

LEMMA SameConstants == Editing!LegalConstants <=> Edits!LegalConstants
BY DEF Editing!IsFiniteSet, Edits!IsFiniteSet, Editing!LegalConstants, Edits!LegalConstants,
       Editing!NoRequest, Edits!NoRequest

-----------------------------------------------------------------------------
\* Beside the other components too, who was promised a preview has one, and
\* it hides no invoice that is wrong (PipelineOrchestrator).
THEOREM PreviewsBackedInCore == CoreSpec => []PreviewBacked
<1> DEFINE Inv == focus = "preview" => Previews!IInv
<1>1. CoreInit => Inv
  BY SamePreviewing, Previews!InitHolds DEF CoreInit
<1>2. Inv /\ [CoreNext]_coreVars => Inv'
  BY EachSteps, SamePreviewing, Previews!StepKeeps
<1>3. Inv => PreviewBacked
  BY SameBacking, Previews!Promises DEF PreviewBacked
<1> QED
  BY <1>1, <1>2, <1>3, PTL DEF CoreSpec

LEMMA CoreEdits == CoreSpec => Edits!Spec
<1>1. CoreInit => Edits!Init
  BY SameEditing DEF CoreInit
<1>2. [CoreNext]_coreVars => [Edits!Next]_(Edits!vars)
  BY EachSteps, SameEditing
<1> QED
  BY <1>1, <1>2, PTL DEF CoreSpec, Edits!Spec

LEMMA EditConstants == Edits!LegalConstants
BY CoreConstants, SameConstants

\* Nothing is purged before the time its deletion was answered with
\* (cleanup_expired_soft_deletes).
THEOREM PromiseKeptInCore == CoreSpec => []RecoveryPromiseKept
<1>1. Edits!Spec => []Edits!RecoveryPromiseKept
  BY EditConstants, Edits!NothingPurgedEarly
<1>2. Edits!RecoveryPromiseKept => RecoveryPromiseKept
  BY SameRecovery DEF RecoveryPromiseKept
<1> QED
  BY <1>1, <1>2, CoreEdits, PTL

\* An edit and its history come together, in every step (update_entity).
THEOREM EditsTracedInCore == CoreSpec => EditsLeaveTraces
<1>1. Edits!Spec => Edits!EditsLeaveTraces
  BY EditConstants, Edits!EditsAreTraced
<1>2. Edits!EditsLeaveTraces => EditsLeaveTraces
  BY SameTraced, PTL DEF EditsLeaveTraces, Editing!EditsLeaveTraces, Edits!EditsLeaveTraces
<1> QED
  BY <1>1, <1>2, CoreEdits, PTL

-----------------------------------------------------------------------------
\* Statistics: figures read, kept and answered were true.
AllFigures ==
    {Figures!Figure(Figures!Selects(s)[n], db, p, d) :
        s \in Figures!Sections, n \in Nat, db \in Figures!Tables, p \in Figures!Scopes, d \in Nat}

Asking ==
    [at : {"idle", "reading", "answered", "error"}, section : Figures!Sections \cup {"none"},
     scope : Figures!Scopes \cup {"none"}, since : Nat, figures : Seq(AllFigures), until : Nat]

FiguresTyped ==
    /\ past \in Seq(Figures!Tables) /\ Len(past) > 0
    /\ \A e \in cache : e.at \in 1..Len(past) /\ e.figures \in Seq(AllFigures)
    /\ reading \in [Requests -> Asking]

\* What is read was true since the request began, not long ago ...
WasTrue(r, n) ==
    \E t \in reading[r].since..Len(past) :
        reading[r].figures[n] =
            Figures!Figure(Figures!Selects(reading[r].section)[n], past[t], reading[r].scope, Figures!Day(t))

ReadingTrue(r) ==
    reading[r].at = "reading" =>
        /\ reading[r].section \in Figures!Sections /\ reading[r].scope \in Figures!Scopes
        /\ reading[r].since \in 1..Len(past) /\ Len(past) <= reading[r].since + Flight
        /\ \A n \in 1..Len(reading[r].figures) : WasTrue(r, n)

\* ... what is kept was true not long before it was kept ...
KeptTrue(e) ==
    \A s \in Figures!Sections, p \in Figures!Scopes : e.key = Figures!KeyOf(s, p) =>
        \A n \in 1..Len(e.figures) : \E t \in 1..e.at :
            /\ t + Flight >= e.at
            /\ e.figures[n] = Figures!Figure(Figures!Selects(s)[n], past[t], p, Figures!Day(t))

\* ... and so was what is answered.
AnsweredTrue(r) ==
    reading[r].at = "answered" =>
        /\ reading[r].until <= Len(past)
        /\ \A n \in 1..Len(reading[r].figures) : \E t \in 1..reading[r].until :
              /\ t + TTL + Flight >= reading[r].until
              /\ reading[r].figures[n] =
                    Figures!Figure(Figures!Selects(reading[r].section)[n], past[t], reading[r].scope, Figures!Day(t))

FiguresInv ==
    /\ FiguresTyped
    /\ \A r \in Requests : ReadingTrue(r) /\ AnsweredTrue(r)
    /\ \A e \in cache : KeptTrue(e)

LEMMA IsFigure ==
    ASSUME NEW s \in Figures!Sections, NEW n \in Nat, NEW db \in Figures!Tables,
           NEW p \in Figures!Scopes, NEW d \in Nat
    PROVE  Figures!Figure(Figures!Selects(s)[n], db, p, d) \in AllFigures
BY DEF AllFigures

\* What a question comes to on a day.
LEMMA Days == ASSUME Figures!LegalConstants, NEW t \in Nat PROVE Figures!Day(t) \in Nat
BY DEF Figures!LegalConstants, Figures!Day

LEMMA ScopesOfQuestions ==
    ASSUME Figures!LegalConstants, NEW q \in Questions, NEW d \in Nat
    PROVE  Figures!Resolved(q, d) \in Figures!Scopes
<1>1. /\ q.period \in Figures!Periods /\ q.company \in Companies \cup {"all"}
      /\ q.dates = <<>> \/ q.dates \in Nat \X Nat
  BY DEF Figures!LegalConstants
<1>2. CASE q.dates = <<>>
  BY <1>1, <1>2 DEF Figures!Resolved, Figures!Scopes
<1>3. CASE q.dates # <<>>
  <2>1. q.dates[1] \in Nat /\ q.dates[2] \in Nat
    BY <1>1, <1>3
  <2> QED
    BY <1>1, <1>3, <2>1 DEF Figures!Resolved, Figures!Scopes
<1> QED
  BY <1>2, <1>3

LEMMA AskingStays ==
    ASSUME past' = past, NEW q \in Requests, reading'[q] = reading[q], ReadingTrue(q), AnsweredTrue(q)
    PROVE  ReadingTrue(q)' /\ AnsweredTrue(q)'
<1>1. ReadingTrue(q)'
  BY DEF ReadingTrue, WasTrue
<1>2. AnsweredTrue(q)'
  BY DEF AnsweredTrue
<1> QED
  BY <1>1, <1>2

LEMMA KeptStays == ASSUME past' = past, NEW e, KeptTrue(e) PROVE KeptTrue(e)'
BY DEF KeptTrue

LEMMA AskingFields ==
    ASSUME FiguresInv, NEW r \in Requests
    PROVE  /\ reading[r] \in Asking /\ reading[r].figures \in Seq(AllFigures)
           /\ reading[r].since \in Nat
           /\ Len(past) \in Nat /\ Len(past) > 0 /\ past[Len(past)] \in Figures!Tables
<1>1. reading[r] \in Asking
  BY DEF FiguresInv, FiguresTyped
<1>2. past \in Seq(Figures!Tables) /\ Len(past) > 0
  BY DEF FiguresInv, FiguresTyped
<1>3. reading[r].figures \in Seq(AllFigures) /\ reading[r].since \in Nat
  BY <1>1 DEF Asking
<1>4. Len(past) \in Nat /\ past[Len(past)] \in Figures!Tables
  BY <1>2
<1> QED
  BY <1>1, <1>2, <1>3, <1>4

LEMMA FiguresInit == ASSUME Figures!LegalConstants, Figures!Init PROVE FiguresInv
<1>1. PICK db \in Figures!Tables : past = <<db>>
  BY DEF Figures!Init, Figures!LegalConstants
<1>2. past \in Seq(Figures!Tables) /\ Len(past) = 1
  BY <1>1
<1>3. Figures!Idle \in Asking
  BY DEF Figures!Idle, Asking
<1>4. reading \in [Requests -> Asking] /\ \A r \in Requests : reading[r].at = "idle"
  BY <1>3 DEF Figures!Init, Figures!Idle
<1> QED
  BY <1>2, <1>4 DEF Figures!Init, FiguresInv, FiguresTyped, ReadingTrue, AnsweredTrue

\* The past stays.
LEMMA ChangeAdds ==
    ASSUME FiguresInv, Figures!Change
    PROVE  /\ past' \in Seq(Figures!Tables) /\ Len(past') = Len(past) + 1
           /\ \A t \in 1..Len(past) : past'[t] = past[t]
<1>1. past[Figures!Now] \in Figures!Tables
  BY DEF FiguresInv, FiguresTyped, Figures!Now
<1>2. \A i \in InvoiceIds, w \in InvoiceRows : [past[Figures!Now] EXCEPT !.invoices[i] = w] \in Figures!Tables
  BY <1>1 DEF Figures!Tables
<1>3. \A have \in SUBSET Figures!Products : [past[Figures!Now] EXCEPT !.products = have] \in Figures!Tables
  BY <1>1 DEF Figures!Tables
<1>4. PICK db \in Figures!Tables : past' = Append(past, db)
  BY <1>2, <1>3 DEF Figures!Change
<1> QED
  BY <1>4 DEF FiguresInv, FiguresTyped

LEMMA FiguresChange == ASSUME FiguresInv, Figures!LegalConstants, Figures!Change PROVE FiguresInv'
<1> DEFINE L == Len(past)
<1>1. L \in Nat /\ L > 0 /\ Flight \in Nat /\ TTL \in Nat
  BY DEF FiguresInv, FiguresTyped, Figures!LegalConstants
<1>2. past' \in Seq(Figures!Tables) /\ Len(past') = L + 1 /\ \A t \in 1..L : past'[t] = past[t]
  BY ChangeAdds
<1>3. /\ UNCHANGED <<cache, reading>>
      /\ \A r \in Requests : reading[r].at = "reading" => L < reading[r].since + Flight
  BY DEF Figures!Change, Figures!Now
<1> HIDE DEF L
<1>4. FiguresTyped'
  <2>1. \A e \in cache : e.at \in 1..(L + 1)
    BY <1>1 DEF FiguresInv, FiguresTyped, L
  <2> QED
    BY <1>1, <1>2, <1>3, <2>1 DEF FiguresInv, FiguresTyped
<1>5. ASSUME NEW r \in Requests PROVE ReadingTrue(r)' /\ AnsweredTrue(r)'
  <2>1. reading[r] \in Asking /\ reading[r].since \in Nat /\ reading[r].until \in Nat
    BY DEF FiguresInv, FiguresTyped, Asking
  <2>2. ReadingTrue(r) /\ AnsweredTrue(r)
    BY DEF FiguresInv
  <2>3. ReadingTrue(r)'
    <3>1. SUFFICES ASSUME reading[r].at = "reading" PROVE ReadingTrue(r)'
      BY <1>3 DEF ReadingTrue
    <3>2. reading[r].since \in 1..(L + 1) /\ L + 1 <= reading[r].since + Flight
      BY <1>1, <1>3, <2>1, <2>2, <3>1 DEF ReadingTrue, L
    <3>3. ASSUME NEW n \in 1..Len(reading[r].figures) PROVE WasTrue(r, n)'
      <4>1. PICK t \in reading[r].since..L : reading[r].figures[n] =
              Figures!Figure(Figures!Selects(reading[r].section)[n], past[t], reading[r].scope, Figures!Day(t))
        BY <2>2, <3>1 DEF ReadingTrue, WasTrue, L
      <4>2. t \in reading[r].since..(L + 1) /\ past'[t] = past[t]
        BY <1>1, <1>2, <2>1, <2>2, <3>1 DEF ReadingTrue, L
      <4> QED
        BY <1>2, <1>3, <4>1, <4>2 DEF WasTrue
    <3> QED
      BY <1>2, <1>3, <2>2, <3>1, <3>2, <3>3 DEF ReadingTrue
  <2>4. AnsweredTrue(r)'
    <3>1. SUFFICES ASSUME reading[r].at = "answered" PROVE AnsweredTrue(r)'
      BY <1>3 DEF AnsweredTrue
    <3>2. reading[r].until <= L /\ reading[r].until <= L + 1
      BY <1>1, <2>1, <2>2, <3>1 DEF AnsweredTrue, L
    <3>3. \A t \in 1..reading[r].until : past'[t] = past[t]
      BY <1>1, <1>2, <2>1, <3>2
    <3> QED
      BY <1>2, <1>3, <2>2, <3>1, <3>2, <3>3 DEF AnsweredTrue
  <2> QED
    BY <2>3, <2>4
<1>6. ASSUME NEW e \in cache PROVE KeptTrue(e)'
  <2>1. e.at \in 1..L /\ KeptTrue(e)
    BY DEF FiguresInv, FiguresTyped, L
  <2>2. \A t \in 1..e.at : past'[t] = past[t]
    BY <1>1, <1>2, <2>1
  <2> QED
    BY <2>1, <2>2 DEF KeptTrue
<1> QED
  BY <1>3, <1>4, <1>5, <1>6 DEF FiguresInv

LEMMA FiguresBegin ==
    ASSUME FiguresInv, Figures!LegalConstants, NEW r \in Requests, Figures!Begin(r)
    PROVE  FiguresInv'
<1> DEFINE L == Len(past)
<1>1. L \in Nat /\ L > 0 /\ Flight \in Nat /\ TTL \in Nat /\ Figures!Now = L /\ Figures!Day(Figures!Now) \in Nat
  BY Days DEF FiguresInv, FiguresTyped, Figures!LegalConstants, Figures!Now, Figures!Day
<1>2. PICK s \in Figures!Sections, p \in Figures!Scopes :
        LET key == Figures!KeyOf(s, p)
            asked == [at |-> "reading", section |-> s, scope |-> p, since |-> Figures!Now,
                      figures |-> <<>>, until |-> Figures!Now]
        IN  \/ \E e \in Figures!Entries(key) :
                  /\ Figures!Valid(e)
                  /\ reading' = [reading EXCEPT ![r] = [asked EXCEPT !.at = "answered", !.figures = e.figures]]
                  /\ UNCHANGED cache
            \/ /\ \A e \in Figures!Entries(key) : ~Figures!Valid(e)
               /\ reading' = [reading EXCEPT ![r] = asked]
               /\ cache' = cache \ Figures!Entries(key)
  BY <1>1, ScopesOfQuestions DEF Figures!Begin
<1> DEFINE asked == [at |-> "reading", section |-> s, scope |-> p, since |-> Figures!Now,
                     figures |-> <<>>, until |-> Figures!Now]
<1>3. past' = past /\ cache' \subseteq cache
  BY <1>2 DEF Figures!Begin
<1>4. asked \in Asking
  <2>1. <<>> \in Seq(AllFigures)
    OBVIOUS
  <2> QED
    BY <1>1, <2>1 DEF Asking
<1>5. CASE reading' = [reading EXCEPT ![r] = asked]
  <2>1. /\ reading' \in [Requests -> Asking] /\ reading'[r] = asked
        /\ \A q \in Requests : q # r => reading'[q] = reading[q]
    BY <1>4, <1>5 DEF FiguresInv, FiguresTyped
  <2>2. ReadingTrue(r)' /\ AnsweredTrue(r)'
    BY <1>1, <1>3, <2>1 DEF ReadingTrue, AnsweredTrue
  <2>3. FiguresTyped'
    BY <1>3, <2>1 DEF FiguresInv, FiguresTyped
  <2>4. \A q \in Requests : q # r => ReadingTrue(q)' /\ AnsweredTrue(q)'
    BY <1>3, <2>1, AskingStays DEF FiguresInv
  <2>5. \A e \in cache' : KeptTrue(e)'
    BY <1>3, KeptStays DEF FiguresInv
  <2> QED
    BY <2>2, <2>3, <2>4, <2>5 DEF FiguresInv
<1>6. ASSUME NEW e \in Figures!Entries(Figures!KeyOf(s, p)), Figures!Valid(e),
             UNCHANGED cache,
             reading' = [reading EXCEPT ![r] = [asked EXCEPT !.at = "answered", !.figures = e.figures]]
      PROVE  FiguresInv'
  <2>1. /\ e \in cache /\ e.key = Figures!KeyOf(s, p)
        /\ e.at \in 1..L /\ e.figures \in Seq(AllFigures) /\ KeptTrue(e)
    BY <1>6 DEF Figures!Entries, FiguresInv, FiguresTyped
  <2>2. L - e.at <= TTL
    BY <1>1, <1>6 DEF Figures!Valid
  <2> DEFINE told == [asked EXCEPT !.at = "answered", !.figures = e.figures]
  <2>3. /\ told.at = "answered" /\ told.section = s /\ told.scope = p
        /\ told.figures = e.figures /\ told.until = L
    BY <1>1
  <2>4. told \in Asking
    BY <1>4, <2>1 DEF Asking
  <2> HIDE DEF told
  <2>5. /\ reading' \in [Requests -> Asking] /\ reading'[r] = told
        /\ \A q \in Requests : q # r => reading'[q] = reading[q]
    BY <1>6, <2>4 DEF FiguresInv, FiguresTyped, told
  <2>6. \A n \in 1..Len(e.figures) : \E t \in 1..L :
          /\ t + TTL + Flight >= L
          /\ e.figures[n] = Figures!Figure(Figures!Selects(s)[n], past[t], p, Figures!Day(t))
    <3>1. \A n \in 1..Len(e.figures) : \E t \in 1..e.at :
            /\ t + Flight >= e.at
            /\ e.figures[n] = Figures!Figure(Figures!Selects(s)[n], past[t], p, Figures!Day(t))
      BY <1>1, <2>1 DEF KeptTrue
    <3>2. \A t \in 1..e.at : t + Flight >= e.at => t \in 1..L /\ t + TTL + Flight >= L
      BY <1>1, <2>1, <2>2
    <3> HIDE DEF L
    <3> QED
      BY <3>1, <3>2
  <2>7. ReadingTrue(r)' /\ AnsweredTrue(r)'
    <3>1. /\ reading'[r].at = "answered" /\ reading'[r].section = s /\ reading'[r].scope = p
          /\ reading'[r].figures = e.figures /\ reading'[r].until = L
      BY <2>3, <2>5
    <3>2. ReadingTrue(r)'
      BY <3>1 DEF ReadingTrue
    <3>3. L <= L
      BY <1>1
    <3>4. AnsweredTrue(r)'
      BY <1>3, <2>6, <3>1, <3>3 DEF AnsweredTrue
    <3> QED
      BY <3>2, <3>4
  <2>8. FiguresTyped'
    BY <1>3, <1>6, <2>5 DEF FiguresInv, FiguresTyped
  <2>9. \A q \in Requests : q # r => ReadingTrue(q)' /\ AnsweredTrue(q)'
    BY <1>3, <2>5, AskingStays DEF FiguresInv
  <2>10. \A x \in cache' : KeptTrue(x)'
    BY <1>3, KeptStays DEF FiguresInv
  <2> QED
    BY <2>7, <2>8, <2>9, <2>10 DEF FiguresInv
<1> QED
  BY <1>2, <1>5, <1>6

LEMMA FiguresSelect ==
    ASSUME FiguresInv, Figures!LegalConstants, NEW r \in Requests, Figures!Select(r)
    PROVE  FiguresInv'
<1> DEFINE L == Len(past)
           a == reading[r]
           n == Len(a.figures) + 1
           f == Figures!Figure(Figures!Selects(a.section)[n], past[L], a.scope, Figures!Day(L))
<1>1. UNCHANGED <<past, cache>> /\ a.at = "reading" /\ ReadingTrue(r)
  BY DEF Figures!Select, FiguresInv
<1>2. /\ a \in Asking /\ a.figures \in Seq(AllFigures) /\ a.since \in Nat
      /\ L \in Nat /\ L > 0 /\ past[L] \in Figures!Tables
  BY AskingFields
<1>3. \A e \in cache' : KeptTrue(e)'
  BY <1>1, KeptStays DEF FiguresInv
<1>4. \/ reading' = [reading EXCEPT ![r].at = "error"]
      \/ reading' = [reading EXCEPT ![r].figures = Append(@, f)]
  BY DEF Figures!Select, Figures!Now
<1>5. CASE reading' = [reading EXCEPT ![r].at = "error"]
  <2>1. /\ reading' \in [Requests -> Asking] /\ reading'[r].at = "error"
        /\ \A q \in Requests : q # r => reading'[q] = reading[q]
    BY <1>5 DEF FiguresInv, FiguresTyped, Asking
  <2>2. ReadingTrue(r)' /\ AnsweredTrue(r)'
    BY <2>1 DEF ReadingTrue, AnsweredTrue
  <2>3. \A q \in Requests : q # r => ReadingTrue(q)' /\ AnsweredTrue(q)'
    BY <1>1, <2>1, AskingStays DEF FiguresInv
  <2>4. FiguresTyped'
    BY <1>1, <2>1 DEF FiguresInv, FiguresTyped
  <2> QED
    BY <1>3, <2>2, <2>3, <2>4 DEF FiguresInv
<1>6. CASE reading' = [reading EXCEPT ![r].figures = Append(@, f)]
  <2>1. f \in AllFigures
    <3>1. a.section \in Figures!Sections /\ a.scope \in Figures!Scopes /\ n \in Nat
      BY <1>1, <1>2 DEF ReadingTrue
    <3> QED
      BY <1>2, <3>1, Days, IsFigure
  <2> HIDE DEF f
  <2>2. Append(a.figures, f) \in Seq(AllFigures) /\ Len(Append(a.figures, f)) = n
    BY <1>2, <2>1
  <2>3. /\ reading'[r] = [a EXCEPT !.figures = Append(a.figures, f)]
        /\ \A q \in Requests : q # r => reading'[q] = reading[q]
    BY <1>6 DEF FiguresInv, FiguresTyped
  <2>4. /\ reading'[r].at = "reading" /\ reading'[r].section = a.section /\ reading'[r].scope = a.scope
        /\ reading'[r].since = a.since /\ reading'[r].figures = Append(a.figures, f)
    BY <1>1, <1>2, <2>3 DEF Asking
  <2>5. reading' \in [Requests -> Asking]
    BY <1>6, <1>2, <2>2 DEF FiguresInv, FiguresTyped, Asking
  <2>6. ASSUME NEW m \in 1..n PROVE WasTrue(r, m)'
    <3>1. CASE m = n
      <4>1. L \in a.since..L /\ Append(a.figures, f)[m] = f
        BY <1>1, <1>2, <2>1, <3>1 DEF ReadingTrue
      <4> QED
        BY <1>1, <2>4, <3>1, <4>1 DEF WasTrue, f
    <3>2. CASE m # n
      <4>1. m \in 1..Len(a.figures) /\ Append(a.figures, f)[m] = a.figures[m]
        BY <1>2, <2>1, <3>2
      <4>2. WasTrue(r, m)
        BY <1>1, <4>1 DEF ReadingTrue
      <4> QED
        BY <1>1, <2>4, <4>1, <4>2 DEF WasTrue
    <3> QED
      BY <3>1, <3>2
  <2>7. ReadingTrue(r)' /\ AnsweredTrue(r)'
    BY <1>1, <2>2, <2>4, <2>6 DEF ReadingTrue, AnsweredTrue
  <2>8. \A q \in Requests : q # r => ReadingTrue(q)' /\ AnsweredTrue(q)'
    BY <1>1, <2>3, AskingStays DEF FiguresInv
  <2> QED
    BY <1>1, <1>3, <2>5, <2>7, <2>8 DEF FiguresInv, FiguresTyped
<1> QED
  BY <1>4, <1>5, <1>6

LEMMA FiguresStore ==
    ASSUME FiguresInv, Figures!LegalConstants, NEW r \in Requests, Figures!Store(r)
    PROVE  FiguresInv'
<1> DEFINE L == Len(past)
           a == reading[r]
<1>1. past' = past /\ a.at = "reading" /\ Figures!Now = L
  BY DEF Figures!Store, Figures!Now
<1>0. ReadingTrue(r) /\ Flight \in Nat /\ TTL \in Nat
  BY DEF FiguresInv, Figures!LegalConstants
<1>2. a \in Asking /\ a.figures \in Seq(AllFigures) /\ a.since \in Nat /\ L \in Nat /\ L > 0
  BY AskingFields
<1>3. reading' = [reading EXCEPT ![r].at = "answered", ![r].until = L]
  BY <1>1 DEF Figures!Store
<1>4. reading' \in [Requests -> Asking] /\ \A q \in Requests : q # r => reading'[q] = reading[q]
  BY <1>2, <1>3 DEF FiguresInv, FiguresTyped, Asking
<1>5. /\ reading'[r].at = "answered" /\ reading'[r].section = a.section /\ reading'[r].scope = a.scope
      /\ reading'[r].until = L /\ reading'[r].figures = a.figures
  BY <1>2, <1>3 DEF FiguresInv, FiguresTyped, Asking
<1>5a. PICK k : k = [key |-> Figures!Key(r), at |-> L, figures |-> a.figures]
  OBVIOUS
<1>6. \A e \in cache' : e \in cache \/ e = k
  BY <1>1, <1>5a DEF Figures!Store
<1>7. \A n \in 1..Len(a.figures) : \E t \in 1..L :
        /\ t + Flight >= L
        /\ a.figures[n] = Figures!Figure(Figures!Selects(a.section)[n], past[t], a.scope, Figures!Day(t))
  <2>1. a.since \in 1..L /\ L <= a.since + Flight /\ \A n \in 1..Len(a.figures) : WasTrue(r, n)
    BY <1>0, <1>1 DEF ReadingTrue
  <2>2. \A t \in a.since..L : t \in 1..L /\ t + Flight >= L
    BY <1>0, <1>1, <1>2, <2>1
  <2> QED
    BY <2>1, <2>2 DEF WasTrue
<1>8. KeptTrue(k)'
  <2>1. k.key = Figures!KeyOf(a.section, a.scope) /\ k.at = L /\ k.figures = a.figures
    BY <1>5a DEF Figures!Key
  <2>2. ASSUME NEW s \in Figures!Sections, NEW p \in Figures!Scopes, k.key = Figures!KeyOf(s, p)
        PROVE  s = a.section /\ p = a.scope
    BY <2>1, <2>2 DEF Figures!KeyOf
  <2>3. /\ k.at = L /\ \A n \in 1..Len(k.figures) : \E t \in 1..k.at :
            /\ t + Flight >= k.at
            /\ k.figures[n] = Figures!Figure(Figures!Selects(a.section)[n], past[t], a.scope, Figures!Day(t))
    BY <1>7, <2>1
  <2> QED
    BY <1>1, <2>2, <2>3 DEF KeptTrue
<1>9. AnsweredTrue(r)' /\ ReadingTrue(r)'
  <2>1. \A t \in 1..L : t + Flight >= L => t + TTL + Flight >= L
    BY <1>0, <1>2
  <2>2. L <= L
    BY <1>2
  <2> QED
    BY <1>1, <1>5, <1>7, <2>1, <2>2 DEF AnsweredTrue, ReadingTrue
<1>10. \A q \in Requests : q # r => ReadingTrue(q)' /\ AnsweredTrue(q)'
  BY <1>1, <1>4, AskingStays DEF FiguresInv
<1>11. \A e \in cache : KeptTrue(e)'
  BY <1>1, KeptStays DEF FiguresInv
<1>12. FiguresTyped'
  <2>1. k.at \in 1..L /\ k.figures \in Seq(AllFigures)
    BY <1>2, <1>5a
  <2> QED
    BY <1>1, <1>4, <1>6, <2>1 DEF FiguresInv, FiguresTyped
<1> QED
  BY <1>6, <1>8, <1>9, <1>10, <1>11, <1>12 DEF FiguresInv

LEMMA FiguresKeep ==
    ASSUME FiguresInv, Figures!LegalConstants, [Figures!Next]_(Figures!vars)
    PROVE  FiguresInv'
<1>1. CASE UNCHANGED Figures!vars
  BY <1>1 DEF Figures!vars, FiguresInv, FiguresTyped, ReadingTrue, AnsweredTrue, KeptTrue, WasTrue
<1> QED
  BY <1>1, FiguresChange, FiguresBegin, FiguresSelect, FiguresStore DEF Figures!Next

LEMMA FiguresSuffice == ASSUME FiguresInv PROVE Figures!FiguresWereTrue
BY DEF FiguresInv, AnsweredTrue, Figures!FiguresWereTrue

-----------------------------------------------------------------------------
\* Reports: what was announced, and where the task is that announced it.
TaskSteps == {"new", "generate", "upload", "mark", "notify", "publish",
              "rescue", "publish_failed", "over", "lost"}

MarkType == [at : {"new", "insert", "over"}, of : Requests \cup {""}, answer : {"none", "read", "failed"}]

ReportsTyped ==
    /\ report \in [Requests -> {"none", "generating", "ready", "failed", "deleted"}]
    /\ task \in [Requests -> TaskSteps]
    /\ mark \in [Requests -> MarkType]
    /\ reads \in [Requests -> Nat]

ToldReady(r) == r \in notified \/ <<r, "ready">> \in events

\* Where a report's task is when its row is ready, its file stored, and who
\* asked for it told.
Stands(r) ==
    /\ ToldReady(r) => /\ task[r] \in {"publish", "over", "lost"} /\ r \in files
                       /\ report[r] = "ready" \/ report[r] = "deleted"
    /\ <<r, "failed">> \in events => task[r] \in {"over", "lost"} /\ ~ToldReady(r)
    /\ report[r] = "ready" => task[r] \in {"notify", "publish", "rescue", "publish_failed", "over", "lost"} /\ r \in files
    /\ task[r] = "mark" => r \in files
    /\ task[r] \in {"notify", "publish"} => report[r] = "ready"
    /\ report[r] = "deleted" => r \in old
    /\ r \in old => task[r] \in {"over", "lost"}

MarkStands(m) ==
    /\ mark[m].at # "new" => mark[m].of \in Requests
    /\ mark[m].answer = "read" => mark[m].at = "over" /\ reads[mark[m].of] > 0

ReportsInv ==
    /\ ReportsTyped
    /\ \A r \in Requests : Stands(r)
    /\ \A m \in Requests : MarkStands(m)

LEMMA ReportsInit == Reporting!Init => ReportsInv
<1> SUFFICES ASSUME Reporting!Init PROVE ReportsInv
  OBVIOUS
<1>1. /\ report = [r \in Requests |-> "none"] /\ task = [r \in Requests |-> "new"]
      /\ files = {} /\ notified = {} /\ events = {} /\ old = {} /\ reads = [r \in Requests |-> 0]
  BY DEF Reporting!Init
<1>2. mark = [m \in Requests |-> [at |-> "new", of |-> "", answer |-> "none"]]
  BY DEF Reporting!Init
<1>3. ReportsTyped
  <2>1. [at |-> "new", of |-> "", answer |-> "none"] \in MarkType
    BY DEF MarkType
  <2> QED
    BY <1>1, <1>2, <2>1 DEF ReportsTyped, TaskSteps
<1>4. ASSUME NEW r \in Requests PROVE Stands(r)
  <2>1. report[r] = "none" /\ task[r] = "new" /\ r \notin notified /\ r \notin old
    BY <1>1
  <2>2. <<r, "ready">> \notin events /\ <<r, "failed">> \notin events
    BY <1>1
  <2> QED
    BY <2>1, <2>2 DEF Stands, ToldReady
<1>5. ASSUME NEW m \in Requests PROVE MarkStands(m)
  <2>1. mark[m].at = "new" /\ mark[m].answer = "none"
    BY <1>2
  <2> QED
    BY <2>1 DEF MarkStands
<1> QED
  BY <1>3, <1>4, <1>5 DEF ReportsInv

\* A step of one task leaves the others and the marks alone.
LEMMA OthersStand ==
    ASSUME ReportsInv, NEW r \in Requests, ReportsTyped', Stands(r)', UNCHANGED <<mark, reads>>,
           \A q \in Requests : q # r =>
               /\ report'[q] = report[q] /\ task'[q] = task[q] /\ (q \in files' <=> q \in files)
               /\ (q \in notified' <=> q \in notified) /\ (q \in old' <=> q \in old)
               /\ (<<q, "ready">> \in events' <=> <<q, "ready">> \in events)
               /\ (<<q, "failed">> \in events' <=> <<q, "failed">> \in events)
    PROVE  ReportsInv'
<1>1. ASSUME NEW q \in Requests, q # r PROVE Stands(q)'
  <2>1. /\ report'[q] = report[q] /\ task'[q] = task[q] /\ (q \in files' <=> q \in files)
        /\ (q \in notified' <=> q \in notified) /\ (q \in old' <=> q \in old)
    BY <1>1
  <2>2. (<<q, "ready">> \in events' <=> <<q, "ready">> \in events)
    BY <1>1
  <2>3. (<<q, "failed">> \in events' <=> <<q, "failed">> \in events)
    BY <1>1
  <2>4. Stands(q)
    BY DEF ReportsInv
  <2> QED
    BY <2>1, <2>2, <2>3, <2>4 DEF Stands, ToldReady
<1>2. \A m \in Requests : MarkStands(m)'
  BY DEF ReportsInv, MarkStands
<1> QED
  BY <1>1, <1>2 DEF ReportsInv

LEMMA TaskKeeps == ASSUME ReportsInv, NEW r \in Requests, Reporting!Task(r) PROVE ReportsInv'
<1>1. /\ ReportsTyped /\ Stands(r) /\ UNCHANGED <<mark, reads>>
  BY DEF ReportsInv, Reporting!Task, Reporting!Ask, Reporting!Generate, Reporting!Upload,
     Reporting!Ready, Reporting!Notify, Reporting!Publish, Reporting!Rescue,
     Reporting!PublishFailed, Reporting!Expire
<1>2. ReportsTyped'
  BY <1>1 DEF ReportsTyped, TaskSteps, Reporting!Task, Reporting!Ask, Reporting!Generate,
     Reporting!Upload, Reporting!Ready, Reporting!Notify, Reporting!Publish, Reporting!Rescue,
     Reporting!PublishFailed, Reporting!Expire, Reporting!Goto, Reporting!Marked
<1>3. \A q \in Requests : q # r =>
        /\ report'[q] = report[q] /\ task'[q] = task[q]
        /\ (q \in files' <=> q \in files) /\ (q \in notified' <=> q \in notified) /\ (q \in old' <=> q \in old)
  BY <1>1 DEF ReportsTyped, Reporting!Task, Reporting!Ask, Reporting!Generate, Reporting!Upload,
     Reporting!Ready, Reporting!Notify, Reporting!Publish, Reporting!Rescue,
     Reporting!PublishFailed, Reporting!Expire, Reporting!Goto, Reporting!Marked
<1>4. \A q \in Requests : q # r =>
        /\ (<<q, "ready">> \in events' <=> <<q, "ready">> \in events)
        /\ (<<q, "failed">> \in events' <=> <<q, "failed">> \in events)
  <2>1. \A x : x \in events' => x \in events \/ x = <<r, "ready">> \/ x = <<r, "failed">>
    BY DEF Reporting!Task, Reporting!Ask, Reporting!Generate, Reporting!Upload, Reporting!Ready,
       Reporting!Notify, Reporting!Publish, Reporting!Rescue, Reporting!PublishFailed,
       Reporting!Expire
  <2>2. events \subseteq events'
    BY DEF Reporting!Task, Reporting!Ask, Reporting!Generate, Reporting!Upload, Reporting!Ready,
       Reporting!Notify, Reporting!Publish, Reporting!Rescue, Reporting!PublishFailed,
       Reporting!Expire
  <2> QED
    BY <2>1, <2>2
<1>5. Stands(r)'
  <2>1. CASE Reporting!Ask(r)
    BY <1>1, <2>1 DEF Reporting!Ask, Reporting!Goto, Stands, ToldReady, ReportsTyped
  <2>2. CASE Reporting!Generate(r)
    BY <1>1, <2>2 DEF Reporting!Generate, Reporting!Goto, Stands, ToldReady, ReportsTyped
  <2>3. CASE Reporting!Upload(r)
    BY <1>1, <2>3 DEF Reporting!Upload, Reporting!Goto, Stands, ToldReady, ReportsTyped
  <2>4. CASE Reporting!Ready(r)
    BY <1>1, <2>4 DEF Reporting!Ready, Reporting!Goto, Reporting!Marked, Stands, ToldReady,
       ReportsTyped
  <2>5. CASE Reporting!Notify(r)
    BY <1>1, <2>5 DEF Reporting!Notify, Reporting!Goto, Stands, ToldReady, ReportsTyped
  <2>6. CASE Reporting!Publish(r)
    BY <1>1, <2>6 DEF Reporting!Publish, Reporting!Goto, Stands, ToldReady, ReportsTyped
  <2>7. CASE Reporting!Rescue(r)
    BY <1>1, <2>7 DEF Reporting!Rescue, Reporting!Goto, Reporting!Marked, Stands, ToldReady,
       ReportsTyped
  <2>8. CASE Reporting!PublishFailed(r)
    BY <1>1, <2>8 DEF Reporting!PublishFailed, Reporting!Goto, Stands, ToldReady, ReportsTyped
  <2>9. CASE Reporting!Expire(r)
    BY <1>1, <2>9 DEF Reporting!Expire, Stands, ToldReady, ReportsTyped
  <2> QED
    BY <2>1, <2>2, <2>3, <2>4, <2>5, <2>6, <2>7, <2>8, <2>9 DEF Reporting!Task
<1> QED
  BY <1>1, <1>2, <1>3, <1>4, <1>5, OthersStand

LEMMA ReportsKeep == ASSUME ReportsInv, [Reporting!Next]_(Reporting!vars) PROVE ReportsInv'
<1>1. CASE UNCHANGED Reporting!vars
  BY <1>1 DEF Reporting!vars, ReportsInv, ReportsTyped, Stands, ToldReady, MarkStands
<1>2. CASE Reporting!Cleanup
  <2>1. UNCHANGED <<task, files, notified, events, old, mark, reads>>
    BY <1>2 DEF Reporting!Cleanup
  <2>2. report' = [r \in Requests |-> IF r \in old /\ report[r] # "none" THEN "deleted" ELSE report[r]]
    BY <1>2 DEF Reporting!Cleanup
  <2>3. ReportsTyped'
    BY <2>1, <2>2 DEF ReportsInv, ReportsTyped
  <2>4. \A r \in Requests : Stands(r)'
    BY <2>1, <2>2 DEF ReportsInv, ReportsTyped, Stands, ToldReady
  <2> QED
    BY <2>1, <2>3, <2>4 DEF ReportsInv, MarkStands
<1>3. CASE Reporting!Crash
  <2>1. UNCHANGED <<report, files, notified, events, old, mark, reads>>
    BY <1>3 DEF Reporting!Crash
  <2>2. task' = [r \in Requests |-> IF r \in Reporting!Running THEN "lost" ELSE task[r]]
    BY <1>3 DEF Reporting!Crash
  <2>3. ReportsTyped'
    BY <2>1, <2>2 DEF ReportsInv, ReportsTyped, TaskSteps
  <2>4. \A r \in Requests : Stands(r)'
    BY <2>1, <2>2 DEF ReportsInv, ReportsTyped, Stands, ToldReady, Reporting!Running
  <2> QED
    BY <2>1, <2>3, <2>4 DEF ReportsInv, MarkStands
<1>4. ASSUME NEW m \in Requests, Reporting!MakeMark(m) \/ \E r \in Requests : Reporting!LookForMark(m, r)
      PROVE  ReportsInv'
  <2>1. UNCHANGED <<report, task, files, notified, events, old>>
    BY <1>4 DEF Reporting!MakeMark, Reporting!LookForMark
  <2>2. ReportsTyped /\ MarkStands(m)
    BY DEF ReportsInv
  <2>3. \A n \in Requests : n # m => mark'[n] = mark[n]
    BY <1>4, <2>2 DEF Reporting!MakeMark, Reporting!LookForMark, ReportsTyped
  <2>4. CASE Reporting!MakeMark(m)
    <3>1. mark[m].of \in Requests /\ mark[m].at = "insert" /\ reads[mark[m].of] \in Nat
      BY <2>2, <2>4 DEF Reporting!MakeMark, MarkStands, ReportsTyped
    <3> DEFINE q == mark[m].of
    <3>2. PICK a \in {"read", "failed"} :
            /\ mark' = [mark EXCEPT ![m].at = "over", ![m].answer = a]
            /\ a = "read" => reads' = [reads EXCEPT ![q] = @ + 1]
            /\ a = "failed" => reads' = reads
      BY <2>4 DEF Reporting!MakeMark
    <3>3. /\ mark' \in [Requests -> MarkType]
          /\ mark'[m].of = q /\ mark'[m].at = "over" /\ mark'[m].answer = a
      <4>1. mark \in [Requests -> MarkType]
        BY <2>2 DEF ReportsTyped
      <4> HIDE DEF q
      <4>2. mark[m] \in MarkType /\ [[mark[m] EXCEPT !.at = "over"] EXCEPT !.answer = a] \in MarkType
        BY <4>1 DEF MarkType
      <4>3. mark[m].of = q
        BY DEF q
      <4> QED
        BY <3>2, <4>1, <4>2, <4>3 DEF MarkType
    <3>4. reads' \in [Requests -> Nat] /\ (\A r \in Requests : reads'[r] >= reads[r])
          /\ (a = "read" => reads'[q] > 0)
      <4>1. CASE a = "read"
        <5>1. reads' = [reads EXCEPT ![q] = reads[q] + 1] /\ reads \in [Requests -> Nat]
          BY <2>2, <3>2, <4>1 DEF ReportsTyped
        <5> HIDE DEF q
        <5>2. q \in Requests
          BY <3>1 DEF q
        <5> QED
          BY <5>1, <5>2
      <4>2. CASE a = "failed"
        BY <2>2, <3>2, <4>2 DEF ReportsTyped
      <4> QED
        BY <4>1, <4>2
    <3>5. \A n \in Requests : MarkStands(n)'
      <4>1. MarkStands(m)'
        BY <3>1, <3>3, <3>4 DEF MarkStands
      <4>2. ASSUME NEW n \in Requests, n # m PROVE MarkStands(n)'
        <5>1. MarkStands(n) /\ mark'[n] = mark[n] /\ mark[n].at \in {"new", "insert", "over"}
          BY <2>3, <4>2 DEF ReportsInv, ReportsTyped, MarkType
        <5>2. mark[n].answer = "read" => mark[n].of \in Requests /\ reads'[mark[n].of] > 0
          <6>1. SUFFICES ASSUME mark[n].answer = "read" PROVE mark[n].of \in Requests /\ reads'[mark[n].of] > 0
            OBVIOUS
          <6>2. mark[n].of \in Requests /\ reads[mark[n].of] > 0
            BY <5>1, <6>1 DEF MarkStands
          <6> QED
            BY <2>2, <3>4, <6>2 DEF ReportsTyped
        <5> QED
          BY <5>1, <5>2 DEF MarkStands
      <4> QED
        BY <4>1, <4>2
    <3> QED
      BY <2>1, <3>3, <3>4, <3>5 DEF ReportsInv, ReportsTyped, Stands, ToldReady
  <2>5. ASSUME NEW r \in Requests, Reporting!LookForMark(m, r) PROVE ReportsInv'
    <3>1. UNCHANGED reads /\ mark' \in [Requests -> MarkType]
      BY <2>2, <2>5 DEF Reporting!LookForMark, ReportsTyped, MarkType
    <3>2. MarkStands(m)'
      BY <2>2, <2>5, <3>1 DEF Reporting!LookForMark, MarkStands, ReportsTyped
    <3>3. \A n \in Requests : MarkStands(n)'
      BY <2>3, <3>1, <3>2 DEF ReportsInv, MarkStands
    <3> QED
      BY <2>1, <3>1, <3>3 DEF ReportsInv, ReportsTyped, Stands, ToldReady
  <2> QED
    BY <1>4, <2>4, <2>5
<1>5. ASSUME NEW d \in Downloads, Reporting!EndDownload(d) \/ \E r \in Requests : Reporting!OpenDownload(d, r)
      PROVE  ReportsInv'
  <2>1. UNCHANGED <<report, task, files, notified, events, old, mark, reads>>
    BY <1>5 DEF Reporting!EndDownload, Reporting!OpenDownload
  <2> QED
    BY <2>1 DEF ReportsInv, ReportsTyped, Stands, ToldReady, MarkStands
<1> QED
  BY <1>1, <1>2, <1>3, <1>4, <1>5, TaskKeeps DEF Reporting!Next

LEMMA ReportsSuffice == ReportsInv => Reporting!AnnouncementsStand
BY DEF ReportsInv, Stands, ToldReady, MarkStands, Reporting!AnnouncementsStand

-----------------------------------------------------------------------------
\* LedgerUpkeep: what is read, kept and answered covers the rows of before.
\* A set of numbers up to a bound has a lowest and a highest one.
LEMMA Extremes ==
    ASSUME NEW n \in Nat, NEW S \in SUBSET (0..n), S # {}
    PROVE  (\E x \in S : \A y \in S : x <= y) /\ (\E x \in S : \A y \in S : y <= x)
<1>1. ASSUME NEW T \in SUBSET Nat, T # {} PROVE \E x \in T : \A y \in T : x <= y
  <2>1. PICK x \in T : \A y \in T : ~ (<<y, x>> \in OpToRel(<, Nat))
    BY <1>1, WFMin, NatLessThanWellFounded
  <2>2. \A y \in T : ~ (y < x)
    BY <1>1, <2>1 DEF OpToRel
  <2> QED
    BY <1>1, <2>2
<1>2. \E x \in S : \A y \in S : x <= y
  BY <1>1
<1> DEFINE T == {n - x : x \in S}
<1>3. PICK z \in T : \A y \in T : z <= y
  <2>1. \A x \in S : n - x \in Nat
    OBVIOUS
  <2>2. T \subseteq Nat /\ T # {}
    BY <2>1
  <2> HIDE DEF T
  <2> QED
    BY <1>1, <2>2
<1>4. PICK x \in S : z = n - x
  OBVIOUS
<1>5. \A y \in S : n - x <= n - y
  BY <1>3, <1>4
<1>6. \A y \in S : y <= x
  BY <1>5
<1> QED
  BY <1>2, <1>6

LEMMA BoundsExist ==
    ASSUME NEW n \in Nat, NEW S \in SUBSET (0..n)
    PROVE  /\ Upkeep!Lowest(S) \in Nat /\ Upkeep!Highest(S) \in Nat
           /\ \A m \in S : m \in Upkeep!Lowest(S)..Upkeep!Highest(S)
<1>1. \A m \in S : m \in Nat
  OBVIOUS
<1>2. CASE S = {}
  BY <1>2 DEF Upkeep!Lowest, Upkeep!Highest
<1>3. CASE S # {}
  <2>1. PICK x \in S : \A y \in S : x <= y
    BY <1>3, Extremes
  <2>2. PICK z \in S : \A y \in S : y <= z
    BY <1>3, Extremes
  <2>3. Upkeep!Lowest(S) \in S /\ \A m \in S : Upkeep!Lowest(S) <= m
    BY <2>1 DEF Upkeep!Lowest
  <2>4. Upkeep!Highest(S) \in S /\ \A m \in S : m <= Upkeep!Highest(S)
    BY <2>2 DEF Upkeep!Highest
  <2>5. Upkeep!Lowest(S) \in Nat /\ Upkeep!Highest(S) \in Nat
    BY <1>1, <2>3, <2>4
  <2> QED
    BY <1>1, <2>3, <2>4, <2>5
<1> QED
  BY <1>2, <1>3

Bounds(n, b) == n \in b.oldest..b.latest

PollType(t) == [at : {"new", "read", "store", "over"}, asked : 0..t, latest : Nat, oldest : Nat]

UpkeepTyped ==
    /\ tick \in Nat
    /\ write \in [Requests -> {"new", "inserted", "committed", "over"}]
    /\ number \in [Requests -> 0..Cardinality(Requests)]
    /\ stamp \in [Requests -> Nat] /\ committedAt \in [Requests -> Nat]
    /\ held \subseteq [at : 0..tick, latest : Nat, oldest : Nat]
    /\ poll \in [Requests -> PollType(tick)]
    /\ prune \in [at : {"idle", "running"}, cutoff : Nat]

\* What was read covers the rows committed before it was asked for, so an
\* answer from the cache those committed TTL before.
Covered ==
    /\ \A e, f \in held : e = f
    /\ \A e \in held : \A w \in Upkeep!Rows : committedAt[w] < e.at => Bounds(number[w], e)
    /\ \A p \in Requests : poll[p].at = "store" =>
          \A w \in Upkeep!Rows : committedAt[w] < poll[p].asked => Bounds(number[w], poll[p])
    /\ \A p \in Requests : poll[p].at = "over" =>
          \A w \in Upkeep!Rows : committedAt[w] + TTL <= poll[p].asked => Bounds(number[w], poll[p])

\* The cut-off was far enough back when the prune began.
Ripe == prune.at = "running" => prune.cutoff + Retention <= tick

UpkeepInv == UpkeepTyped /\ Covered /\ Ripe /\ wrongly = {}

LEMMA SameSize == \A S : Upkeep!Cardinality(S) = Cardinality(S)
BY DEF Upkeep!Cardinality, Cardinality

LEMMA UpkeepInit == ASSUME Upkeep!LegalConstants, Upkeep!Init PROVE UpkeepInv
<1>1. Cardinality(Requests) \in Nat
  BY FS_CardinalityType DEF Upkeep!LegalConstants, Upkeep!IsFiniteSet, IsFiniteSet
<1>2. UpkeepTyped
  BY <1>1 DEF Upkeep!Init, UpkeepTyped, PollType, Upkeep!Unasked
<1>3. Covered
  BY DEF Upkeep!Init, Covered, Upkeep!Unasked
<1> QED
  BY <1>2, <1>3 DEF Upkeep!Init, UpkeepInv, Ripe

\* A row that is there stays as it is until it is pruned.
LEMMA RowsStay ==
    ASSUME UpkeepInv, Upkeep!LegalConstants, Upkeep!Next, NEW w \in Upkeep!Rows'
    PROVE  \/ w \in Upkeep!Rows /\ number'[w] = number[w] /\ committedAt'[w] = committedAt[w]
           \/ committedAt'[w] = tick /\ UNCHANGED <<held, poll>>
<1>1. CASE \E v \in Requests : Upkeep!Commit(v)
  BY <1>1 DEF UpkeepInv, UpkeepTyped, Upkeep!Rows, Upkeep!Commit
<1>2. CASE \E v \in Requests : Upkeep!Insert(v)
  BY <1>2 DEF UpkeepInv, UpkeepTyped, Upkeep!Rows, Upkeep!Insert
<1>3. CASE \E v \in Requests : Upkeep!Invalidate(v)
  BY <1>3 DEF UpkeepInv, UpkeepTyped, Upkeep!Rows, Upkeep!Invalidate
<1>4. CASE UNCHANGED <<write, number, committedAt>> /\ gone \subseteq gone'
  BY <1>4 DEF Upkeep!Rows
<1> QED
  BY <1>1, <1>2, <1>3, <1>4 DEF Upkeep!Next, Upkeep!BeginPrune, Upkeep!DeleteBatch, Upkeep!Tick,
     Upkeep!Poll, Upkeep!ReadBounds, Upkeep!Store

LEMMA AskedTyped == \A t \in Nat : [Upkeep!Unasked EXCEPT !.at = "read", !.asked = t] \in PollType(t)
<1>1. ASSUME NEW t \in Nat, NEW u \in PollType(t)
      PROVE  [u EXCEPT !.at = "read", !.asked = t] \in PollType(t)
  <2>1. t \in 0..t
    OBVIOUS
  <2>2. \A S : t \in S =>
          \A v \in [at : {"new", "read", "store", "over"}, asked : S, latest : Nat, oldest : Nat] :
             [v EXCEPT !.at = "read", !.asked = t]
                \in [at : {"new", "read", "store", "over"}, asked : S, latest : Nat, oldest : Nat]
    OBVIOUS
  <2> QED
    BY <2>1, <2>2 DEF PollType
<1>2. \A t \in Nat : Upkeep!Unasked \in PollType(t)
  BY DEF Upkeep!Unasked, PollType
<1> QED
  BY <1>1, <1>2

LEMMA ReadTyped ==
    ASSUME NEW t, NEW h \in Nat, NEW l \in Nat, NEW p \in Requests, NEW q \in [Requests -> PollType(t)]
    PROVE  [q EXCEPT ![p].at = "store", ![p].latest = h, ![p].oldest = l] \in [Requests -> PollType(t)]
BY DEF PollType

LEMMA UpkeepTypesStay == ASSUME UpkeepInv, Upkeep!LegalConstants, Upkeep!Next PROVE UpkeepTyped'
<1> USE DEF UpkeepInv, UpkeepTyped
<1>0. IsFiniteSet(Requests) /\ Cardinality(Requests) \in Nat /\ TTL \in Nat /\ Retention \in Nat
  BY FS_CardinalityType DEF Upkeep!LegalConstants, Upkeep!IsFiniteSet, IsFiniteSet
<1>1. ASSUME NEW w \in Requests, Upkeep!Insert(w) PROVE UpkeepTyped'
  <2> DEFINE D == {v \in Requests : write[v] # "new"}
  <2>1. D \in SUBSET Requests /\ D # Requests
    BY <1>1 DEF Upkeep!Insert
  <2>2. Cardinality(D) \in Nat /\ Cardinality(D) < Cardinality(Requests)
    BY <2>1, <1>0, FS_Subset, FS_CardinalityType
  <2>3. Upkeep!Drawn + 1 \in 0..Cardinality(Requests)
    BY <2>2, <1>0, SameSize DEF Upkeep!Drawn
  <2> QED
    BY <1>1, <2>3 DEF Upkeep!Insert
<1>2. ASSUME NEW w \in Requests, Upkeep!Commit(w) PROVE UpkeepTyped'
  BY <1>2 DEF Upkeep!Commit
<1>3. ASSUME NEW w \in Requests, Upkeep!Invalidate(w) PROVE UpkeepTyped'
  BY <1>3 DEF Upkeep!Invalidate
<1>4. ASSUME NEW p \in Requests, Upkeep!Poll(p) PROVE UpkeepTyped'
  <2>1. CASE \E e \in held : tick - e.at < TTL
    <3> DEFINE e == CHOOSE x \in held : TRUE
    <3>1. e \in held
      BY <2>1
    <3>2. poll' = [poll EXCEPT ![p] = [at |-> "over", asked |-> tick, latest |-> e.latest, oldest |-> e.oldest]]
      BY <1>4, <2>1 DEF Upkeep!Poll
    <3> HIDE DEF e
    <3>3. e.latest \in Nat /\ e.oldest \in Nat /\ tick \in 0..tick
      BY <3>1
    <3>4. poll' \in [Requests -> PollType(tick)]
      BY <3>2, <3>3 DEF PollType
    <3> QED
      BY <1>4, <3>4 DEF Upkeep!Poll
  <2>2. CASE ~ \E e \in held : tick - e.at < TTL
    <3>1. poll' = [poll EXCEPT ![p] = [Upkeep!Unasked EXCEPT !.at = "read", !.asked = tick]]
      BY <1>4, <2>2 DEF Upkeep!Poll
    <3>2. poll' \in [Requests -> PollType(tick)]
      BY <3>1, AskedTyped
    <3> QED
      BY <1>4, <3>2 DEF Upkeep!Poll
  <2> QED
    BY <2>1, <2>2
<1>5. ASSUME NEW p \in Requests, Upkeep!ReadBounds(p) PROVE UpkeepTyped'
  <2>1. Upkeep!Highest(Upkeep!Numbers(Upkeep!Rows)) \in Nat /\ Upkeep!Lowest(Upkeep!Numbers(Upkeep!Rows)) \in Nat
    <3> DEFINE S == Upkeep!Numbers(Upkeep!Rows)
    <3>1. S \in SUBSET (0..Cardinality(Requests))
      <4>1. \A w \in Upkeep!Rows : number[w] \in 0..Cardinality(Requests)
        BY DEF Upkeep!Rows
      <4> QED
        BY <4>1 DEF Upkeep!Numbers
    <3> QED
      BY <3>1, <1>0, BoundsExist
  <2>2. poll' \in [Requests -> PollType(tick)]
    BY <1>5, <2>1, ReadTyped DEF Upkeep!ReadBounds
  <2> QED
    BY <1>5, <2>2 DEF Upkeep!ReadBounds
<1>6. ASSUME NEW p \in Requests, Upkeep!Store(p) PROVE UpkeepTyped'
  BY <1>6 DEF Upkeep!Store, Upkeep!Entry, PollType
<1>7. CASE Upkeep!BeginPrune
  BY <1>0, <1>7 DEF Upkeep!BeginPrune
<1>8. CASE Upkeep!DeleteBatch
  BY <1>8 DEF Upkeep!DeleteBatch
<1>9. CASE Upkeep!Tick
  <2>1. 0..tick \subseteq 0..tick'
    BY <1>9 DEF Upkeep!Tick
  <2> QED
    BY <1>9, <2>1 DEF Upkeep!Tick, PollType
<1> QED
  BY <1>1, <1>2, <1>3, <1>4, <1>5, <1>6, <1>7, <1>8, <1>9 DEF Upkeep!Next

LEMMA UpkeepCovers == ASSUME UpkeepInv, Upkeep!LegalConstants, Upkeep!Next PROVE Covered'
<1>0. TTL \in Nat \ {0} /\ Cardinality(Requests) \in Nat
  BY FS_CardinalityType DEF Upkeep!LegalConstants, Upkeep!IsFiniteSet, IsFiniteSet
<1>1. \A w \in Upkeep!Rows' : w \in Requests /\ committedAt'[w] \in Nat
  BY UpkeepTypesStay DEF UpkeepTyped, PollType, Upkeep!Rows
<1>2. CASE \E w \in Requests : Upkeep!Insert(w) \/ Upkeep!Commit(w)
  <2>1. UNCHANGED <<held, poll>>
    BY <1>2 DEF Upkeep!Insert, Upkeep!Commit
  <2> QED
    BY <2>1, <1>0, <1>1, RowsStay DEF UpkeepInv, UpkeepTyped, PollType, Covered, Bounds
<1>3. CASE (\E w \in Requests : Upkeep!Invalidate(w)) \/ Upkeep!BeginPrune \/ Upkeep!DeleteBatch \/ Upkeep!Tick
  <2>1. UNCHANGED poll /\ held' \subseteq held
    BY <1>3 DEF Upkeep!Invalidate, Upkeep!BeginPrune, Upkeep!DeleteBatch, Upkeep!Tick
  <2> QED
    BY <2>1, <1>0, <1>1, RowsStay DEF UpkeepInv, UpkeepTyped, PollType, Covered, Bounds
<1>4. ASSUME NEW p \in Requests, Upkeep!Poll(p) \/ Upkeep!ReadBounds(p) \/ Upkeep!Store(p)
      PROVE  Covered'
  <2>1. UNCHANGED <<write, number, committedAt, gone, tick>> /\ Upkeep!Rows' = Upkeep!Rows
    BY <1>4 DEF Upkeep!Poll, Upkeep!ReadBounds, Upkeep!Store, Upkeep!Rows
  <2>2. held' = held \/ (Upkeep!Store(p) /\ held' = {Upkeep!Entry(p)})
    BY <1>4 DEF Upkeep!Poll, Upkeep!ReadBounds, Upkeep!Store
  <2>3. \A q \in Requests : q # p => poll'[q] = poll[q]
    BY <1>4 DEF Upkeep!Poll, Upkeep!ReadBounds, Upkeep!Store, UpkeepInv, UpkeepTyped, PollType
  <2>4. \A e, f \in held' : e = f
    BY <2>2 DEF UpkeepInv, Covered
  <2>5. ASSUME NEW e \in held', NEW w \in Upkeep!Rows, committedAt[w] < e.at PROVE Bounds(number[w], e)
    <3>1. CASE e \in held
      BY <3>1, <2>5 DEF UpkeepInv, Covered
    <3>2. CASE Upkeep!Store(p) /\ e = Upkeep!Entry(p)
      <4>1. e.at = poll[p].asked /\ e.latest = poll[p].latest /\ e.oldest = poll[p].oldest
        BY <3>2 DEF Upkeep!Entry
      <4> QED
        BY <4>1, <3>2, <2>5 DEF UpkeepInv, Covered, Upkeep!Store, Bounds
    <3> QED
      BY <3>1, <3>2, <2>2
  <2>6. /\ poll'[p].at = "store" => \A w \in Upkeep!Rows :
             committedAt[w] < poll'[p].asked => Bounds(number[w], poll'[p])
        /\ poll'[p].at = "over" => \A w \in Upkeep!Rows :
             committedAt[w] + TTL <= poll'[p].asked => Bounds(number[w], poll'[p])
    <3>1. CASE Upkeep!Poll(p)
      <4>1. CASE \E e \in held : tick - e.at < TTL
        <5>1. PICK e \in held : tick - e.at < TTL
          BY <4>1
        <5>2. (CHOOSE x \in held : TRUE) = e
          BY <5>1 DEF UpkeepInv, Covered
        <5>3. poll'[p] = [at |-> "over", asked |-> tick, latest |-> e.latest, oldest |-> e.oldest]
          BY <3>1, <4>1, <5>2 DEF Upkeep!Poll, UpkeepInv, UpkeepTyped, PollType
        <5>4. tick \in Nat /\ e.at \in Nat /\ \A w \in Upkeep!Rows : committedAt[w] \in Nat
          BY <5>1 DEF UpkeepInv, UpkeepTyped, PollType, Upkeep!Rows
        <5>5. \A w \in Upkeep!Rows : committedAt[w] + TTL <= tick => committedAt[w] < e.at
          BY <5>1, <5>4, <1>0
        <5> QED
          BY <5>1, <5>3, <5>5 DEF UpkeepInv, Covered, Bounds
      <4>2. CASE ~ \E e \in held : tick - e.at < TTL
        BY <3>1, <4>2 DEF Upkeep!Poll, UpkeepInv, UpkeepTyped, PollType, Upkeep!Unasked
      <4> QED
        BY <4>1, <4>2
    <3>2. CASE Upkeep!ReadBounds(p)
      <4> DEFINE S == Upkeep!Numbers(Upkeep!Rows)
      <4>1. poll'[p].at = "store" /\ poll'[p].latest = Upkeep!Highest(S) /\ poll'[p].oldest = Upkeep!Lowest(S)
        BY <3>2 DEF Upkeep!ReadBounds, UpkeepInv, UpkeepTyped, PollType
      <4>2. S \in SUBSET (0..Cardinality(Requests))
        BY DEF Upkeep!Numbers, Upkeep!Rows, UpkeepInv, UpkeepTyped, PollType
      <4>3. ASSUME NEW w \in Upkeep!Rows PROVE number[w] \in Upkeep!Lowest(S)..Upkeep!Highest(S)
        <5>1. number[w] \in S
          BY DEF Upkeep!Numbers
        <5> QED
          BY <5>1, <4>2, <1>0, BoundsExist
      <4> QED
        BY <4>1, <4>3 DEF Bounds
    <3>3. CASE Upkeep!Store(p)
      <4>1. poll[p].at = "store" /\ poll'[p] = [poll[p] EXCEPT !.at = "over"]
        BY <3>3 DEF Upkeep!Store, UpkeepInv, UpkeepTyped, PollType
      <4>2. /\ poll'[p].asked = poll[p].asked /\ poll'[p].latest = poll[p].latest
            /\ poll'[p].oldest = poll[p].oldest /\ poll'[p].at = "over" /\ poll[p].asked \in Nat
        BY <4>1 DEF UpkeepInv, UpkeepTyped, PollType
      <4>3. \A w \in Upkeep!Rows : committedAt[w] \in Nat
        BY DEF UpkeepInv, UpkeepTyped, PollType, Upkeep!Rows
      <4>4. \A w \in Upkeep!Rows : committedAt[w] + TTL <= poll[p].asked => committedAt[w] < poll[p].asked
        BY <4>2, <4>3, <1>0
      <4> QED
        BY <4>1, <4>2, <4>4 DEF UpkeepInv, Covered, Bounds
    <3> QED
      BY <1>4, <3>1, <3>2, <3>3
  <2> QED
    BY <2>1, <2>3, <2>4, <2>5, <2>6 DEF UpkeepInv, Covered
<1> QED
  BY <1>2, <1>3, <1>4 DEF Upkeep!Next

LEMMA UpkeepKeeps ==
    ASSUME UpkeepInv, Upkeep!LegalConstants, [Upkeep!Next]_(Upkeep!vars)
    PROVE  UpkeepInv'
<1>1. CASE UNCHANGED Upkeep!vars
  BY <1>1 DEF Upkeep!vars, UpkeepInv, UpkeepTyped, PollType, Covered, Ripe, Upkeep!Rows
<1>2. CASE Upkeep!Next
  <2>1. UpkeepTyped' /\ Covered'
    BY <1>2, UpkeepTypesStay, UpkeepCovers
  <2>2. tick \in Nat /\ Retention \in Nat
    BY DEF UpkeepInv, UpkeepTyped, PollType, Upkeep!LegalConstants
  <2>3. Ripe' /\ wrongly' = {}
    <3>1. CASE Upkeep!BeginPrune
      BY <3>1, <2>2 DEF Upkeep!BeginPrune, Ripe, UpkeepInv
    <3>2. CASE Upkeep!DeleteBatch
      <4>1. PICK B \in SUBSET Upkeep!Old :
               /\ wrongly' = wrongly \cup {w \in B : tick - stamp[w] <= Retention}
               /\ prune' = [prune EXCEPT !.at = IF Upkeep!Cardinality(B) < BatchSize THEN "idle" ELSE "running"]
        BY <3>2 DEF Upkeep!DeleteBatch
      <4>2. \A w \in Upkeep!Old : ~ (tick - stamp[w] <= Retention)
        BY <3>2, <2>2 DEF Upkeep!DeleteBatch, Upkeep!Old, Upkeep!Rows, Ripe, UpkeepInv,
           UpkeepTyped, PollType
      <4>3. wrongly' = {}
        BY <4>1, <4>2 DEF UpkeepInv
      <4> QED
        BY <3>2, <4>1, <4>3 DEF Upkeep!DeleteBatch, Ripe, UpkeepInv, UpkeepTyped, PollType
    <3>3. CASE UNCHANGED <<prune, wrongly>>
      <4>1. tick' \in Nat /\ tick <= tick'
        <5>1. tick' = tick \/ tick' = tick + 1
          BY <1>2 DEF Upkeep!Next, Upkeep!BeginPrune, Upkeep!DeleteBatch, Upkeep!Tick,
             Upkeep!Insert, Upkeep!Commit, Upkeep!Invalidate, Upkeep!Poll, Upkeep!ReadBounds,
             Upkeep!Store
        <5> QED
          BY <5>1, <2>2
      <4> QED
        BY <3>3, <4>1, <2>2 DEF Ripe, UpkeepInv, UpkeepTyped, PollType
    <3> QED
      BY <1>2, <3>1, <3>2, <3>3 DEF Upkeep!Next, Upkeep!Tick, Upkeep!Insert, Upkeep!Commit,
         Upkeep!Invalidate, Upkeep!Poll, Upkeep!ReadBounds, Upkeep!Store
  <2> QED
    BY <2>1, <2>3 DEF UpkeepInv
<1> QED
  BY <1>1, <1>2

LEMMA UpkeepSuffices == ASSUME UpkeepInv PROVE Upkeep!WatermarkCovers
BY DEF UpkeepInv, Covered, Upkeep!WatermarkCovers, Bounds

-----------------------------------------------------------------------------
\* Beside the other components, each figure that is answered was true not long
\* ago (StatisticsCache), whoever was told that a report is ready finds its
\* file (reports/service.py), and a watermark covers what was committed before
\* (EventLedger).
THEOREM ReportsAreTrue == CoreSpec => []ReportsHold
<1> DEFINE Inv == /\ focus = "figures" => FiguresInv
                  /\ focus = "reports" => ReportsInv
                  /\ focus = "ledger"  => UpkeepInv
<1>1. CoreInit => Inv
  BY CoreConstants, FiguresInit, ReportsInit, UpkeepInit DEF CoreInit
<1>2. Inv /\ [CoreNext]_coreVars => Inv'
  <2> SUFFICES ASSUME Inv, [CoreNext]_coreVars PROVE Inv'
    OBVIOUS
  <2>1. /\ [Figures!Next]_(Figures!vars) /\ [Reporting!Next]_(Reporting!vars)
        /\ [Upkeep!Next]_(Upkeep!vars) /\ focus' = focus
    BY EachSteps
  <2>2. focus = "figures" => FiguresInv'
    BY <2>1, CoreConstants, FiguresKeep
  <2>3. focus = "reports" => ReportsInv'
    BY <2>1, ReportsKeep
  <2>4. focus = "ledger" => UpkeepInv'
    BY <2>1, CoreConstants, UpkeepKeeps
  <2> QED
    BY <2>1, <2>2, <2>3, <2>4
<1>3. Inv => ReportsHold
  BY FiguresSuffice, ReportsSuffice, UpkeepSuffices DEF ReportsHold
<1> QED
  BY <1>1, <1>2, <1>3, PTL DEF CoreSpec

-----------------------------------------------------------------------------
(* Enrichment: an invoice keeps what it was given.                         *)

\* A code or a type, given or learned.
Texts == STRING \cup {"", "his", "HIS", "NONE", "ORIGINAL", "GOODS", "SERVICE"}

Wanted == [hs : STRING, text : BOOLEAN, type : STRING]

Parsed == [items : Seq(Wanted), seller : BOOLEAN, buyer : BOOLEAN]

Enriched == [hs : Texts, source : Texts, type : Texts, category : BOOLEAN, code : BOOLEAN]

Outcome == [items : Seq(Enriched), checked : SUBSET {"seller", "buyer"}]

Places == {"queued", "next", "hsn", "category", "service", "seller", "buyer", "done", "failed"}

Calling == {"hsn", "category", "service", "seller", "buyer"}

EnrichTyped ==
    /\ invoices \in Seq(Parsed)
    /\ out \in [Enriching!Index -> Outcome]
    /\ step \in [Enriching!Index -> Places]

\* What has been made of one item.
ItemKept(was, is) ==
    /\ was.hs # "" => is.hs = was.hs /\ is.source = "ORIGINAL"
    /\ is.type # was.type => is.category
    /\ is.code => is.type = "SERVICE"

\* Where an invoice is says what it still needs: the item in hand is the last
\* one, and a code is asked for only where there is none.
Stage(s, was, o, calling) ==
    LET n == Len(o.items)
    IN  /\ n <= Len(was.items)
        /\ \A k \in 1..n : ItemKept(was.items[k], o.items[k])
        /\ s \in {"hsn", "category", "service"} => n > 0
        /\ s = "hsn" => was.items[n].hs = ""
        /\ s \in {"hsn", "category"} => ~o.items[n].code
        /\ s = "service" => o.items[n].type = "SERVICE"
        /\ s \in {"seller", "buyer", "done"} => n = Len(was.items)
        /\ calling => s \in Calling

EnrichInv ==
    /\ EnrichTyped
    /\ \A i \in Enriching!Index : Stage(step[i], invoices[i], out[i], i \in flying)
    /\ \A i \in Enriching!Index : step[i] = "failed" <=> i \in flagged
    /\ flying \subseteq Enriching!Index /\ flagged \subseteq Enriching!Index

LEMMA EnrichInit == ASSUME Enriching!LegalConstants, Enriching!Init PROVE EnrichInv
<1>1. invoices \in Seq(Parsed)
  BY DEF Enriching!Init, Enriching!LegalConstants, Wanted, Parsed
<1>2. \A i \in Enriching!Index : out[i].items = <<>> /\ out[i].checked = {} /\ step[i] = "queued"
  <2>1. out = [i \in Enriching!Index |-> [items |-> <<>>, checked |-> {}]] /\ step = [i \in Enriching!Index |-> "queued"]
    BY DEF Enriching!Init
  <2> QED
    BY <2>1
<1>3. EnrichTyped
  <2>1. [items |-> <<>>, checked |-> {}] \in Outcome
    BY DEF Outcome
  <2>2. out = [i \in Enriching!Index |-> [items |-> <<>>, checked |-> {}]] /\ step \in [Enriching!Index -> Places]
    BY DEF Enriching!Init, Places
  <2> QED
    BY <1>1, <2>1, <2>2 DEF EnrichTyped
<1>4. ASSUME NEW i \in Enriching!Index PROVE Stage(step[i], invoices[i], out[i], i \in flying)
  <2>0. invoices[i] \in Parsed
    BY <1>1 DEF Enriching!Index
  <2>1. invoices[i].items \in Seq(Wanted)
    BY <2>0 DEF Parsed
  <2>2. Len(invoices[i].items) \in Nat /\ Len(out[i].items) = 0
    BY <1>2, <2>1
  <2>3. i \notin flying /\ step[i] = "queued" /\ 1..Len(out[i].items) = {}
    BY <1>2, <2>2 DEF Enriching!Init
  <2> QED
    BY <2>2, <2>3 DEF Stage
<1> QED
  BY <1>2, <1>3, <1>4 DEF EnrichInv, Enriching!Init

\* What an answer makes of the item in hand.
LEMMA ToldItem ==
    ASSUME NEW s \in {"hsn", "category", "service"}, NEW a \in Enriching!Answers(s), NEW w \in Wanted,
           NEW y \in Enriched, ItemKept(w, y),
           s = "hsn" => w.hs = "",
           s \in {"hsn", "category"} => ~y.code,
           s = "service" => y.type = "SERVICE"
    PROVE  LET x == Enriching!Told(y, s, a)
           IN  x \in Enriched /\ ItemKept(w, x) /\ (s = "hsn" => ~x.code)
<1> DEFINE x == Enriching!Told(y, s, a)
<1>1. CASE s = "hsn" /\ a = "a code"
  <2>1. x = [y EXCEPT !.hs = "his", !.source = "HIS"]
    BY <1>1 DEF Enriching!Told
  <2> HIDE DEF x
  <2>1a. "his" \in Texts /\ "HIS" \in Texts
    BY DEF Texts
  <2>2. x \in Enriched /\ x.code = y.code /\ x.type = y.type /\ x.category = y.category
    BY <2>1, <2>1a DEF Enriched
  <2> QED
    BY <1>1, <2>2 DEF ItemKept, x
<1>2. CASE s = "hsn" /\ a = "no code"
  BY <1>2 DEF Enriching!Told
<1>3. CASE s = "category"
  <2>0. Enriching!Answers(s) = {"", "GOODS", "SERVICE"}
    BY <1>3 DEF Enriching!Answers
  <2>1. a \in Texts
    BY <2>0 DEF Texts
  <2>2. x = [y EXCEPT !.category = TRUE, !.type = IF a = "" THEN y.type ELSE a]
    BY <1>3 DEF Enriching!Told, Enriched
  <2>3. x \in Enriched /\ x.code = y.code /\ x.category /\ x.hs = y.hs /\ x.source = y.source
    BY <2>1, <2>2 DEF Enriched
  <2> QED
    BY <1>3, <2>3 DEF ItemKept
<1>4. CASE s = "service"
  <2>1. x = [y EXCEPT !.code = TRUE]
    BY <1>4 DEF Enriching!Told
  <2>2. x \in Enriched /\ x.type = y.type /\ x.category = y.category /\ x.hs = y.hs /\ x.source = y.source
    BY <2>1 DEF Enriched
  <2> QED
    BY <1>4, <2>2 DEF ItemKept
<1> QED
  BY <1>1, <1>2, <1>3, <1>4 DEF Enriching!Answers

LEMMA LearnsItem ==
    ASSUME NEW o \in Outcome, NEW s \in Calling, NEW a \in Enriching!Answers(s), NEW was \in Parsed, Stage(s, was, o, TRUE)
    PROVE  LET l == Enriching!Learned(o, s, a)
           IN  /\ l \in Outcome /\ Len(l.items) = Len(o.items)
               /\ \A k \in 1..Len(o.items) : ItemKept(was.items[k], l.items[k])
               /\ s = "hsn" => ~l.items[Len(o.items)].code
<1> DEFINE n == Len(o.items)
           l == Enriching!Learned(o, s, a)
<1>1. o.items \in Seq(Enriched) /\ o.checked \subseteq {"seller", "buyer"} /\ n \in Nat
  BY DEF Outcome
<1>2. (\A k \in 1..n : ItemKept(was.items[k], o.items[k])) /\ n <= Len(was.items)
  BY DEF Stage
<1>3. CASE s \in {"hsn", "category", "service"}
  <2>1. n \in 1..n /\ n \in 1..Len(was.items) /\ o.items[n] \in Enriched /\ was.items[n] \in Wanted
    <3>1. was.items \in Seq(Wanted) /\ n > 0
      BY <1>3 DEF Stage, Parsed
    <3> QED
      BY <1>1, <1>2, <3>1
  <2>2. PICK x \in Enriched : x = Enriching!Told(o.items[n], s, a) /\ ItemKept(was.items[n], x) /\ (s = "hsn" => ~x.code)
    BY <1>2, <1>3, <2>1, ToldItem DEF Stage
  <2>3. l = [o EXCEPT !.items = [o.items EXCEPT ![n] = x]]
    BY <1>3, <2>1, <2>2 DEF Enriching!Learned, Outcome
  <2>4. [o.items EXCEPT ![n] = x] \in Seq(Enriched) /\ Len([o.items EXCEPT ![n] = x]) = n
    BY <1>1, <2>1
  <2>5. l \in Outcome /\ l.items = [o.items EXCEPT ![n] = x]
    BY <1>1, <2>3, <2>4 DEF Outcome
  <2> HIDE DEF l
  <2>6. l.items[n] = x /\ Len(l.items) = n /\ \A k \in 1..n : k # n => l.items[k] = o.items[k]
    BY <1>1, <2>1, <2>4, <2>5
  <2>7. \A k \in 1..n : ItemKept(was.items[k], l.items[k])
    BY <1>2, <2>2, <2>6
  <2> QED
    BY <2>2, <2>5, <2>6, <2>7 DEF l
<1>4. CASE s \in {"seller", "buyer"}
  <2>1. l = [o EXCEPT !.checked = @ \cup {s}]
    BY <1>4 DEF Enriching!Learned
  <2>2. l \in Outcome /\ l.items = o.items
    BY <1>1, <1>4, <2>1 DEF Outcome
  <2> QED
    BY <1>2, <1>4, <2>2
<1> QED
  BY <1>3, <1>4 DEF Calling

\* Where the invoice goes from there.
LEMMA Goes ==
    ASSUME EnrichInv, NEW i \in Enriching!Index, step[i] \in Calling, NEW o \in Outcome,
           Len(o.items) = Len(out[i].items),
           \A k \in 1..Len(o.items) : ItemKept(invoices[i].items[k], o.items[k]),
           step[i] = "hsn" => ~o.items[Len(o.items)].code
    PROVE  /\ Enriching!Following(i, o) \in Places \ {"failed"}
           /\ Stage(Enriching!Following(i, o), invoices[i], o, FALSE)
<1>1. Stage(step[i], invoices[i], out[i], i \in flying)
  BY DEF EnrichInv
<1>2. CASE step[i] = "hsn"
  <2>1. Enriching!Following(i, o) = "category"
    BY <1>2 DEF Enriching!Following
  <2> QED
    BY <1>1, <1>2, <2>1 DEF Stage, Places
<1>3. CASE step[i] = "category"
  <2>1. Enriching!Following(i, o) = IF o.items[Len(o.items)].type = "SERVICE" THEN "service" ELSE "next"
    BY <1>3 DEF Enriching!Following
  <2> QED
    BY <1>1, <1>3, <2>1 DEF Stage, Places
<1>4. CASE step[i] = "service"
  <2>1. Enriching!Following(i, o) = "next"
    BY <1>4 DEF Enriching!Following
  <2> QED
    BY <1>1, <1>4, <2>1 DEF Stage, Places
<1>5. CASE step[i] = "seller"
  <2>1. Enriching!Following(i, o) = "buyer" \/ Enriching!Following(i, o) = "done"
    BY <1>5 DEF Enriching!Following, Enriching!FromSeller
  <2> QED
    BY <1>1, <1>5, <2>1 DEF Stage, Places
<1>6. CASE step[i] = "buyer"
  <2>1. Enriching!Following(i, o) = "done"
    BY <1>6 DEF Enriching!Following
  <2> QED
    BY <1>1, <1>6, <2>1 DEF Stage, Places
<1> QED
  BY <1>2, <1>3, <1>4, <1>5, <1>6 DEF Calling

LEMMA InvoiceFields ==
    ASSUME EnrichInv, NEW i \in Enriching!Index
    PROVE  /\ invoices[i] \in Parsed /\ invoices[i].items \in Seq(Wanted) /\ Len(invoices[i].items) \in Nat
           /\ out[i] \in Outcome /\ out[i].items \in Seq(Enriched) /\ Len(out[i].items) \in Nat
           /\ step[i] \in Places /\ Stage(step[i], invoices[i], out[i], i \in flying)
<1>1. invoices[i] \in Parsed /\ out[i] \in Outcome /\ step[i] \in Places
  BY DEF EnrichInv, EnrichTyped, Enriching!Index
<1>2. invoices[i].items \in Seq(Wanted) /\ out[i].items \in Seq(Enriched)
  BY <1>1 DEF Parsed, Outcome
<1> QED
  BY <1>1, <1>2 DEF EnrichInv

\* A step of one invoice leaves the others alone.
LEMMA OneInvoice ==
    ASSUME EnrichInv, NEW i \in Enriching!Index, NEW p \in Places, NEW o \in Outcome,
           invoices' = invoices, step' = [step EXCEPT ![i] = p], out' = [out EXCEPT ![i] = o],
           NEW F \in {{}, {i}}, flying' \in {flying, flying \cup {i}, flying \ {i}},
           flagged' = flagged \cup F, p = "failed" <=> i \in flagged',
           i \in flying' => p \in Calling, Stage(p, invoices[i], o, FALSE)
    PROVE  EnrichInv'
<1>1. Enriching!Index' = Enriching!Index /\ EnrichTyped'
  BY DEF EnrichInv, EnrichTyped, Enriching!Index
<1>2. step'[i] = p /\ out'[i] = o /\ \A j \in Enriching!Index : j # i => step'[j] = step[j] /\ out'[j] = out[j]
  BY DEF EnrichInv, EnrichTyped
<1>3. ASSUME NEW j \in Enriching!Index PROVE Stage(step'[j], invoices'[j], out'[j], j \in flying') /\ (step'[j] = "failed" <=> j \in flagged')
  <2>1. CASE j = i
    <3>1. Stage(p, invoices[i], o, i \in flying')
      BY DEF Stage
    <3> QED
      BY <1>2, <2>1, <3>1
  <2>2. CASE j # i
    <3>1. Stage(step[j], invoices[j], out[j], j \in flying) /\ (step[j] = "failed" <=> j \in flagged)
      BY DEF EnrichInv
    <3>2. (j \in flying' <=> j \in flying) /\ (j \in flagged' <=> j \in flagged)
      BY <2>2
    <3>3. Stage(step[j], invoices[j], out[j], j \in flying')
      BY <3>1, <3>2 DEF Stage
    <3> QED
      BY <1>2, <2>2, <3>1, <3>2, <3>3
  <2> QED
    BY <2>1, <2>2
<1>4. flying' \subseteq Enriching!Index /\ flagged' \subseteq Enriching!Index
  BY DEF EnrichInv
<1> QED
  BY <1>1, <1>3, <1>4 DEF EnrichInv

LEMMA StartKeeps == ASSUME EnrichInv, NEW i \in Enriching!Index, Enriching!Start(i) PROVE EnrichInv'
<1>1. /\ step[i] = "queued" /\ step' = [step EXCEPT ![i] = "next"]
      /\ UNCHANGED <<invoices, out, flying, flagged>>
  BY DEF Enriching!Start
<1>2. out[i] \in Outcome /\ Stage(step[i], invoices[i], out[i], i \in flying) /\ i \notin flagged
  BY <1>1, InvoiceFields DEF EnrichInv
<1>3. out' = [out EXCEPT ![i] = out[i]]
  BY <1>1 DEF EnrichInv, EnrichTyped
<1>4. i \notin flying /\ Stage("next", invoices[i], out[i], FALSE)
  BY <1>1, <1>2 DEF Stage, Calling
<1> QED
  BY <1>1, <1>2, <1>3, <1>4, OneInvoice DEF Places

LEMMA NextItemKeeps == ASSUME EnrichInv, NEW i \in Enriching!Index, Enriching!NextItem(i) PROVE EnrichInv'
<1> DEFINE n == Len(out[i].items) + 1
           w == invoices[i].items[n]
<1>1. step[i] = "next" /\ UNCHANGED <<invoices, flying, flagged>>
  BY DEF Enriching!NextItem
<1>2. /\ out[i] \in Outcome /\ out[i].items \in Seq(Enriched) /\ n \in Nat
      /\ Len(invoices[i].items) \in Nat /\ invoices[i].items \in Seq(Wanted)
      /\ Stage("next", invoices[i], out[i], i \in flying) /\ i \notin flagged
  BY <1>1, InvoiceFields DEF EnrichInv
<1>3. i \notin flying
  BY <1>2 DEF Stage, Calling
<1>4. CASE n <= Len(invoices[i].items)
  <2> DEFINE o == [out[i] EXCEPT !.items = Append(out[i].items, Enriching!Given(w))]
  <2>1. /\ out' = [out EXCEPT ![i].items = Append(@, Enriching!Given(w))]
        /\ step' = [step EXCEPT ![i] = Enriching!Classified(w)]
    BY <1>4 DEF Enriching!NextItem
  <2>2. out' = [out EXCEPT ![i] = o]
    BY <2>1 DEF EnrichInv, EnrichTyped
  <2>3. w \in Wanted
    BY <1>2, <1>4
  <2>4. Enriching!Given(w) \in Enriched /\ ItemKept(w, Enriching!Given(w)) /\ Enriching!Given(w).code = FALSE
    BY <2>3 DEF Enriching!Given, Enriched, Wanted, Texts, ItemKept
  <2> DEFINE l == Append(out[i].items, Enriching!Given(w))
  <2>5. l \in Seq(Enriched) /\ Len(l) = n /\ l[n] = Enriching!Given(w) /\ \A k \in 1..n : k # n => l[k] = out[i].items[k]
    BY <1>2, <2>4
  <2>6. o \in Outcome /\ o.items = l
    BY <1>2, <2>5 DEF Outcome
  <2> HIDE DEF o, l
  <2>7. \A k \in 1..n : ItemKept(invoices[i].items[k], l[k])
    <3>1. ASSUME NEW k \in 1..n, k # n PROVE ItemKept(invoices[i].items[k], l[k])
      <4>1. k \in 1..Len(out[i].items)
        BY <1>2, <3>1
      <4> QED
        BY <1>2, <2>5, <3>1, <4>1 DEF Stage
    <3> QED
      BY <2>4, <2>5, <3>1
  <2>8. Enriching!Classified(w) \in {"next", "hsn", "category"} /\ (Enriching!Classified(w) = "hsn" => w.hs = "")
    BY DEF Enriching!Classified
  <2> DEFINE p == Enriching!Classified(w)
  <2>9. Stage(p, invoices[i], o, FALSE)
    <3>1. Len(o.items) = n /\ n > 0 /\ ~o.items[n].code
      BY <1>2, <2>4, <2>5, <2>6
    <3>2. \A k \in 1..n : ItemKept(invoices[i].items[k], o.items[k])
      BY <2>6, <2>7
    <3>3. p = "hsn" => invoices[i].items[n].hs = ""
      BY <2>8
    <3>4. p \in {"next", "hsn", "category"} /\ n <= Len(invoices[i].items)
      BY <1>4, <2>8
    <3> HIDE DEF n, w, p
    <3> QED
      BY <3>1, <3>2, <3>3, <3>4 DEF Stage
  <2>10. p \in Places /\ p # "failed" /\ step' = [step EXCEPT ![i] = p]
    BY <2>1, <2>8 DEF Places
  <2>11. flagged' = flagged \cup {} /\ i \notin flagged' /\ i \notin flying' /\ flying' = flying /\ invoices' = invoices
    BY <1>1, <1>2, <1>3
  <2> HIDE DEF n, w, p
  <2> QED
    BY <2>2, <2>6, <2>9, <2>10, <2>11, OneInvoice
<1>5. CASE ~(n <= Len(invoices[i].items))
  <2>1. out' = out /\ step' = [step EXCEPT ![i] = Enriching!Addressed(invoices[i])]
    BY <1>5 DEF Enriching!NextItem
  <2>2. out' = [out EXCEPT ![i] = out[i]]
    BY <2>1 DEF EnrichInv, EnrichTyped
  <2>3. Enriching!Addressed(invoices[i]) \in {"seller", "buyer", "done"}
    BY DEF Enriching!Addressed
  <2>4. Len(out[i].items) = Len(invoices[i].items)
    <3>1. Len(out[i].items) \in Nat /\ Len(out[i].items) <= Len(invoices[i].items)
      BY <1>2 DEF Stage
    <3> QED
      BY <1>2, <1>5, <3>1
  <2>5. Stage(Enriching!Addressed(invoices[i]), invoices[i], out[i], FALSE)
    BY <1>2, <2>3, <2>4 DEF Stage
  <2> QED
    BY <1>1, <1>2, <1>3, <2>1, <2>2, <2>3, <2>5, OneInvoice DEF Places
<1> QED
  BY <1>4, <1>5

LEMMA CallKeeps ==
    ASSUME EnrichInv, NEW i \in Enriching!Index, Enriching!Ask(i) \/ Enriching!Reply(i) \/ Enriching!ReplyError(i) \/ Enriching!ReplyRaises(i)
    PROVE  EnrichInv'
<1>1. /\ out[i] \in Outcome /\ invoices[i] \in Parsed /\ step[i] \in Places
      /\ Stage(step[i], invoices[i], out[i], i \in flying) /\ (step[i] = "failed" <=> i \in flagged)
  BY InvoiceFields DEF EnrichInv
<1>2. step[i] \in Calling /\ i \notin flagged
  <2>1. CASE Enriching!Ask(i)
    <3>1. step[i] \in Enriching!Services \cup {"seller", "buyer"}
      BY <2>1 DEF Enriching!Ask
    <3> QED
      BY <1>1, <3>1 DEF Enriching!Services, Places, Calling
  <2>2. CASE i \in flying
    <3>1. step[i] \in Calling
      BY <1>1, <2>2 DEF Stage
    <3> QED
      BY <1>1, <3>1 DEF Calling
  <2> QED
    BY <2>1, <2>2 DEF Enriching!Reply, Enriching!ReplyError, Enriching!ReplyRaises
<1>3. ASSUME NEW o \in Outcome, Enriching!Proceed(i, o), invoices' = invoices, flagged' = flagged, i \notin flying',
             flying' \in {flying, flying \ {i}},
             Len(o.items) = Len(out[i].items),
             \A k \in 1..Len(o.items) : ItemKept(invoices[i].items[k], o.items[k]),
             step[i] = "hsn" => ~o.items[Len(o.items)].code
      PROVE  EnrichInv'
  <2>1. Enriching!Following(i, o) \in Places \ {"failed"} /\ Stage(Enriching!Following(i, o), invoices[i], o, FALSE)
    BY <1>2, <1>3, Goes
  <2>2. flagged' = flagged \cup {}
    BY <1>3
  <2> QED
    BY <1>2, <1>3, <2>1, <2>2, OneInvoice DEF Enriching!Proceed
<1>4. /\ \A k \in 1..Len(out[i].items) : ItemKept(invoices[i].items[k], out[i].items[k])
      /\ step[i] = "hsn" => ~out[i].items[Len(out[i].items)].code
  BY <1>1 DEF Stage
<1>5. CASE Enriching!Ask(i)
  <2>1. CASE Enriching!Proceed(i, out[i]) /\ UNCHANGED flying
    BY <1>1, <1>3, <1>4, <1>5, <2>1 DEF Enriching!Ask
  <2>2. CASE flying' = flying \cup {i} /\ UNCHANGED <<out, step>>
    <3>1. out' = [out EXCEPT ![i] = out[i]] /\ step' = [step EXCEPT ![i] = step[i]]
      BY <2>2 DEF EnrichInv, EnrichTyped
    <3>2. Stage(step[i], invoices[i], out[i], FALSE) /\ step[i] # "failed"
      BY <1>1, <1>2 DEF Stage, Calling
    <3>3. UNCHANGED <<invoices, flagged>> /\ flagged' = flagged \cup {}
      BY <1>5 DEF Enriching!Ask
    <3> QED
      BY <1>1, <1>2, <2>2, <3>1, <3>2, <3>3, OneInvoice
  <2> QED
    BY <1>5, <2>1, <2>2 DEF Enriching!Ask
<1>6. CASE Enriching!Reply(i)
  <2>1. PICK a \in Enriching!Answers(step[i]) : Enriching!Proceed(i, Enriching!Learned(out[i], step[i], a))
    BY <1>6 DEF Enriching!Reply
  <2>2. Stage(step[i], invoices[i], out[i], TRUE)
    BY <1>1, <1>2 DEF Stage
  <2> DEFINE l == Enriching!Learned(out[i], step[i], a)
  <2>3. /\ l \in Outcome /\ Len(l.items) = Len(out[i].items)
        /\ \A k \in 1..Len(out[i].items) : ItemKept(invoices[i].items[k], l.items[k])
        /\ step[i] = "hsn" => ~l.items[Len(out[i].items)].code
    BY <1>1, <1>2, <2>2, LearnsItem
  <2> HIDE DEF l
  <2> QED
    BY <1>3, <1>6, <2>1, <2>3 DEF Enriching!Reply, l
<1>7. CASE Enriching!ReplyError(i)
  BY <1>1, <1>3, <1>4, <1>7 DEF Enriching!ReplyError
<1>8. CASE Enriching!ReplyRaises(i)
  <2>1. [items |-> <<>>, checked |-> {}] \in Outcome
    BY DEF Outcome
  <2>2. Len(<<>>) = 0 /\ Len(invoices[i].items) \in Nat /\ 1..0 = {}
    BY InvoiceFields
  <2>3. Stage("failed", invoices[i], [items |-> <<>>, checked |-> {}], FALSE)
    BY <2>2 DEF Stage
  <2> QED
    BY <1>8, <2>1, <2>3, OneInvoice DEF Enriching!ReplyRaises, Places
<1> QED
  BY <1>5, <1>6, <1>7, <1>8

LEMMA EnrichKeeps == ASSUME EnrichInv, [Enriching!Next]_(Enriching!vars) PROVE EnrichInv'
<1>1. CASE UNCHANGED Enriching!vars \/ Enriching!Tick
  <2>1. UNCHANGED <<invoices, out, step, flying, flagged>>
    BY <1>1 DEF Enriching!vars, Enriching!Tick
  <2> QED
    BY <2>1 DEF EnrichInv, EnrichTyped, Enriching!Index, Stage
<1> QED
  BY <1>1, StartKeeps, NextItemKeeps, CallKeeps DEF Enriching!Next

LEMMA EnrichSuffices == ASSUME EnrichInv PROVE Enriching!EnrichedInPlace
<1>1. ASSUME NEW i \in Enriching!Index, NEW k \in 1..Len(out[i].items) PROVE ItemKept(invoices[i].items[k], out[i].items[k])
  BY <1>1 DEF EnrichInv, Stage
<1>2. \A i \in Enriching!Index : step[i] = "done" => Len(out[i].items) = Len(invoices[i].items)
  BY DEF EnrichInv, Stage
<1> QED
  BY <1>1, <1>2 DEF EnrichInv, Enriching!EnrichedInPlace, ItemKept

\* Enricher completes invoices and takes nothing from them: whatever the
\* services answer, one that is not flagged keeps its items and its codes.
THEOREM EnrichmentInPlace == CoreSpec => []EnrichedInPlace
<1> DEFINE Inv == focus = "enrich" => EnrichInv
<1>1. CoreInit => Inv
  BY CoreConstants, EnrichInit DEF CoreInit
<1>2. Inv /\ [CoreNext]_coreVars => Inv'
  BY EachSteps, EnrichKeeps
<1>3. Inv => EnrichedInPlace
  BY EnrichSuffices DEF EnrichedInPlace
<1> QED
  BY <1>1, <1>2, <1>3, PTL DEF CoreSpec

-----------------------------------------------------------------------------
(***************************************************************************)
(* Resolving: customers and products.  The two instances differ in who     *)
(* there is, in the keys and in what comes in a batch; what a name is      *)
(* compared with, and how, is the same in both.                            *)
(***************************************************************************)

Percent == 0..100

Entry(who) == [who : who, form : Buying!Forms]

Match(who) == [by : {"key", "name", "new"}, who : who \cup {Buying!NoOne}, score : Percent]

\* What Known and OwnForms say of any rows k and variants a.
KnownOf(k) == {k[i].who : i \in 1..Len(k)}
OwnFormsOf(k, a, c) == {k[i].form : i \in {j \in 1..Len(k) : k[j].who = c}}
                       \cup {a[i].form : i \in {j \in 1..Len(a) : a[j].who = c}}

OrphansIn(k, a) == \E i \in 1..Len(a) : a[i].who \notin KnownOf(k)

\* How near a buyer comes to a customer, by any of its forms.
NearnessIn(k, a, c, buyer) ==
    {Buying!Ratio(Buying!ResolverForm(buyer.name), g) : g \in OwnFormsOf(k, a, c)}
Nearness(c, buyer) == {Buying!Ratio(Buying!ResolverForm(buyer.name), g) : g \in Buying!OwnForms(c)}

MeritedIn(k, a, r, buyer) ==
    /\ r.by = "name" => r.score \in NearnessIn(k, a, r.who, buyer)
    /\ (r.by = "new" /\ buyer.name # Buying!Nameless) =>
          \A c \in KnownOf(k) : \A s \in NearnessIn(k, a, c, buyer) : s < 85

\* Of the customers or products "who", with their variants and batches.
ResolveTyped(who, variants, batches) ==
    /\ table \in [who -> [state : {"live", "deleted"}, name : Names, form : Buying!Forms]]
    /\ known \in Seq(Entry(who)) /\ aliases \in {<<>>, variants} /\ buyers \in batches
    /\ resolving \in {"idle", "variants", "resolving", "done", "failed"}
    /\ resolved \in Seq(Match(who)) /\ next = Len(resolved) + 1 /\ Len(resolved) <= Len(buyers)
    /\ \A i \in 1..Len(resolved) : resolved[i].by = "new" <=> resolved[i].who = Buying!NoOne

\* What was read stays as it is while the batch is resolved against it.
ResolveInv(who, variants, batches) ==
    /\ ResolveTyped(who, variants, batches)
    /\ resolving \in {"idle", "variants", "failed"} => resolved = <<>>
    /\ resolving = "done" => Len(resolved) = Len(buyers)
    /\ ~OrphansIn(known, aliases) =>
          \A i \in 1..Len(resolved) : MeritedIn(known, aliases, resolved[i], buyers[i])

\* What is assumed of them.
LegalResolving(who, variants, batches) ==
    /\ IsFiniteSet(who) /\ Buying!NoOne \notin who
    /\ SuffixRatio \in Percent /\ Alike \in [Buying!Cores \X Buying!Cores -> Percent]
    /\ variants \in Seq(Entry(who))
    /\ \A b \in batches : /\ Len(b) \in Nat
                          /\ \A i \in 1..Len(b) : b[i].name \in Names \cup {Buying!Nameless}

LEMMA KnownOfKnown == KnownOf(known) = Buying!Known
BY DEF KnownOf, Buying!Known

LEMMA NearnessOfKnown ==
    ASSUME NEW c, NEW buyer PROVE NearnessIn(known, aliases, c, buyer) = Nearness(c, buyer)
<1>1. OwnFormsOf(known, aliases, c) = Buying!OwnForms(c)
  BY DEF OwnFormsOf, Buying!OwnForms
<1> QED
  BY <1>1 DEF NearnessIn, Nearness

LEMMA RatioIsPercent ==
    ASSUME SuffixRatio \in Percent, Alike \in [Buying!Cores \X Buying!Cores -> Percent],
           NEW a \in Buying!Forms, NEW b \in Buying!Forms
    PROVE  Buying!Ratio(a, b) \in Percent
<1>1. a.core \in Buying!Cores /\ b.core \in Buying!Cores
  BY DEF Buying!Forms
<1>2. Alike[<<a.core, b.core>>] \in Percent
  BY <1>1
<1> QED
  BY <1>2 DEF Buying!Ratio, Percent

LEMMA FormsOfNames ==
    ASSUME NEW n \in Names PROVE Buying!ResolverForm(n) \in Buying!Forms /\ Buying!EntityForm(n) \in Buying!Forms
BY DEF Buying!ResolverForm, Buying!EntityForm, Buying!Forms, Buying!Cores

LEMMA HighestIs ==
    ASSUME NEW n \in Nat, NEW S \in SUBSET (1..n), S # {}
    PROVE  Buying!Max(S) \in S /\ \A y \in S : y <= Buying!Max(S)
<1>1. PICK x \in S : \A y \in S : y <= x
  <2>1. S \in SUBSET (0..n)
    OBVIOUS
  <2> QED
    BY <2>1, Extremes
<1>2. x \in S /\ \A y \in S : x >= y
  BY <1>1
<1> QED
  BY <1>2 DEF Buying!Max

\* The last value that is better than all before is the best of all.
LEMMA LastBetterIsBest ==
    ASSUME NEW n \in Nat, NEW s \in [1..n -> Nat],
           NEW better, better = {j \in 1..n : s[j] > 0 /\ \A i \in 1..(j - 1) : s[i] < s[j]}
    PROVE  /\ better = {} => \A j \in 1..n : s[j] = 0
           /\ better # {} => /\ Buying!Max(better) \in better
                             /\ \A j \in 1..n : s[j] <= s[Buying!Max(better)]
<1>1. ASSUME NEW b \in Nat, NEW k \in 1..n, s[k] > b
      PROVE  \E j \in better : s[j] > b
  <2> DEFINE T == {j \in 1..n : s[j] > b}
  <2>1. T \in SUBSET (0..n) /\ T # {}
    BY <1>1
  <2>2. PICK j \in T : \A i \in T : j <= i
    <3> HIDE DEF T
    <3> QED
      BY <2>1, Extremes
  <2>3. \A i \in 1..(j - 1) : i \in 1..n /\ s[i] \in Nat /\ ~(s[i] > b)
    BY <2>2
  <2>4. j \in 1..n /\ s[j] \in Nat /\ s[j] > b
    BY <2>2
  <2>5. \A i \in 1..(j - 1) : s[i] < s[j]
    BY <2>3, <2>4
  <2> QED
    BY <2>4, <2>5
<1>2. ASSUME better = {}, NEW j \in 1..n PROVE s[j] = 0
  <2>1. ~(s[j] > 0)
    BY <1>1, <1>2
  <2>2. s[j] \in Nat
    OBVIOUS
  <2> QED
    BY <2>1, <2>2
<1>3. ASSUME better # {}
      PROVE  Buying!Max(better) \in better /\ \A j \in 1..n : s[j] <= s[Buying!Max(better)]
  <2> DEFINE m == Buying!Max(better)
  <2>1. m \in better /\ \A j \in better : j <= m
    BY <1>3, HighestIs
  <2> HIDE DEF m
  <2>2. m \in 1..n /\ s[m] \in Nat /\ \A i \in 1..(m - 1) : s[i] < s[m]
    BY <2>1
  <2>3. ASSUME NEW k \in 1..n, s[k] > s[m] PROVE FALSE
    <3>1. PICK j \in better : s[j] > s[m]
      BY <1>1, <2>2, <2>3
    <3>2. j <= m /\ j \in 1..n /\ s[j] \in Nat
      BY <2>1, <3>1
    <3>3. j # m
      BY <2>2, <3>1
    <3>4. j \in 1..(m - 1)
      BY <2>2, <3>2, <3>3
    <3> QED
      BY <2>2, <3>1, <3>2, <3>4
  <2>4. \A k \in 1..n : s[k] \in Nat
    OBVIOUS
  <2>5. \A k \in 1..n : s[k] <= s[m]
    BY <2>2, <2>3, <2>4
  <2> QED
    BY <2>1, <2>5 DEF m
<1> QED
  BY <1>2, <1>3

\* The lists a name is compared with, one behind the other.
LEMMA EntriesAre ==
    ASSUME NEW who, known \in Seq(Entry(who)), aliases \in Seq(Entry(who))
    PROVE  /\ Len(Buying!Entries) = Len(known) + Len(aliases) /\ Len(known) \in Nat /\ Len(aliases) \in Nat
           /\ \A i \in 1..Len(known) : Buying!Entries[i] = known[i] /\ known[i] \in Entry(who)
           /\ \A i \in 1..Len(aliases) :
                 Buying!Entries[Len(known) + i] = aliases[i] /\ aliases[i] \in Entry(who)
           /\ \A j \in 1..Len(Buying!Entries) :
                 \/ j \in 1..Len(known)
                 \/ \E i \in 1..Len(aliases) : j = Len(known) + i
<1>1. Len(known) \in Nat /\ Len(aliases) \in Nat
  OBVIOUS
<1>2. Len(Buying!Entries) = Len(known) + Len(aliases)
  BY DEF Buying!Entries
<1>3. \A i \in 1..Len(known) : Buying!Entries[i] = known[i] /\ known[i] \in Entry(who)
  BY DEF Buying!Entries
<1>4. \A i \in 1..Len(aliases) : Buying!Entries[Len(known) + i] = aliases[i] /\ aliases[i] \in Entry(who)
  BY DEF Buying!Entries
<1>5. ASSUME NEW j \in 1..Len(Buying!Entries), j \notin 1..Len(known)
      PROVE  \E i \in 1..Len(aliases) : j = Len(known) + i
  <2>1. j - Len(known) \in 1..Len(aliases) /\ j = Len(known) + (j - Len(known))
    BY <1>1, <1>2, <1>5
  <2> QED
    BY <2>1
<1> QED
  BY <1>1, <1>2, <1>3, <1>4, <1>5

\* The customer found by name is as near as any, by a form of its own.
LEMMA FoundIsNearest ==
    ASSUME NEW who, NEW variants, NEW batches, LegalResolving(who, variants, batches),
           known \in Seq(Entry(who)), aliases \in Seq(Entry(who)), ~OrphansIn(known, aliases),
           NEW buyer, buyer.name \in Names, buyer.name # Buying!Nameless
    PROVE  LET found == Buying!ByName(buyer)
           IN  /\ found.who # Buying!NoOne => found.score \in Nearness(found.who, buyer)
               /\ found.who = Buying!NoOne => found.score = 0
               /\ \A c \in Buying!Known : \A s \in Nearness(c, buyer) : s <= found.score
<1> DEFINE E      == Buying!Entries
           n      == Len(E)
           form   == Buying!ResolverForm(buyer.name)
           s      == [j \in 1..n |-> Buying!Ratio(form, E[j].form)]
           better == {j \in 1..n : Buying!Better(j, form)}
           found  == Buying!ByName(buyer)
<1>1. /\ n \in Nat /\ form \in Buying!Forms
      /\ \A j \in 1..n : E[j] \in Entry(who) /\ E[j].who \in who /\ E[j].form \in Buying!Forms
  <2>1. \A j \in 1..n : E[j] \in Entry(who)
    BY EntriesAre
  <2> QED
    BY <2>1, EntriesAre, FormsOfNames DEF Entry
<1>2. s \in [1..n -> Nat]
  <2> HIDE DEF n, E, form
  <2>1. \A j \in 1..n : Buying!Ratio(form, E[j].form) \in Percent
    BY <1>1, RatioIsPercent DEF LegalResolving
  <2>2. \A j \in 1..n : Buying!Ratio(form, E[j].form) \in Nat
    <3>1. \A x \in Percent : x \in Nat
      BY DEF Percent
    <3> QED
      BY <2>1, <3>1
  <2> QED
    BY <2>2
<1>3. better = {j \in 1..n : s[j] > 0 /\ \A i \in 1..(j - 1) : s[i] < s[j]}
  <2>1. \A j \in 1..n : /\ s[j] = Buying!Ratio(form, E[j].form)
                        /\ \A i \in 1..(j - 1) : s[i] = Buying!Ratio(form, E[i].form)
    BY <1>1
  <2>2. \A j \in 1..n : Buying!Better(j, form) <=> s[j] > 0 /\ \A i \in 1..(j - 1) : s[i] < s[j]
    <3> HIDE DEF s, n, form
    <3> QED
      BY <2>1 DEF Buying!Better
  <2> HIDE DEF s, n, form
  <2> QED
    BY <2>2
<1>4. \A j \in 1..n : E[j].who \in Buying!Known
  BY EntriesAre, KnownOfKnown DEF OrphansIn, Buying!Known
<1>5. Buying!Owned(better) = better
  BY <1>4 DEF Buying!Owned
<1>6. /\ found.score = IF better = {} THEN 0 ELSE Buying!Ratio(form, E[Buying!Max(better)].form)
      /\ found.who = IF better = {} THEN Buying!NoOne ELSE E[Buying!Max(better)].who
  BY <1>5 DEF Buying!ByName
<1>7. \A j \in 1..n : s[j] = Buying!Ratio(form, E[j].form) /\ E[j].form \in Buying!OwnForms(E[j].who)
  <2>1. ASSUME NEW j \in 1..n PROVE E[j].form \in Buying!OwnForms(E[j].who)
    <3>1. CASE j \in 1..Len(known)
      BY <3>1, EntriesAre DEF Buying!OwnForms
    <3>2. CASE \E i \in 1..Len(aliases) : j = Len(known) + i
      BY <3>2, EntriesAre DEF Buying!OwnForms
    <3> QED
      BY <3>1, <3>2, EntriesAre
  <2> QED
    BY <2>1
<1>8. ASSUME NEW c, NEW g \in Buying!OwnForms(c) PROVE \E j \in 1..n : E[j].form = g
  <2>1. CASE \E i \in 1..Len(known) : known[i].form = g
    BY <2>1, EntriesAre
  <2>2. CASE \E i \in 1..Len(aliases) : aliases[i].form = g
    <3>1. PICK i \in 1..Len(aliases) : aliases[i].form = g
      BY <2>2
    <3>2. Len(known) + i \in 1..n /\ E[Len(known) + i].form = g
      BY <3>1, EntriesAre
    <3> QED
      BY <3>2
  <2> QED
    BY <1>8, <2>1, <2>2 DEF Buying!OwnForms
<1> HIDE DEF s, better, n, E, form, found
<1>9. ASSUME NEW c, NEW v \in Nearness(c, buyer) PROVE \E j \in 1..n : v = s[j]
  BY <1>7, <1>8, <1>9 DEF Nearness, form
<1>10. CASE better = {}
  <2>1. found.score = 0 /\ found.who = Buying!NoOne /\ \A j \in 1..n : s[j] = 0
    BY <1>1, <1>2, <1>3, <1>6, <1>10, LastBetterIsBest
  <2>2. \A c \in Buying!Known : \A v \in Nearness(c, buyer) : v <= 0
    BY <1>9, <2>1
  <2> QED
    BY <2>1, <2>2 DEF found
<1>11. CASE better # {}
  <2> DEFINE m == Buying!Max(better)
  <2>1. m \in 1..n /\ \A j \in 1..n : s[j] <= s[m]
    BY <1>1, <1>2, <1>3, <1>11, LastBetterIsBest
  <2>2. found.score = s[m] /\ found.who = E[m].who /\ found.who # Buying!NoOne
    BY <1>1, <1>6, <1>7, <1>11, <2>1 DEF LegalResolving
  <2>3. found.score \in Nearness(found.who, buyer)
    BY <1>7, <2>1, <2>2 DEF Nearness, form
  <2>4. \A c \in Buying!Known : \A v \in Nearness(c, buyer) : v <= found.score
    BY <1>9, <2>1, <2>2
  <2> QED
    BY <2>2, <2>3, <2>4 DEF found
<1> QED
  BY <1>10, <1>11

\* Whoever is found by name, with or without forms of customers not read, is
\* one of them.
LEMMA FoundIsOneOfThem ==
    ASSUME NEW who, NEW variants, NEW batches, LegalResolving(who, variants, batches),
           known \in Seq(Entry(who)), aliases \in Seq(Entry(who)),
           NEW buyer, buyer.name \in Names \cup {Buying!Nameless}
    PROVE  /\ Buying!ByName(buyer).score \in Percent
           /\ Buying!ByName(buyer).who \in who \cup {Buying!NoOne}
           /\ buyer.name = Buying!Nameless => Buying!ByName(buyer).who = Buying!NoOne
<1> DEFINE E      == Buying!Entries
           n      == Len(E)
           form   == Buying!ResolverForm(buyer.name)
           better == {j \in 1..n : Buying!Better(j, form)}
           owned  == Buying!Owned(better)
           found  == Buying!ByName(buyer)
<1>1. CASE buyer.name = Buying!Nameless
  BY <1>1 DEF Buying!ByName, Percent
<1>2. CASE buyer.name # Buying!Nameless
  <2>1. /\ n \in Nat /\ form \in Buying!Forms
        /\ \A j \in 1..n : E[j].who \in who /\ E[j].form \in Buying!Forms
    <3>1. \A j \in 1..n : E[j] \in Entry(who)
      BY EntriesAre
    <3> QED
      BY <1>2, <3>1, EntriesAre, FormsOfNames DEF Entry
  <2>2. better \in SUBSET (1..n) /\ owned \in SUBSET (1..n)
    BY DEF Buying!Owned
  <2>3. /\ found.score = IF better = {} THEN 0 ELSE Buying!Ratio(form, E[Buying!Max(better)].form)
        /\ found.who = IF owned = {} THEN Buying!NoOne ELSE E[Buying!Max(owned)].who
    BY <1>2 DEF Buying!ByName
  <2> HIDE DEF E, n, form, better, owned, found
  <2>4. better # {} => Buying!Max(better) \in 1..n
    BY <2>1, <2>2, HighestIs
  <2>5. owned # {} => Buying!Max(owned) \in 1..n
    BY <2>1, <2>2, HighestIs
  <2>6. found.score \in Percent
    <3>1. CASE better = {}
      BY <2>3, <3>1 DEF Percent
    <3>2. CASE better # {}
      BY <2>1, <2>3, <2>4, <3>2, RatioIsPercent DEF LegalResolving
    <3> QED
      BY <3>1, <3>2
  <2> QED
    BY <1>2, <2>1, <2>3, <2>5, <2>6 DEF found
<1> QED
  BY <1>1, <1>2

LEMMA NearnessIsPercent ==
    ASSUME NEW who, NEW variants, NEW batches, LegalResolving(who, variants, batches),
           known \in Seq(Entry(who)), aliases \in Seq(Entry(who)),
           NEW buyer, buyer.name \in Names, NEW c, NEW s \in Nearness(c, buyer)
    PROVE  s \in Percent
<1>1. \A g \in Buying!OwnForms(c) : g \in Buying!Forms
  <2>1. /\ \A i \in 1..Len(known) : known[i] \in Entry(who)
        /\ \A i \in 1..Len(aliases) : aliases[i] \in Entry(who)
    OBVIOUS
  <2>2. \A e \in Entry(who) : e.form \in Buying!Forms
    BY DEF Entry
  <2> QED
    BY <2>1, <2>2 DEF Buying!OwnForms
<1>2. Buying!ResolverForm(buyer.name) \in Buying!Forms
  BY FormsOfNames
<1>3. \A g \in Buying!OwnForms(c) : Buying!Ratio(Buying!ResolverForm(buyer.name), g) \in Percent
  BY <1>1, <1>2, RatioIsPercent DEF LegalResolving
<1> QED
  BY <1>3 DEF Nearness

\* What is made of a key and a name.
Judged(key, buyer) ==
    LET name == Buying!ByName(buyer)
    IN  IF key # Buying!NoOne THEN [by |-> "key", who |-> key, score |-> 100]
        ELSE IF name.who # Buying!NoOne /\ name.score >= 85
        THEN [by |-> "name", who |-> name.who, score |-> name.score]
        ELSE [by |-> "new", who |-> Buying!NoOne, score |-> 0]

LEMMA JudgedOnMerit ==
    ASSUME NEW who, NEW variants, NEW batches, LegalResolving(who, variants, batches),
           known \in Seq(Entry(who)), aliases \in Seq(Entry(who)),
           NEW buyer, buyer.name \in Names \cup {Buying!Nameless}, NEW key \in who \cup {Buying!NoOne}
    PROVE  /\ Judged(key, buyer) \in Match(who)
           /\ Judged(key, buyer).by = "new" <=> Judged(key, buyer).who = Buying!NoOne
           /\ ~OrphansIn(known, aliases) => MeritedIn(known, aliases, Judged(key, buyer), buyer)
<1> DEFINE name == Buying!ByName(buyer)
           r    == Judged(key, buyer)
<1>1. /\ name.score \in Percent /\ name.who \in who \cup {Buying!NoOne}
      /\ buyer.name = Buying!Nameless => name.who = Buying!NoOne
  BY FoundIsOneOfThem
<1>2. r = IF key # Buying!NoOne THEN [by |-> "key", who |-> key, score |-> 100]
          ELSE IF name.who # Buying!NoOne /\ name.score >= 85
          THEN [by |-> "name", who |-> name.who, score |-> name.score]
          ELSE [by |-> "new", who |-> Buying!NoOne, score |-> 0]
  BY DEF Judged
<1>3. ASSUME ~OrphansIn(known, aliases) PROVE MeritedIn(known, aliases, r, buyer)
  <2>1. CASE buyer.name = Buying!Nameless
    BY <1>1, <1>2, <2>1 DEF MeritedIn
  <2>2. CASE buyer.name # Buying!Nameless
    <3>1. /\ name.who # Buying!NoOne => name.score \in Nearness(name.who, buyer)
          /\ name.who = Buying!NoOne => name.score = 0
          /\ \A c \in Buying!Known : \A s \in Nearness(c, buyer) : s <= name.score
      BY <1>3, <2>2, FoundIsNearest
    <3> HIDE DEF name, r
    <3>2. r.by = "name" => r.score \in Nearness(r.who, buyer)
      BY <1>2, <3>1
    <3>3. ASSUME r.by = "new", NEW c \in Buying!Known, NEW s \in Nearness(c, buyer) PROVE s < 85
      <4>1. name.score \in Nat /\ s <= name.score
        <5>1. s <= name.score
          BY <3>1, <3>3
        <5>2. \A x \in Percent : x \in Nat
          BY DEF Percent
        <5> QED
          BY <1>1, <5>1, <5>2
      <4>2. name.who = Buying!NoOne \/ ~(name.score >= 85)
        BY <1>2, <3>3
      <4>3. name.score < 85
        BY <3>1, <4>1, <4>2
      <4>4. s \in Percent
        BY <2>2, <3>3, NearnessIsPercent
      <4> QED
        BY <4>1, <4>3, <4>4 DEF Percent
    <3> QED
      BY <3>2, <3>3, KnownOfKnown, NearnessOfKnown DEF MeritedIn
  <2> QED
    BY <2>1, <2>2
<1> HIDE DEF name
<1>4. r \in Match(who) /\ (r.by = "new" <=> r.who = Buying!NoOne)
  BY <1>1, <1>2 DEF Match, Percent, LegalResolving
<1> QED
  BY <1>3, <1>4

LEMMA FirstIsKnown ==
    ASSUME NEW who, known \in Seq(Entry(who)), NEW S \in SUBSET (1..Len(known)), S # {}
    PROVE  known[CHOOSE j \in S : \A l \in S : j <= l].who \in who
<1>1. S \in SUBSET (0..Len(known)) /\ Len(known) \in Nat
  OBVIOUS
<1>2. \E j \in S : \A l \in S : j <= l
  BY <1>1, Extremes
<1>3. (CHOOSE j \in S : \A l \in S : j <= l) \in 1..Len(known)
  BY <1>2
<1>4. \A j \in 1..Len(known) : known[j].who \in who
  <2>1. \A j \in 1..Len(known) : known[j] \in Entry(who)
    OBVIOUS
  <2>2. \A e \in Entry(who) : e.who \in who
    BY DEF Entry
  <2> QED
    BY <2>1, <2>2
<1> QED
  BY <1>3, <1>4

Row(who) == [state : {"live", "deleted"}, name : Names, form : Buying!Forms]

LEMMA ResolveStarts ==
    ASSUME NEW who, NEW variants, NEW batches, LegalResolving(who, variants, batches),
           table \in [who -> Row(who)], known = <<>>, aliases = <<>>, buyers \in batches,
           next = 1, resolved = <<>>, resolving = "idle"
    PROVE  ResolveInv(who, variants, batches)
<1>1. Len(buyers) \in Nat
  BY DEF LegalResolving
<1> QED
  BY <1>1 DEF ResolveInv, ResolveTyped, Row

\* A customer is renamed, deleted or recovered.
LEMMA ResolveWrites ==
    ASSUME NEW who, NEW variants, NEW batches, ResolveInv(who, variants, batches),
           table' \in [who -> Row(who)], UNCHANGED <<known, aliases, buyers, next, resolved, resolving>>
    PROVE  ResolveInv(who, variants, batches)'
<1>1. ResolveTyped(who, variants, batches)'
  BY DEF ResolveInv, ResolveTyped, Row
<1>2. /\ (resolving \in {"idle", "variants", "failed"} => resolved = <<>>)'
      /\ (resolving = "done" => Len(resolved) = Len(buyers))'
  BY DEF ResolveInv
<1>3. (~OrphansIn(known, aliases) =>
         \A i \in 1..Len(resolved) : MeritedIn(known, aliases, resolved[i], buyers[i]))'
  BY DEF ResolveInv
<1> QED
  BY <1>1, <1>2, <1>3 DEF ResolveInv

\* Tables are read, or the run gives up.
LEMMA ResolveReads ==
    ASSUME NEW who, NEW variants, NEW batches, ResolveInv(who, variants, batches),
           resolving \in {"idle", "variants"}, resolving' \in {"variants", "resolving", "failed"},
           known' \in Seq(Entry(who)), aliases' \in {<<>>, variants},
           UNCHANGED <<table, buyers, next, resolved>>
    PROVE  ResolveInv(who, variants, batches)'
<1>1. resolved = <<>> /\ resolved' = <<>> /\ next = 1
  BY DEF ResolveInv, ResolveTyped
<1> QED
  BY <1>1 DEF ResolveInv, ResolveTyped

LEMMA ResolveAnother ==
    ASSUME NEW who, NEW variants, NEW batches, ResolveInv(who, variants, batches),
           LegalResolving(who, variants, batches),
           resolving = "resolving", next <= Len(buyers),
           NEW key \in who \cup {Buying!NoOne},
           resolved' = Append(resolved, Judged(key, buyers[next])), next' = next + 1,
           UNCHANGED <<table, known, aliases, buyers, resolving>>
    PROVE  ResolveInv(who, variants, batches)'
<1> DEFINE n == Len(resolved)
           r == Judged(key, buyers[next])
<1>1. /\ n \in Nat /\ next = n + 1 /\ next \in 1..Len(buyers) /\ Len(buyers) \in Nat
      /\ resolved \in Seq(Match(who)) /\ known \in Seq(Entry(who)) /\ aliases \in Seq(Entry(who))
  <2>1. resolved \in Seq(Match(who)) /\ next = n + 1 /\ known \in Seq(Entry(who))
    BY DEF ResolveInv, ResolveTyped
  <2>2. aliases \in Seq(Entry(who))
    <3>1. aliases = <<>> \/ aliases = variants
      BY DEF ResolveInv, ResolveTyped
    <3>2. variants \in Seq(Entry(who))
      BY DEF LegalResolving
    <3>3. <<>> \in Seq(Entry(who))
      OBVIOUS
    <3> QED
      BY <3>1, <3>2, <3>3
  <2>3. Len(buyers) \in Nat
    BY DEF ResolveInv, ResolveTyped, LegalResolving
  <2>4. n \in Nat
    BY <2>1
  <2> QED
    BY <2>1, <2>2, <2>3, <2>4
<1>2. buyers[next].name \in Names \cup {Buying!Nameless}
  BY <1>1 DEF ResolveInv, ResolveTyped, LegalResolving
<1>3. /\ r \in Match(who) /\ (r.by = "new" <=> r.who = Buying!NoOne)
      /\ ~OrphansIn(known, aliases) => MeritedIn(known, aliases, r, buyers[next])
  BY <1>1, <1>2, JudgedOnMerit
<1> HIDE DEF r
<1>4. /\ resolved' \in Seq(Match(who)) /\ Len(resolved') = n + 1 /\ resolved'[n + 1] = r
      /\ \A i \in 1..n : resolved'[i] = resolved[i]
  BY <1>1, <1>3 DEF r
<1> HIDE DEF n
<1>5. \A i \in 1..Len(resolved') : i \in 1..n \/ i = n + 1
  BY <1>1, <1>4
<1>6. ResolveTyped(who, variants, batches)'
  BY <1>1, <1>3, <1>4, <1>5 DEF ResolveInv, ResolveTyped, n
<1>7. ASSUME ~OrphansIn(known, aliases), NEW i \in 1..Len(resolved')
      PROVE  MeritedIn(known, aliases, resolved'[i], buyers[i])
  <2>1. CASE i \in 1..n
    BY <1>4, <1>7, <2>1 DEF ResolveInv, n
  <2>2. CASE i = n + 1
    BY <1>1, <1>3, <1>4, <1>7, <2>2
  <2> QED
    BY <1>5, <2>1, <2>2
<1> QED
  BY <1>6, <1>7 DEF ResolveInv

LEMMA ResolveEnds ==
    ASSUME NEW who, NEW variants, NEW batches, ResolveInv(who, variants, batches),
           LegalResolving(who, variants, batches),
           resolving = "resolving", next > Len(buyers), resolving' = "done",
           UNCHANGED <<table, known, aliases, buyers, next, resolved>>
    PROVE  ResolveInv(who, variants, batches)'
<1>1. Len(resolved) \in Nat /\ Len(buyers) \in Nat /\ Len(resolved) = Len(buyers)
  BY DEF ResolveInv, ResolveTyped, LegalResolving
<1> QED
  BY <1>1 DEF ResolveInv, ResolveTyped

\* What a live table is read into.
LEMMA ReadInOrder ==
    ASSUME NEW who, IsFiniteSet(who), table \in [who -> Row(who)],
           NEW live \in SUBSET who, NEW order \in [1..Cardinality(live) -> live]
    PROVE  [i \in 1..Len(order) |-> [who |-> order[i], form |-> table[order[i]].form]] \in Seq(Entry(who))
<1>1. Cardinality(live) \in Nat
  BY FS_CardinalityType, FS_Subset
<1>2. order \in Seq(live) /\ Len(order) \in Nat /\ Len(order) = Cardinality(live)
  BY <1>1
<1>3. \A i \in 1..Len(order) : order[i] \in who
  <2>1. \A i \in 1..Len(order) : order[i] \in live
    BY <1>2
  <2> QED
    BY <2>1
<1>4. \A c \in who : [who |-> c, form |-> table[c].form] \in Entry(who)
  BY DEF Row, Entry
<1> QED
  BY <1>2, <1>3, <1>4

\* Both instances mean the same by a name and by its nearness to another.
LEMMA SameForms ==
    /\ \A n : Stocking!ResolverForm(n) = Buying!ResolverForm(n) /\ Stocking!EntityForm(n) = Buying!EntityForm(n)
    /\ \A a, b : Stocking!Ratio(a, b) = Buying!Ratio(a, b)
BY DEF Stocking!ResolverForm, Buying!ResolverForm, Stocking!EntityForm, Buying!EntityForm,
       Stocking!Ratio, Buying!Ratio

LEMMA SameNames == \A buyer : Stocking!ByName(buyer) = Buying!ByName(buyer)
BY DEF Stocking!ByName, Buying!ByName, Stocking!ResolverForm, Buying!ResolverForm,
       Stocking!Ratio, Buying!Ratio, Stocking!Entries, Buying!Entries, Stocking!Better, Buying!Better,
       Stocking!Owned, Buying!Owned, Stocking!Known, Buying!Known, Stocking!Max, Buying!Max,
       Stocking!Nameless, Buying!Nameless, Stocking!NoOne, Buying!NoOne

LEMMA LegalOfBuying ==
    ASSUME Buying!LegalConstants PROVE LegalResolving(Customers, Aliases, Buyers)
BY DEF Buying!LegalConstants, LegalResolving, Percent, Entry, Buying!IsFiniteSet, IsFiniteSet

LEMMA LegalOfStocking ==
    ASSUME Stocking!LegalConstants PROVE LegalResolving(StockItems, ProductAliases, Lines)
BY DEF Stocking!LegalConstants, LegalResolving, Percent, Entry, Stocking!IsFiniteSet, IsFiniteSet,
       Stocking!NoOne, Buying!NoOne, Stocking!Cores, Buying!Cores, Stocking!Forms, Buying!Forms,
       Stocking!Nameless, Buying!Nameless

LEMMA BuyingFirst ==
    ASSUME LegalResolving(Customers, Aliases, Buyers), known \in Seq(Entry(Customers)), NEW buyer
    PROVE  Buying!ByKey(buyer) \in Customers \cup {Buying!NoOne}
<1> DEFINE hits(i) == {j \in 1..Len(known) : buyer.keys[i] # "" /\ KeysOf[known[j].who][i] = buyer.keys[i]}
           first   == IF hits(1) # {} THEN hits(1) ELSE hits(2)
<1>1. Buying!ByKey(buyer) = IF first = {} THEN Buying!NoOne ELSE known[CHOOSE j \in first : \A l \in first : j <= l].who
  BY DEF Buying!ByKey
<1>2. first \in SUBSET (1..Len(known))
  OBVIOUS
<1> HIDE DEF first
<1>3. first # {} => known[CHOOSE j \in first : \A l \in first : j <= l].who \in Customers
  BY <1>2, FirstIsKnown
<1> QED
  BY <1>1, <1>3 DEF Buying!NoOne, Buying!NoOne

LEMMA BuyingInit == ASSUME Buying!LegalConstants, Buying!Init PROVE ResolveInv(Customers, Aliases, Buyers)
<1>1. LegalResolving(Customers, Aliases, Buyers)
  BY LegalOfBuying
<1>2. PICK names \in [Customers -> Names] :
         table = [c \in Customers |-> [state |-> "live", name |-> names[c], form |-> Buying!ResolverForm(names[c])]]
  BY DEF Buying!Init
<1>3. \A n \in Names : Buying!ResolverForm(n) \in Buying!Forms
  BY FormsOfNames, SameForms
<1>4. table \in [Customers -> Row(Customers)]
  BY <1>2, <1>3 DEF Row
<1> QED
  BY <1>1, <1>4, ResolveStarts DEF Buying!Init

LEMMA BuyingKeeps ==
    ASSUME Buying!LegalConstants, ResolveInv(Customers, Aliases, Buyers), [Buying!Next]_(Buying!vars)
    PROVE  ResolveInv(Customers, Aliases, Buyers)'
<1>1. LegalResolving(Customers, Aliases, Buyers)
  BY LegalOfBuying
<1>2. /\ table \in [Customers -> Row(Customers)] /\ known \in Seq(Entry(Customers)) /\ aliases \in {<<>>, Aliases}
      /\ resolving \in {"idle", "variants", "resolving", "done", "failed"}
  BY DEF ResolveInv, ResolveTyped, Row
<1>3. ASSUME NEW c \in Customers, NEW row1 \in Row(Customers), Buying!Writes(c, row1) PROVE ResolveInv(Customers, Aliases, Buyers)'
  <2>1. table' = [table EXCEPT ![c] = row1] /\ UNCHANGED <<known, aliases, buyers, next, resolved, resolving>>
    BY <1>3 DEF Buying!Writes, Buying!job
  <2>2. table' \in [Customers -> Row(Customers)]
    BY <1>2, <2>1
  <2> QED
    BY <2>1, <2>2, ResolveWrites
<1>4. ASSUME NEW c \in Customers, Buying!Rename(c) PROVE ResolveInv(Customers, Aliases, Buyers)'
  <2>1. PICK n \in Names : Buying!Writes(c, [table[c] EXCEPT !.name = n, !.form = Buying!EntityForm(n)])
    BY <1>4 DEF Buying!Rename
  <2>2. Buying!EntityForm(n) \in Buying!Forms
    BY FormsOfNames, SameForms
  <2>3. [table[c] EXCEPT !.name = n, !.form = Buying!EntityForm(n)] \in Row(Customers)
    BY <1>2, <2>2 DEF Row
  <2> QED
    BY <1>3, <2>1, <2>3
<1>5. ASSUME NEW c \in Customers, Buying!Delete(c) PROVE ResolveInv(Customers, Aliases, Buyers)'
  <2>1. [table[c] EXCEPT !.state = "deleted"] \in Row(Customers)
    BY <1>2 DEF Row
  <2> QED
    BY <1>3, <1>5, <2>1 DEF Buying!Delete
<1>6. ASSUME NEW c \in Customers, Buying!Recover(c) PROVE ResolveInv(Customers, Aliases, Buyers)'
  <2>1. [table[c] EXCEPT !.state = "live"] \in Row(Customers)
    BY <1>2 DEF Row
  <2> QED
    BY <1>3, <1>6, <2>1 DEF Buying!Recover
<1>7. CASE Buying!LoadCustomers
  <2>1. PICK order \in Buying!SetToSeqs(Buying!Live) :
           known' = [i \in 1..Len(order) |-> [who |-> order[i], form |-> table[order[i]].form]]
    BY <1>7 DEF Buying!LoadCustomers
  <2>2. Buying!Live \in SUBSET Customers
    BY DEF Buying!Live
  <2>3. order \in [1..Cardinality(Buying!Live) -> Buying!Live]
    BY DEF Buying!SetToSeqs, Buying!Cardinality, Cardinality
  <2>4. known' \in Seq(Entry(Customers))
    BY <1>1, <1>2, <2>1, <2>2, <2>3, ReadInOrder DEF LegalResolving
  <2> QED
    BY <1>2, <1>7, <2>4, ResolveReads DEF Buying!LoadCustomers
<1>8. CASE Buying!LoadVariants
  BY <1>2, <1>8, ResolveReads DEF Buying!LoadVariants
<1>9. CASE Buying!LoadFails
  BY <1>2, <1>9, ResolveReads DEF Buying!LoadFails
<1>10. CASE Buying!ResolveNext
  <2>1. Buying!Resolve(buyers[next]) = Judged(Buying!ByKey(buyers[next]), buyers[next])
    BY SameNames DEF Buying!Resolve, Judged, Buying!NoOne, Buying!NoOne, Buying!Threshold
  <2>2. Buying!ByKey(buyers[next]) \in Customers \cup {Buying!NoOne}
    BY <1>1, <1>2, BuyingFirst
  <2> QED
    BY <1>1, <1>10, <2>1, <2>2, ResolveAnother DEF Buying!ResolveNext
<1>11. CASE Buying!Finish
  BY <1>1, <1>11, ResolveEnds DEF Buying!Finish
<1>12. CASE UNCHANGED Buying!vars
  <2>1. UNCHANGED <<table, known, aliases, buyers, next, resolved, resolving>>
    BY <1>12 DEF Buying!vars
  <2> QED
    BY <1>2, <2>1, ResolveWrites
<1> QED
  BY <1>4, <1>5, <1>6, <1>7, <1>8, <1>9, <1>10, <1>11, <1>12 DEF Buying!Next

LEMMA BuyingSuffices == ASSUME Buying!LegalConstants, ResolveInv(Customers, Aliases, Buyers) PROVE Buying!MatchedOnMerit
<1>1. LegalResolving(Customers, Aliases, Buyers)
  BY LegalOfBuying
<1>2. /\ resolved \in Seq(Match(Customers)) /\ Len(resolved) \in Nat
      /\ resolving = "done" => Len(resolved) = Len(buyers)
      /\ ~OrphansIn(known, aliases) =>
            \A i \in 1..Len(resolved) : MeritedIn(known, aliases, resolved[i], buyers[i])
  BY DEF ResolveInv, ResolveTyped
<1>3. ASSUME ~(\E i \in 1..Len(aliases) : aliases[i].who \notin Buying!Known), NEW i \in 1..Len(resolved)
      PROVE  /\ resolved[i].by = "name" =>
                   resolved[i].score \in {Buying!Ratio(Buying!ResolverForm(buyers[i].name), g) : g \in Buying!OwnForms(resolved[i].who)}
             /\ (resolved[i].by = "new" /\ buyers[i].name # Buying!Nameless) =>
                   \A c \in Buying!Known : \A s \in {Buying!Ratio(Buying!ResolverForm(buyers[i].name), g) : g \in Buying!OwnForms(c)} :
                       s < Buying!Threshold
  <2>1. MeritedIn(known, aliases, resolved[i], buyers[i]) /\ KnownOf(known) = Buying!Known
    BY <1>2, <1>3 DEF OrphansIn, KnownOf, Buying!Known
  <2>2. \A c : NearnessIn(known, aliases, c, buyers[i])
                 = {Buying!Ratio(Buying!ResolverForm(buyers[i].name), g) : g \in Buying!OwnForms(c)}
    BY SameForms DEF NearnessIn, OwnFormsOf, Buying!OwnForms
  <2> QED
    BY <2>1, <2>2 DEF MeritedIn, Buying!Nameless, Buying!Nameless, Buying!Threshold
<1>4. ASSUME resolving = "done", NEW i \in 1..Len(buyers)
      PROVE  Buying!Cardinality({c \in DOMAIN Buying!CustomersSheet : i \in Buying!CustomersSheet[c]}) = 1
  <2> DEFINE whose == [j \in 1..Len(resolved) |-> IF resolved[j].by = "new" THEN <<"new", j>> ELSE <<"known", resolved[j].who>>]
             sheet == Buying!CustomersSheet
  <2>1. i \in 1..Len(resolved)
    BY <1>2, <1>4
  <2>2. sheet = [c \in {whose[j] : j \in 1..Len(resolved)} |-> {j \in 1..Len(resolved) : whose[j] = c}]
    BY DEF Buying!CustomersSheet
  <2>3. \A S : Buying!Cardinality(S) = Cardinality(S)
    BY DEF Buying!Cardinality, Cardinality
  <2> HIDE DEF whose, sheet
  <2>4. {c \in DOMAIN sheet : i \in sheet[c]} = {whose[i]}
    BY <2>1, <2>2
  <2>5. Cardinality({c \in DOMAIN sheet : i \in sheet[c]}) = 1
    BY <2>4, FS_Singleton
  <2> QED
    BY <2>3, <2>5 DEF sheet
<1> QED
  BY <1>3, <1>4 DEF Buying!MatchedOnMerit

LEMMA StockingFirst ==
    ASSUME LegalResolving(StockItems, ProductAliases, Lines), known \in Seq(Entry(StockItems)), NEW buyer
    PROVE  Stocking!ByKey(buyer) \in StockItems \cup {Buying!NoOne}
<1> DEFINE hits(i) == {j \in 1..Len(known) : buyer.keys[i] # "" /\ ProductKeysOf[known[j].who][i] = buyer.keys[i]}
           first   == IF hits(1) # {} THEN hits(1) ELSE hits(2)
<1>1. Stocking!ByKey(buyer) = IF first = {} THEN Stocking!NoOne ELSE known[CHOOSE j \in first : \A l \in first : j <= l].who
  BY DEF Stocking!ByKey
<1>2. first \in SUBSET (1..Len(known))
  OBVIOUS
<1> HIDE DEF first
<1>3. first # {} => known[CHOOSE j \in first : \A l \in first : j <= l].who \in StockItems
  BY <1>2, FirstIsKnown
<1> QED
  BY <1>1, <1>3 DEF Stocking!NoOne, Buying!NoOne

LEMMA StockingInit == ASSUME Stocking!LegalConstants, Stocking!Init PROVE ResolveInv(StockItems, ProductAliases, Lines)
<1>1. LegalResolving(StockItems, ProductAliases, Lines)
  BY LegalOfStocking
<1>2. PICK names \in [StockItems -> Names] :
         table = [c \in StockItems |-> [state |-> "live", name |-> names[c], form |-> Stocking!ResolverForm(names[c])]]
  BY DEF Stocking!Init
<1>3. \A n \in Names : Stocking!ResolverForm(n) \in Buying!Forms
  BY FormsOfNames, SameForms
<1>4. table \in [StockItems -> Row(StockItems)]
  BY <1>2, <1>3 DEF Row
<1> QED
  BY <1>1, <1>4, ResolveStarts DEF Stocking!Init

LEMMA StockingKeeps ==
    ASSUME Stocking!LegalConstants, ResolveInv(StockItems, ProductAliases, Lines), [Stocking!Next]_(Stocking!vars)
    PROVE  ResolveInv(StockItems, ProductAliases, Lines)'
<1>1. LegalResolving(StockItems, ProductAliases, Lines)
  BY LegalOfStocking
<1>2. /\ table \in [StockItems -> Row(StockItems)] /\ known \in Seq(Entry(StockItems)) /\ aliases \in {<<>>, ProductAliases}
      /\ resolving \in {"idle", "variants", "resolving", "done", "failed"}
  BY DEF ResolveInv, ResolveTyped, Row
<1>3. ASSUME NEW c \in StockItems, NEW row1 \in Row(StockItems), Stocking!Writes(c, row1) PROVE ResolveInv(StockItems, ProductAliases, Lines)'
  <2>1. table' = [table EXCEPT ![c] = row1] /\ UNCHANGED <<known, aliases, buyers, next, resolved, resolving>>
    BY <1>3 DEF Stocking!Writes, Stocking!job
  <2>2. table' \in [StockItems -> Row(StockItems)]
    BY <1>2, <2>1
  <2> QED
    BY <2>1, <2>2, ResolveWrites
<1>4. ASSUME NEW c \in StockItems, Stocking!Rename(c) PROVE ResolveInv(StockItems, ProductAliases, Lines)'
  <2>1. PICK n \in Names : Stocking!Writes(c, [table[c] EXCEPT !.name = n, !.form = Stocking!EntityForm(n)])
    BY <1>4 DEF Stocking!Rename
  <2>2. Stocking!EntityForm(n) \in Buying!Forms
    BY FormsOfNames, SameForms
  <2>3. [table[c] EXCEPT !.name = n, !.form = Stocking!EntityForm(n)] \in Row(StockItems)
    BY <1>2, <2>2 DEF Row
  <2> QED
    BY <1>3, <2>1, <2>3
<1>5. ASSUME NEW c \in StockItems, Stocking!Delete(c) PROVE ResolveInv(StockItems, ProductAliases, Lines)'
  <2>1. [table[c] EXCEPT !.state = "deleted"] \in Row(StockItems)
    BY <1>2 DEF Row
  <2> QED
    BY <1>3, <1>5, <2>1 DEF Stocking!Delete
<1>6. ASSUME NEW c \in StockItems, Stocking!Recover(c) PROVE ResolveInv(StockItems, ProductAliases, Lines)'
  <2>1. [table[c] EXCEPT !.state = "live"] \in Row(StockItems)
    BY <1>2 DEF Row
  <2> QED
    BY <1>3, <1>6, <2>1 DEF Stocking!Recover
<1>7. CASE Stocking!LoadCustomers
  <2>1. PICK order \in Stocking!SetToSeqs(Stocking!Live) :
           known' = [i \in 1..Len(order) |-> [who |-> order[i], form |-> table[order[i]].form]]
    BY <1>7 DEF Stocking!LoadCustomers
  <2>2. Stocking!Live \in SUBSET StockItems
    BY DEF Stocking!Live
  <2>3. order \in [1..Cardinality(Stocking!Live) -> Stocking!Live]
    BY DEF Stocking!SetToSeqs, Stocking!Cardinality, Cardinality
  <2>4. known' \in Seq(Entry(StockItems))
    BY <1>1, <1>2, <2>1, <2>2, <2>3, ReadInOrder DEF LegalResolving
  <2> QED
    BY <1>2, <1>7, <2>4, ResolveReads DEF Stocking!LoadCustomers
<1>8. CASE Stocking!LoadVariants
  BY <1>2, <1>8, ResolveReads DEF Stocking!LoadVariants
<1>9. CASE Stocking!LoadFails
  BY <1>2, <1>9, ResolveReads DEF Stocking!LoadFails
<1>10. CASE Stocking!ResolveNext
  <2>1. Stocking!Resolve(buyers[next]) = Judged(Stocking!ByKey(buyers[next]), buyers[next])
    BY SameNames DEF Stocking!Resolve, Judged, Stocking!NoOne, Buying!NoOne, Stocking!Threshold
  <2>2. Stocking!ByKey(buyers[next]) \in StockItems \cup {Buying!NoOne}
    BY <1>1, <1>2, StockingFirst
  <2> QED
    BY <1>1, <1>10, <2>1, <2>2, ResolveAnother DEF Stocking!ResolveNext
<1>11. CASE Stocking!Finish
  BY <1>1, <1>11, ResolveEnds DEF Stocking!Finish
<1>12. CASE UNCHANGED Stocking!vars
  <2>1. UNCHANGED <<table, known, aliases, buyers, next, resolved, resolving>>
    BY <1>12 DEF Stocking!vars
  <2> QED
    BY <1>2, <2>1, ResolveWrites
<1> QED
  BY <1>4, <1>5, <1>6, <1>7, <1>8, <1>9, <1>10, <1>11, <1>12 DEF Stocking!Next

LEMMA StockingSuffices == ASSUME Stocking!LegalConstants, ResolveInv(StockItems, ProductAliases, Lines) PROVE Stocking!MatchedOnMerit
<1>1. LegalResolving(StockItems, ProductAliases, Lines)
  BY LegalOfStocking
<1>2. /\ resolved \in Seq(Match(StockItems)) /\ Len(resolved) \in Nat
      /\ resolving = "done" => Len(resolved) = Len(buyers)
      /\ ~OrphansIn(known, aliases) =>
            \A i \in 1..Len(resolved) : MeritedIn(known, aliases, resolved[i], buyers[i])
  BY DEF ResolveInv, ResolveTyped
<1>3. ASSUME ~(\E i \in 1..Len(aliases) : aliases[i].who \notin Stocking!Known), NEW i \in 1..Len(resolved)
      PROVE  /\ resolved[i].by = "name" =>
                   resolved[i].score \in {Stocking!Ratio(Stocking!ResolverForm(buyers[i].name), g) : g \in Stocking!OwnForms(resolved[i].who)}
             /\ (resolved[i].by = "new" /\ buyers[i].name # Stocking!Nameless) =>
                   \A c \in Stocking!Known : \A s \in {Stocking!Ratio(Stocking!ResolverForm(buyers[i].name), g) : g \in Stocking!OwnForms(c)} :
                       s < Stocking!Threshold
  <2>1. MeritedIn(known, aliases, resolved[i], buyers[i]) /\ KnownOf(known) = Stocking!Known
    BY <1>2, <1>3 DEF OrphansIn, KnownOf, Stocking!Known
  <2>2. \A c : NearnessIn(known, aliases, c, buyers[i])
                 = {Stocking!Ratio(Stocking!ResolverForm(buyers[i].name), g) : g \in Stocking!OwnForms(c)}
    BY SameForms DEF NearnessIn, OwnFormsOf, Stocking!OwnForms
  <2> QED
    BY <2>1, <2>2 DEF MeritedIn, Buying!Nameless, Stocking!Nameless, Stocking!Threshold
<1>4. ASSUME resolving = "done", NEW i \in 1..Len(buyers)
      PROVE  Stocking!Cardinality({c \in DOMAIN Stocking!CustomersSheet : i \in Stocking!CustomersSheet[c]}) = 1
  <2> DEFINE whose == [j \in 1..Len(resolved) |-> IF resolved[j].by = "new" THEN <<"new", j>> ELSE <<"known", resolved[j].who>>]
             sheet == Stocking!CustomersSheet
  <2>1. i \in 1..Len(resolved)
    BY <1>2, <1>4
  <2>2. sheet = [c \in {whose[j] : j \in 1..Len(resolved)} |-> {j \in 1..Len(resolved) : whose[j] = c}]
    BY DEF Stocking!CustomersSheet
  <2>3. \A S : Stocking!Cardinality(S) = Cardinality(S)
    BY DEF Stocking!Cardinality, Cardinality
  <2> HIDE DEF whose, sheet
  <2>4. {c \in DOMAIN sheet : i \in sheet[c]} = {whose[i]}
    BY <2>1, <2>2
  <2>5. Cardinality({c \in DOMAIN sheet : i \in sheet[c]}) = 1
    BY <2>4, FS_Singleton
  <2> QED
    BY <2>3, <2>5 DEF sheet
<1> QED
  BY <1>3, <1>4 DEF Stocking!MatchedOnMerit

\* Resolver chooses a customer or product for what it is itself, and makes one
\* only for a buyer or line that nothing read comes near to, unless a variant
\* was read whose customer was not; every invoice is on the sheet once:
\* whatever was renamed, deleted or recovered while the run was on its way.
THEOREM MatchesOnMerit == CoreSpec => []MatchedOnMerit
<1> DEFINE Inv == /\ focus = "customers" => ResolveInv(Customers, Aliases, Buyers)
                  /\ focus = "products" => ResolveInv(StockItems, ProductAliases, Lines)
<1>1. CoreInit => Inv
  BY CoreConstants, BuyingInit, StockingInit DEF CoreInit
<1>2. Inv /\ [CoreNext]_coreVars => Inv'
  BY CoreConstants, EachSteps, BuyingKeeps, StockingKeeps
<1>3. Inv => MatchedOnMerit
  BY CoreConstants, BuyingSuffices, StockingSuffices DEF MatchedOnMerit
<1> QED
  BY <1>1, <1>2, <1>3, PTL DEF CoreSpec

-----------------------------------------------------------------------------
\* What is true of names without any premise: when that of a customer or
\* product comes near to a buyer's, somebody is found by name, variants
\* without their customer or not, for the names are read before the variants.
LEMMA FoundNear ==
    ASSUME NEW who, NEW variants, NEW batches, LegalResolving(who, variants, batches),
           known \in Seq(Entry(who)), aliases \in Seq(Entry(who)),
           NEW buyer, buyer.name \in Names, buyer.name # Buying!Nameless,
           NEW k \in 1..Len(known),
           Buying!Ratio(Buying!ResolverForm(buyer.name), known[k].form) >= 85
    PROVE  Buying!ByName(buyer).who # Buying!NoOne /\ Buying!ByName(buyer).score >= 85
<1> DEFINE E      == Buying!Entries
           n      == Len(E)
           form   == Buying!ResolverForm(buyer.name)
           s      == [j \in 1..n |-> Buying!Ratio(form, E[j].form)]
           better == {j \in 1..n : Buying!Better(j, form)}
           owned  == Buying!Owned(better)
<1>1. /\ n \in Nat /\ form \in Buying!Forms /\ k \in 1..n /\ Len(known) \in Nat /\ Len(known) <= n
      /\ \A j \in 1..n : E[j] \in Entry(who) /\ E[j].who \in who /\ E[j].form \in Buying!Forms
  <2>1. \A j \in 1..n : E[j] \in Entry(who)
    BY EntriesAre
  <2>2. \A x \in Entry(who) : x.who \in who /\ x.form \in Buying!Forms
    BY DEF Entry
  <2>3. n \in Nat /\ k \in 1..n /\ Len(known) \in Nat /\ Len(known) <= n
    BY EntriesAre
  <2>4. form \in Buying!Forms
    BY FormsOfNames
  <2> HIDE DEF E, n, form
  <2> QED
    BY <2>1, <2>2, <2>3, <2>4
<1>2. s \in [1..n -> Percent]
  BY <1>1, RatioIsPercent DEF LegalResolving
<1>3. s[k] >= 85
  BY <1>1, EntriesAre
<1>4. better = {j \in 1..n : s[j] > 0 /\ \A i \in 1..(j - 1) : s[i] < s[j]}
  <2>1. \A j \in 1..n : /\ s[j] = Buying!Ratio(form, E[j].form)
                        /\ \A i \in 1..(j - 1) : s[i] = Buying!Ratio(form, E[i].form)
    BY <1>1
  <2>2. \A j \in 1..n : Buying!Better(j, form) <=> s[j] > 0 /\ \A i \in 1..(j - 1) : s[i] < s[j]
    <3> HIDE DEF s, n, form
    <3> QED
      BY <2>1 DEF Buying!Better
  <2> HIDE DEF s, n, form
  <2> QED
    BY <2>2
<1>5. /\ Buying!ByName(buyer).score = IF better = {} THEN 0 ELSE Buying!Ratio(form, E[Buying!Max(better)].form)
      /\ Buying!ByName(buyer).who = IF owned = {} THEN Buying!NoOne ELSE E[Buying!Max(owned)].who
  BY DEF Buying!ByName
<1>6. \A j \in 1..n : s[j] = Buying!Ratio(form, E[j].form)
  OBVIOUS
<1>7. owned = {j \in better : E[j].who \in Buying!Known}
  BY DEF Buying!Owned
<1>8. \A j \in 1..Len(known) : E[j].who \in Buying!Known
  BY EntriesAre DEF Buying!Known
<1> HIDE DEF E, n, form, s, better, owned
<1>9. \A j \in 1..n : s[j] \in Nat /\ s[j] <= 100
  <2>1. \A x \in Percent : x \in Nat /\ x <= 100
    BY DEF Percent
  <2>2. \A j \in 1..n : s[j] \in Percent
    BY <1>2
  <2> QED
    BY <2>1, <2>2
<1>10. PICK j \in better : j <= k
  <2> DEFINE T == {i \in 1..n : s[i] > 0}
  <2>1. T \in SUBSET (0..n) /\ k \in T
    BY <1>1, <1>3, <1>9
  <2>2. PICK j \in T : \A i \in T : j <= i
    <3> HIDE DEF T
    <3> QED
      BY <1>1, <2>1, Extremes
  <2>3. j \in 1..n /\ s[j] > 0 /\ j <= k
    BY <2>1, <2>2
  <2>4. \A i \in 1..(j - 1) : i \in 1..n /\ ~(s[i] > 0)
    BY <1>1, <2>2, <2>3
  <2>5. \A i \in 1..(j - 1) : s[i] < s[j]
    BY <1>9, <2>3, <2>4
  <2>6. j \in better
    BY <1>4, <2>3, <2>5
  <2> QED
    BY <2>3, <2>6
<1>11. owned # {}
  <2>1. j \in 1..Len(known)
    BY <1>1, <1>4, <1>10
  <2> QED
    BY <1>7, <1>8, <1>10, <2>1
<1>12. Buying!Max(owned) \in 1..n
  <2>1. owned \in SUBSET (1..n)
    BY <1>4, <1>7
  <2> QED
    BY <1>1, <1>11, <2>1, HighestIs
<1>13. Buying!Max(better) \in 1..n /\ s[k] <= s[Buying!Max(better)]
  <2>1. s \in [1..n -> Nat]
    <3>1. Percent \subseteq Nat
      BY DEF Percent
    <3> QED
      BY <1>2, <3>1
  <2>2. better # {}
    BY <1>10
  <2>3. Buying!Max(better) \in better /\ \A i \in 1..n : s[i] <= s[Buying!Max(better)]
    BY <1>1, <1>4, <2>1, <2>2, LastBetterIsBest
  <2> QED
    BY <1>1, <1>4, <2>3
<1>14. s[Buying!Max(better)] >= 85
  BY <1>1, <1>3, <1>9, <1>13
<1>15. Buying!ByName(buyer).score >= 85
  BY <1>5, <1>6, <1>10, <1>13, <1>14
<1>16. Buying!ByName(buyer).who # Buying!NoOne
  BY <1>1, <1>5, <1>11, <1>12 DEF LegalResolving
<1> QED
  BY <1>15, <1>16

LEMMA NextIsFound ==
    ASSUME NEW who, NEW variants, NEW batches, ResolveInv(who, variants, batches), Buying!NearNamesFound,
           LegalResolving(who, variants, batches),
           resolving = "resolving", next <= Len(buyers),
           NEW key \in who \cup {Buying!NoOne},
           resolved' = Append(resolved, Judged(key, buyers[next])),
           UNCHANGED <<known, buyers>>
    PROVE  Buying!NearNamesFound'
<1> DEFINE n == Len(resolved)
           r == Judged(key, buyers[next])
<1>1. /\ n \in Nat /\ next = n + 1 /\ next \in 1..Len(buyers)
      /\ resolved \in Seq(Match(who)) /\ known \in Seq(Entry(who))
  BY DEF ResolveInv, ResolveTyped, LegalResolving
<1>2. aliases \in Seq(Entry(who))
  <2>1. aliases = <<>> \/ aliases = variants
    BY DEF ResolveInv, ResolveTyped
  <2>2. variants \in Seq(Entry(who)) /\ <<>> \in Seq(Entry(who))
    BY DEF LegalResolving
  <2> QED
    BY <2>1, <2>2
<1>3. buyers[next].name \in Names \cup {Buying!Nameless}
  BY <1>1 DEF ResolveInv, ResolveTyped, LegalResolving
<1>4. ASSUME r.by = "new", buyers[next].name # Buying!Nameless, NEW k \in 1..Len(known),
             Buying!Ratio(Buying!ResolverForm(buyers[next].name), known[k].form) >= 85
      PROVE  FALSE
  <2>1. Buying!ByName(buyers[next]).who # Buying!NoOne /\ Buying!ByName(buyers[next]).score >= 85
    BY <1>1, <1>2, <1>3, <1>4, FoundNear
  <2>2. r.by # "new"
    BY <2>1 DEF Judged
  <2> QED
    BY <1>4, <2>2
<1>5. /\ Len(resolved') = n + 1 /\ resolved'[n + 1] = r
      /\ \A i \in 1..n : resolved'[i] = resolved[i]
  <2> HIDE DEF r
  <2> QED
    BY <1>1 DEF r
<1> HIDE DEF n, r
<1>6. \A i \in 1..Len(resolved') : i \in 1..n \/ i = next
  BY <1>1, <1>5
<1>7. \A f \in Buying!Forms : \A k \in 1..Len(known) : Buying!Ratio(f, known[k].form) \in Percent
  <2>1. \A k \in 1..Len(known) : known[k] \in Entry(who)
    BY <1>1
  <2>2. \A k \in 1..Len(known) : known[k].form \in Buying!Forms
    BY <2>1 DEF Entry
  <2> QED
    BY <2>2, RatioIsPercent DEF LegalResolving
<1>8. (r.by = "new" /\ buyers[next].name # Buying!Nameless) => \A k \in 1..Len(known) :
          Buying!Ratio(Buying!ResolverForm(buyers[next].name), known[k].form) < Buying!Threshold
  <2> SUFFICES ASSUME r.by = "new", buyers[next].name # Buying!Nameless, NEW k \in 1..Len(known)
               PROVE  Buying!Ratio(Buying!ResolverForm(buyers[next].name), known[k].form) < Buying!Threshold
    OBVIOUS
  <2>1. Buying!Ratio(Buying!ResolverForm(buyers[next].name), known[k].form) \in Percent
    BY <1>3, <1>7, FormsOfNames
  <2>2. ~(Buying!Ratio(Buying!ResolverForm(buyers[next].name), known[k].form) >= 85)
    BY <1>4
  <2>3. \A x \in Percent : ~(x >= 85) => x < 85
    BY DEF Percent
  <2> QED
    BY <2>1, <2>2, <2>3 DEF Buying!Threshold
<1> QED
  BY <1>1, <1>5, <1>6, <1>8 DEF Buying!NearNamesFound, n

LEMMA BuyingFindsThem ==
    ASSUME Buying!LegalConstants, ResolveInv(Customers, Aliases, Buyers), Buying!NearNamesFound,
           [Buying!Next]_(Buying!vars)
    PROVE  Buying!NearNamesFound'
<1>1. CASE UNCHANGED <<known, buyers, resolved>>
  BY <1>1 DEF Buying!NearNamesFound
<1>2. CASE Buying!LoadCustomers
  <2>1. resolved' = <<>>
    BY <1>2 DEF Buying!LoadCustomers, ResolveInv
  <2> QED
    BY <2>1 DEF Buying!NearNamesFound
<1>3. CASE Buying!ResolveNext
  <2>1. LegalResolving(Customers, Aliases, Buyers) /\ known \in Seq(Entry(Customers))
    BY LegalOfBuying DEF ResolveInv, ResolveTyped
  <2>2. Buying!Resolve(buyers[next]) = Judged(Buying!ByKey(buyers[next]), buyers[next])
    BY DEF Buying!Resolve, Judged, Buying!Threshold
  <2>3. Buying!ByKey(buyers[next]) \in Customers \cup {Buying!NoOne}
    BY <2>1, BuyingFirst
  <2> QED
    BY <1>3, <2>1, <2>2, <2>3, NextIsFound DEF Buying!ResolveNext
<1> QED
  BY <1>1, <1>2, <1>3 DEF Buying!Next, Buying!vars, Buying!Rename, Buying!Delete, Buying!Recover,
     Buying!Writes, Buying!job, Buying!LoadVariants, Buying!LoadFails, Buying!Finish

LEMMA StockingFindsThem ==
    ASSUME Stocking!LegalConstants, ResolveInv(StockItems, ProductAliases, Lines), Buying!NearNamesFound,
           [Stocking!Next]_(Stocking!vars)
    PROVE  Buying!NearNamesFound'
<1>1. CASE UNCHANGED <<known, buyers, resolved>>
  BY <1>1 DEF Buying!NearNamesFound
<1>2. CASE Stocking!LoadCustomers
  <2>1. resolved' = <<>>
    BY <1>2 DEF Stocking!LoadCustomers, ResolveInv
  <2> QED
    BY <2>1 DEF Buying!NearNamesFound
<1>3. CASE Stocking!ResolveNext
  <2>1. LegalResolving(StockItems, ProductAliases, Lines) /\ known \in Seq(Entry(StockItems))
    BY LegalOfStocking DEF ResolveInv, ResolveTyped
  <2>2. Stocking!Resolve(buyers[next]) = Judged(Stocking!ByKey(buyers[next]), buyers[next])
    BY SameNames DEF Stocking!Resolve, Judged, Stocking!NoOne, Buying!NoOne, Stocking!Threshold
  <2>3. Stocking!ByKey(buyers[next]) \in StockItems \cup {Buying!NoOne}
    BY <2>1, StockingFirst
  <2> QED
    BY <1>3, <2>1, <2>2, <2>3, NextIsFound DEF Stocking!ResolveNext
<1> QED
  BY <1>1, <1>2, <1>3 DEF Stocking!Next, Stocking!vars, Stocking!Rename, Stocking!Delete,
     Stocking!Recover, Stocking!Writes, Stocking!job, Stocking!LoadVariants, Stocking!LoadFails,
     Stocking!Finish

LEMMA SameFinds == Stocking!NearNamesFound <=> Buying!NearNamesFound
BY SameForms DEF Stocking!NearNamesFound, Buying!NearNamesFound, Stocking!Nameless, Buying!Nameless,
   Stocking!Threshold, Buying!Threshold

\* Nobody is made anew for a buyer, or a line, that the name of a customer or
\* product read comes near to, whatever variants of deleted customers were
\* read, and whatever is renamed, deleted or recovered meanwhile: who is made
\* anew although its name stands in the table stands there in another form
\* (_resolve_customer, _resolve_inventory_item).
THEOREM NearNamesAreFound == CoreSpec => []NearNamesFound
<1> DEFINE Inv == /\ focus = "customers" => ResolveInv(Customers, Aliases, Buyers) /\ Buying!NearNamesFound
                  /\ focus = "products" => ResolveInv(StockItems, ProductAliases, Lines) /\ Buying!NearNamesFound
<1>0. Buying!LegalConstants /\ Stocking!LegalConstants
  BY CoreConstants
<1>1. CoreInit => Inv
  <2> SUFFICES ASSUME CoreInit PROVE Inv
    OBVIOUS
  <2>1. focus = "customers" => Buying!Init /\ resolved = <<>>
    BY DEF CoreInit, Buying!Init
  <2>2. focus = "products" => Stocking!Init /\ resolved = <<>>
    BY DEF CoreInit, Stocking!Init
  <2>3. resolved = <<>> => Buying!NearNamesFound
    BY DEF Buying!NearNamesFound
  <2> QED
    BY <1>0, <2>1, <2>2, <2>3, BuyingInit, StockingInit
<1>2. Inv /\ [CoreNext]_coreVars => Inv'
  <2> SUFFICES ASSUME Inv, [CoreNext]_coreVars PROVE Inv'
    OBVIOUS
  <2>1. /\ focus' = focus
        /\ focus = "customers" => [Buying!Next]_(Buying!vars)
        /\ focus = "products" => [Stocking!Next]_(Stocking!vars)
    BY EachSteps
  <2>2. focus = "customers" => (ResolveInv(Customers, Aliases, Buyers) /\ Buying!NearNamesFound)'
    BY <1>0, <2>1, BuyingKeeps, BuyingFindsThem
  <2>3. focus = "products" => (ResolveInv(StockItems, ProductAliases, Lines) /\ Buying!NearNamesFound)'
    BY <1>0, <2>1, StockingKeeps, StockingFindsThem
  <2> QED
    BY <2>1, <2>2, <2>3
<1>3. Inv => NearNamesFound
  BY SameFinds DEF NearNamesFound
<1> QED
  BY <1>1, <1>2, <1>3, PTL DEF CoreSpec

-----------------------------------------------------------------------------
(***************************************************************************)
(* Types: what each component's types say beyond its invariant above.      *)
(***************************************************************************)

Breakers == [state : {"CLOSED", "OPEN", "HALF_OPEN"}, failures : Nat, successes : Nat, failedAt : Nat]

EnrichBounds == time \in 0..MaxEnriching /\ breaker \in [Enriching!Services -> Breakers]

\* Looking at a breaker, a success and a failure leave it a breaker.
LEMMA BreakersStay ==
    ASSUME Enriching!LegalConstants, time \in Nat, NEW b \in Breakers
    PROVE  Enriching!Seen(b) \in Breakers /\ Enriching!Succeeded(b) \in Breakers /\ Enriching!Failed(b) \in Breakers
<1>1. Enriching!Seen(b) \in Breakers
  BY DEF Enriching!Seen, Breakers
<1>2. Enriching!Succeeded(b) \in Breakers
  <2>0. b.successes \in Nat /\ SuccessThreshold \in Nat
    BY DEF Breakers, Enriching!LegalConstants
  <2>1. CASE b.state = "HALF_OPEN" /\ b.successes + 1 >= SuccessThreshold
    <3>1. Enriching!Succeeded(b) = [b EXCEPT !.state = "CLOSED", !.failures = 0, !.successes = 0]
      BY <2>0, <2>1 DEF Enriching!Succeeded
    <3> HIDE <2>0, <2>1
    <3>2. 0 \in Nat
      OBVIOUS
    <3> QED
      BY <3>1, <3>2 DEF Breakers
  <2>2. CASE b.state = "HALF_OPEN" /\ b.successes + 1 < SuccessThreshold
    <3>0. ~(b.successes + 1 >= SuccessThreshold)
      BY <2>0, <2>2
    <3>1. Enriching!Succeeded(b) = [b EXCEPT !.successes = b.successes + 1]
      BY <2>2, <3>0, Zenon DEF Enriching!Succeeded
    <3> QED
      BY <2>0, <3>1 DEF Breakers
  <2>3. CASE b.state = "CLOSED"
    <3>1. Enriching!Succeeded(b) = [b EXCEPT !.failures = 0]
      BY <2>3 DEF Enriching!Succeeded
    <3> QED
      BY <3>1 DEF Breakers
  <2>4. CASE b.state = "OPEN"
    <3>1. Enriching!Succeeded(b) = b
      BY <2>4 DEF Enriching!Succeeded
    <3> QED
      BY <3>1
  <2> QED
    BY <2>0, <2>1, <2>2, <2>3, <2>4 DEF Breakers
<1>3. Enriching!Failed(b) \in Breakers
  <2> DEFINE n == IF b.failures < FailureThreshold THEN b.failures + 1 ELSE b.failures
             c == [b EXCEPT !.failures = n, !.failedAt = time]
  <2>1. n \in Nat
    BY DEF Breakers
  <2>2. c \in Breakers
    BY <2>1 DEF Breakers
  <2>3. Enriching!Failed(b) \in {c, [c EXCEPT !.state = "OPEN", !.successes = 0], [c EXCEPT !.state = "OPEN"]}
    BY Zenon DEF Enriching!Failed
  <2> HIDE DEF c
  <2>4. [c EXCEPT !.state = "OPEN", !.successes = 0] \in Breakers
    BY <2>2 DEF Breakers
  <2>5. [c EXCEPT !.state = "OPEN"] \in Breakers
    BY <2>2 DEF Breakers
  <2> QED
    BY <2>2, <2>3, <2>4, <2>5, Zenon
<1> QED
  BY <1>1, <1>2, <1>3

LEMMA EnrichBounded ==
    ASSUME Enriching!LegalConstants, EnrichInv, EnrichBounds, [Enriching!Next]_(Enriching!vars)
    PROVE  EnrichBounds'
<1>0. MaxEnriching \in Nat /\ time \in Nat
  BY DEF Enriching!LegalConstants, EnrichBounds
<1>1. CASE UNCHANGED Enriching!vars \/ Enriching!Tick
  <2>1. breaker' = breaker /\ (time' = time \/ (time < MaxEnriching /\ time' = time + 1))
    BY <1>1 DEF Enriching!vars, Enriching!Tick
  <2> QED
    BY <1>0, <2>1 DEF EnrichBounds
<1>2. ASSUME NEW s, NEW b, breaker' = [breaker EXCEPT ![s] = b], s \in Enriching!Services => b \in Breakers
      PROVE  breaker' \in [Enriching!Services -> Breakers]
  BY <1>2 DEF EnrichBounds
<1>3. ASSUME NEW i \in Enriching!Index,
             Enriching!Ask(i) \/ Enriching!Reply(i) \/ Enriching!ReplyError(i) \/ Enriching!ReplyRaises(i)
      PROVE  EnrichBounds'
  <2> DEFINE s == Enriching!ServiceOf(step[i])
             b == breaker[s]
  <2>1. \/ breaker' = [breaker EXCEPT ![s] = Enriching!Seen(b)]
        \/ breaker' = [breaker EXCEPT ![s] = Enriching!Succeeded(b)]
        \/ breaker' = [breaker EXCEPT ![s] = Enriching!Failed(b)]
    BY <1>3 DEF Enriching!Ask, Enriching!Reply, Enriching!ReplyError, Enriching!ReplyRaises
  <2>2. time' = time
    BY <1>3 DEF Enriching!Ask, Enriching!Reply, Enriching!ReplyError, Enriching!ReplyRaises
  <2>3. s \in Enriching!Services => b \in Breakers
    BY DEF EnrichBounds
  <2> HIDE DEF s, b
  <2>4. PICK n : breaker' = [breaker EXCEPT ![s] = n] /\ n \in {Enriching!Seen(b), Enriching!Succeeded(b), Enriching!Failed(b)}
    BY <2>1
  <2>5. b \in Breakers => n \in Breakers
    BY <1>0, <2>4, BreakersStay
  <2>6. breaker' \in [Enriching!Services -> Breakers]
    BY <1>2, <2>3, <2>4, <2>5
  <2> QED
    BY <2>2, <2>6 DEF EnrichBounds
<1>4. ASSUME NEW i \in Enriching!Index, Enriching!Start(i) \/ Enriching!NextItem(i) PROVE EnrichBounds'
  BY <1>4 DEF Enriching!Start, Enriching!NextItem, EnrichBounds
<1> QED
  BY <1>1, <1>3, <1>4 DEF Enriching!Next

LEMMA EnrichBegins == ASSUME Enriching!LegalConstants, Enriching!Init PROVE EnrichBounds
<1>1. [state |-> "CLOSED", failures |-> 0, successes |-> 0, failedAt |-> 0] \in Breakers
  BY DEF Breakers
<1>2. breaker \in [Enriching!Services -> Breakers]
  BY <1>1, Zenon DEF Enriching!Init
<1>3. time = 0
  BY DEF Enriching!Init
<1> QED
  BY <1>2, <1>3 DEF EnrichBounds, Enriching!LegalConstants

LEMMA EnrichTypes == ASSUME EnrichInv, EnrichBounds PROVE Enriching!TypeOK
<1>1. ASSUME NEW i \in Enriching!Index
      PROVE  /\ step[i] \in Places /\ Len(out[i].items) <= Len(invoices[i].items)
             /\ out[i].checked \subseteq {"seller", "buyer"}
  <2>1. out[i] \in Outcome /\ step[i] \in Places /\ Stage(step[i], invoices[i], out[i], i \in flying)
    BY InvoiceFields
  <2>2. out[i].checked \subseteq {"seller", "buyer"}
    BY <2>1 DEF Outcome
  <2> QED
    BY <2>1, <2>2 DEF Stage
<1>2. \A s \in Enriching!Services : breaker[s].state \in {"CLOSED", "OPEN", "HALF_OPEN"}
  BY DEF EnrichBounds, Breakers
<1>3. time \in 0..MaxEnriching /\ flying \subseteq Enriching!Index /\ flagged \subseteq Enriching!Index
  BY DEF EnrichInv, EnrichBounds
<1> QED
  BY <1>1, <1>2, <1>3, Zenon DEF Places, Enriching!TypeOK

-----------------------------------------------------------------------------
FiguresBounds ==
    /\ Len(past) <= MaxReading
    /\ \A e, g \in cache : e.key = g.key => e = g
    /\ \A r \in Requests : reading[r].at \in {"reading", "answered"} => reading[r].section \in Figures!Sections

LEMMA FiguresBegins == ASSUME Figures!LegalConstants, Figures!Init PROVE FiguresBounds
<1>1. PICK db : past = <<db>>
  BY DEF Figures!Init
<1>2. Len(past) <= MaxReading
  BY <1>1 DEF Figures!LegalConstants
<1>3. cache = {} /\ \A r \in Requests : reading[r].at = "idle"
  BY DEF Figures!Init, Figures!Idle
<1> QED
  BY <1>2, <1>3 DEF FiguresBounds

LEMMA FiguresBounded ==
    ASSUME Figures!LegalConstants, FiguresInv, FiguresBounds, [Figures!Next]_(Figures!vars)
    PROVE  FiguresBounds'
<1>1. CASE UNCHANGED Figures!vars
  BY <1>1 DEF Figures!vars, FiguresBounds
<1>2. CASE Figures!Change
  <2>1. Len(past') = Len(past) + 1 /\ UNCHANGED <<cache, reading>>
    BY <1>2, ChangeAdds DEF Figures!Change
  <2>2. Len(past) < MaxReading /\ MaxReading \in Nat /\ Len(past) \in Nat
    BY <1>2 DEF Figures!Change, Figures!Now, Figures!LegalConstants, FiguresInv, FiguresTyped
  <2>3. Len(past') <= MaxReading
    BY <2>1, <2>2
  <2> QED
    BY <2>1, <2>3 DEF FiguresBounds
<1>3. ASSUME NEW r \in Requests, Figures!Begin(r) PROVE FiguresBounds'
  <2>0. Figures!Day(Figures!Now) \in Nat
    BY Days DEF FiguresInv, FiguresTyped, Figures!Now
  <2>1. past' = past /\ cache' \subseteq cache
    BY <1>3 DEF Figures!Begin
  <2>2. PICK s \in Figures!Sections, p \in Figures!Scopes :
          LET key == Figures!KeyOf(s, p)
              asked == [at |-> "reading", section |-> s, scope |-> p,
                        since |-> Figures!Now, figures |-> <<>>, until |-> Figures!Now]
          IN  \/ \E e \in Figures!Entries(key) :
                    reading' = [reading EXCEPT ![r] = [asked EXCEPT !.at = "answered", !.figures = e.figures]]
              \/ reading' = [reading EXCEPT ![r] = asked]
    BY <1>3, <2>0, ScopesOfQuestions, Zenon DEF Figures!Begin
  <2> DEFINE asked == [at |-> "reading", section |-> s, scope |-> p,
                       since |-> Figures!Now, figures |-> <<>>, until |-> Figures!Now]
             told(f) == [asked EXCEPT !.at = "answered", !.figures = f]
  <2>3. asked.section = s /\ \A f : told(f).section = s
    OBVIOUS
  <2>4. reading' = [reading EXCEPT ![r] = asked] \/ \E f : reading' = [reading EXCEPT ![r] = told(f)]
    BY <2>2, Zenon
  <2> HIDE DEF asked, told
  <2>5. PICK x : reading' = [reading EXCEPT ![r] = x] /\ x.section \in Figures!Sections
    BY <2>3, <2>4
  <2>6. reading'[r] = x /\ \A q \in Requests : q # r => reading'[q] = reading[q]
    BY <2>5 DEF FiguresInv, FiguresTyped
  <2> QED
    BY <2>1, <2>5, <2>6 DEF FiguresBounds
<1>4. ASSUME NEW r \in Requests, Figures!Select(r) PROVE FiguresBounds'
  <2>1. past' = past /\ cache' = cache /\ reading[r].at = "reading"
    BY <1>4 DEF Figures!Select
  <2>2. \/ reading' = [reading EXCEPT ![r].at = "error"]
        \/ \E f : reading' = [reading EXCEPT ![r].figures = f]
    BY <1>4 DEF Figures!Select
  <2>3. /\ reading'[r].section = reading[r].section
        /\ \A q \in Requests : q # r => reading'[q] = reading[q]
    BY <2>2 DEF FiguresInv, FiguresTyped, Asking
  <2> QED
    BY <2>1, <2>3 DEF FiguresBounds
<1>5. ASSUME NEW r \in Requests, Figures!Store(r) PROVE FiguresBounds'
  <2> DEFINE k == [key |-> Figures!Key(r), at |-> Figures!Now, figures |-> reading[r].figures]
  <2>1. /\ past' = past /\ reading[r].at = "reading"
        /\ cache' = (cache \ Figures!Entries(Figures!Key(r))) \cup {k}
        /\ reading' = [reading EXCEPT ![r].at = "answered", ![r].until = Figures!Now]
    BY <1>5 DEF Figures!Store
  <2>2. k.key = Figures!Key(r)
    OBVIOUS
  <2> HIDE DEF k
  <2>3. \A e \in cache' : e = k \/ (e \in cache /\ e.key # Figures!Key(r))
    BY <2>1 DEF Figures!Entries
  <2>4. \A e, g \in cache' : e.key = g.key => e = g
    BY <2>2, <2>3 DEF FiguresBounds
  <2>5. /\ reading'[r].section = reading[r].section
        /\ \A q \in Requests : q # r => reading'[q] = reading[q]
    BY <2>1 DEF FiguresInv, FiguresTyped, Asking
  <2> QED
    BY <2>1, <2>4, <2>5 DEF FiguresBounds
<1> QED
  BY <1>1, <1>2, <1>3, <1>4, <1>5 DEF Figures!Next

LEMMA FiguresTypes == ASSUME Figures!LegalConstants, FiguresInv, FiguresBounds PROVE Figures!TypeOK
<1>1. Len(past) \in 1..MaxReading /\ \A t \in 1..Len(past) : past[t] \in Figures!Tables
  BY DEF FiguresInv, FiguresTyped, FiguresBounds, Figures!LegalConstants
<1>2. \A e \in cache : e.at \in 1..Len(past)
  BY DEF FiguresInv, FiguresTyped
<1>3. \A r \in Requests : reading[r].at \in {"idle", "reading", "answered", "error"}
  BY DEF FiguresInv, FiguresTyped, Asking
<1> QED
  BY <1>1, <1>2, <1>3, Zenon DEF FiguresBounds, Figures!Now, Figures!TypeOK

-----------------------------------------------------------------------------
\* Who has marked a report as read, or failed to: each of them has added at
\* most one row of notification_reads.
Marking(r) == {m \in Requests : mark[m].at = "over" /\ mark[m].of = r}

DownloadType == [at : {"new", "fetch", "over"}, answer : {"none", "not_found", "not_ready", "error"}]

ReportsBounds ==
    /\ type \in [Requests -> Types] /\ download \in [Downloads -> DownloadType]
    /\ files \subseteq Requests /\ notified \subseteq Requests /\ old \subseteq Requests
    /\ events \subseteq (Requests \X {"ready", "failed"})
    /\ lost \in 0..MaxCrashes
    /\ \A r \in Requests : reads[r] <= Cardinality(Marking(r))

LEMMA SameCount == \A S : Reporting!Cardinality(S) = Cardinality(S)
BY DEF Reporting!Cardinality, Cardinality

LEMMA ReportsBegins ==
    ASSUME IsFiniteSet(Requests), MaxCrashes \in Nat, Reporting!Init PROVE ReportsBounds
<1>1. /\ type \in [Requests -> Types] /\ files = {} /\ notified = {} /\ old = {} /\ events = {}
      /\ lost = 0
  BY DEF Reporting!Init
<1>2. download = [d \in Downloads |-> [at |-> "new", answer |-> "none"]]
  BY DEF Reporting!Init
<1>3. download \in [Downloads -> DownloadType]
  BY <1>2 DEF DownloadType
<1>4. 0 \in 0..MaxCrashes
  OBVIOUS
<1>5. ASSUME NEW r \in Requests PROVE reads[r] <= Cardinality(Marking(r))
  <2>1. Cardinality(Marking(r)) \in Nat
    BY FS_Subset, FS_CardinalityType DEF Marking
  <2>2. reads[r] = 0
    BY DEF Reporting!Init
  <2> QED
    BY <2>1, <2>2
<1> QED
  BY <1>1, <1>3, <1>4, <1>5 DEF ReportsBounds

\* Only MakeMark adds a row, for a call that was not over before.
LEMMA ReadsBounded ==
    ASSUME IsFiniteSet(Requests), ReportsInv, ReportsBounds, [Reporting!Next]_(Reporting!vars)
    PROVE  \A r \in Requests : reads'[r] <= Cardinality(Marking(r)')
<1> USE DEF ReportsInv
<1>1. ASSUME NEW r \in Requests
      PROVE  IsFiniteSet(Marking(r)) /\ IsFiniteSet(Marking(r)')
  BY FS_Subset DEF Marking
<1>2. CASE UNCHANGED <<mark, reads>>
  BY <1>2 DEF ReportsBounds, Marking
<1>3. ASSUME NEW m \in Requests, Reporting!MakeMark(m), NEW r \in Requests
      PROVE  reads'[r] <= Cardinality(Marking(r)')
  <2>1. mark[m].of \in Requests /\ mark[m].at = "insert" /\ reads \in [Requests -> Nat] /\ mark \in [Requests -> MarkType]
    BY <1>3 DEF Reporting!MakeMark, MarkStands, ReportsTyped
  <2>2. PICK q \in Requests : q = mark[m].of
    BY <2>1
  <2>3. PICK a \in {"read", "failed"} :
          /\ mark' = [mark EXCEPT ![m].at = "over", ![m].answer = a]
          /\ reads' = [reads EXCEPT ![q] = @ + 1] \/ reads' = reads
    BY <1>3, <2>2 DEF Reporting!MakeMark
  <2>4. mark'[m].at = "over" /\ mark'[m].of = q /\ \A n \in Requests : n # m => mark'[n] = mark[n]
    BY <2>1, <2>2, <2>3 DEF MarkType
  <2>5. m \notin Marking(q) /\ Marking(q)' = Marking(q) \cup {m}
    BY <2>1, <2>2, <2>4 DEF Marking
  <2>6. reads[r] \in Nat /\ reads[r] <= Cardinality(Marking(r)) /\ Cardinality(Marking(r)) \in Nat
    BY <1>1, <2>1, FS_CardinalityType DEF ReportsBounds
  <2>7. reads'[r] = reads[r] \/ (r = q /\ reads'[r] = reads[r] + 1)
    BY <2>1, <2>3
  <2>8. CASE r = q
    <3>1. IsFiniteSet(Marking(r)) /\ m \notin Marking(r) /\ Marking(r)' = Marking(r) \cup {m}
      BY <1>1, <2>5, <2>8
    <3>2. Cardinality(Marking(r)') = Cardinality(Marking(r)) + 1
      BY <3>1, FS_AddElement
    <3> QED
      BY <2>6, <2>7, <3>2
  <2>9. CASE r # q
    <3>1. Marking(r)' = Marking(r)
      BY <2>1, <2>2, <2>4, <2>9 DEF Marking
    <3> QED
      BY <2>6, <2>7, <2>9, <3>1
  <2> QED
    BY <2>8, <2>9
<1>4. ASSUME NEW m \in Requests, NEW s \in Requests, Reporting!LookForMark(m, s), NEW r \in Requests
      PROVE  reads'[r] <= Cardinality(Marking(r)')
  <2>1. mark[m].at = "new" /\ reads' = reads
    BY <1>4 DEF Reporting!LookForMark
  <2>2. \A n \in Requests : n # m => mark'[n] = mark[n]
    BY <1>4 DEF Reporting!LookForMark, ReportsTyped
  <2>3. Marking(r) \subseteq Marking(r)'
    BY <2>1, <2>2 DEF Marking
  <2>4. Cardinality(Marking(r)) <= Cardinality(Marking(r)')
    BY <1>1, <2>3, FS_Subset
  <2>5. reads[r] \in Nat /\ reads[r] <= Cardinality(Marking(r))
    BY DEF ReportsBounds, ReportsTyped
  <2>6. Cardinality(Marking(r)) \in Nat /\ Cardinality(Marking(r)') \in Nat
    BY <1>1, FS_CardinalityType
  <2> QED
    BY <2>1, <2>4, <2>5, <2>6
<1>5. \/ UNCHANGED <<mark, reads>>
      \/ \E m \in Requests : Reporting!MakeMark(m) \/ \E s \in Requests : Reporting!LookForMark(m, s)
  BY DEF Reporting!Next, Reporting!vars, Reporting!Cleanup, Reporting!Crash, Reporting!Task,
     Reporting!Ask, Reporting!Generate, Reporting!Upload, Reporting!Ready, Reporting!Notify,
     Reporting!Publish, Reporting!Rescue, Reporting!PublishFailed, Reporting!Expire,
     Reporting!OpenDownload, Reporting!EndDownload
<1> QED
  BY <1>2, <1>3, <1>4, <1>5

LEMMA ReportsBounded ==
    ASSUME IsFiniteSet(Requests), MaxCrashes \in Nat, ReportsInv, ReportsBounds,
           [Reporting!Next]_(Reporting!vars)
    PROVE  ReportsBounds'
<1>1. \A r \in Requests : reads'[r] <= Cardinality(Marking(r)')
  BY ReadsBounded
<1>2. /\ type' = type
      /\ files' \subseteq Requests /\ notified' \subseteq Requests /\ old' \subseteq Requests
      /\ events' \subseteq (Requests \X {"ready", "failed"})
  <2>1. /\ files \subseteq Requests /\ notified \subseteq Requests /\ old \subseteq Requests
        /\ events \subseteq (Requests \X {"ready", "failed"})
    BY DEF ReportsBounds
  <2>2. CASE UNCHANGED <<type, files, notified, events, old>>
    BY <2>1, <2>2
  <2>3. ASSUME NEW r \in Requests, Reporting!Task(r)
        PROVE  /\ type' = type /\ files' \subseteq files \cup {r}
               /\ notified' \subseteq notified \cup {r} /\ old' \subseteq old \cup {r}
               /\ events' \subseteq events \cup {<<r, "ready">>, <<r, "failed">>}
    BY <2>3 DEF Reporting!Task, Reporting!Ask, Reporting!Generate, Reporting!Upload, Reporting!Ready,
       Reporting!Notify, Reporting!Publish, Reporting!Rescue, Reporting!PublishFailed, Reporting!Expire
  <2>4. UNCHANGED <<type, files, notified, events, old>> \/ \E r \in Requests : Reporting!Task(r)
    BY DEF Reporting!Next, Reporting!vars, Reporting!Cleanup, Reporting!Crash, Reporting!OpenDownload,
       Reporting!EndDownload, Reporting!MakeMark, Reporting!LookForMark
  <2>5. ASSUME NEW r \in Requests
        PROVE  <<r, "ready">> \in Requests \X {"ready", "failed"} /\ <<r, "failed">> \in Requests \X {"ready", "failed"}
    OBVIOUS
  <2> QED
    BY <2>1, <2>2, <2>3, <2>4, <2>5
<1>3. lost' = lost \/ (lost < MaxCrashes /\ lost' = lost + 1)
  BY DEF Reporting!Next, Reporting!vars, Reporting!Cleanup, Reporting!Crash,
     Reporting!Task, Reporting!Ask, Reporting!Generate, Reporting!Upload, Reporting!Ready,
     Reporting!Notify, Reporting!Publish, Reporting!Rescue, Reporting!PublishFailed,
     Reporting!Expire, Reporting!OpenDownload, Reporting!EndDownload, Reporting!MakeMark,
     Reporting!LookForMark
<1>4. lost' \in 0..MaxCrashes
  <2>1. lost \in 0..MaxCrashes
    BY DEF ReportsBounds
  <2> QED
    BY <1>3, <2>1
<1>5. download' \in [Downloads -> DownloadType]
  <2>1. \/ download' = download
        \/ \E d \in Downloads : Reporting!EndDownload(d) \/ \E r \in Requests : Reporting!OpenDownload(d, r)
    BY DEF Reporting!Next, Reporting!vars, Reporting!Cleanup, Reporting!Crash, Reporting!Task,
       Reporting!Ask, Reporting!Generate, Reporting!Upload, Reporting!Ready, Reporting!Notify,
       Reporting!Publish, Reporting!Rescue, Reporting!PublishFailed, Reporting!Expire,
       Reporting!MakeMark, Reporting!LookForMark
  <2>2. download \in [Downloads -> DownloadType]
    BY DEF ReportsBounds
  <2>3. ASSUME NEW d \in Downloads, Reporting!EndDownload(d) PROVE download' \in [Downloads -> DownloadType]
    BY <2>2, <2>3 DEF Reporting!EndDownload, DownloadType
  <2>4. ASSUME NEW d \in Downloads, NEW r \in Requests, Reporting!OpenDownload(d, r)
        PROVE  download' \in [Downloads -> DownloadType]
    <3>1. report[r] \in {"none", "generating", "ready", "failed", "deleted"}
      BY DEF ReportsInv, ReportsTyped
    <3> QED
      BY <2>2, <2>4, <3>1 DEF Reporting!OpenDownload, DownloadType
  <2> QED
    BY <2>1, <2>2, <2>3, <2>4
<1> QED
  BY <1>1, <1>2, <1>4, <1>5 DEF ReportsBounds

LEMMA ReportsTypes ==
    ASSUME IsFiniteSet(Requests), ReportsInv, ReportsBounds PROVE Reporting!TypeOK
<1>1. ASSUME NEW r \in Requests
      PROVE  /\ report[r] \in {"none", "generating", "ready", "failed", "deleted"}
             /\ task[r] \in TaskSteps
             /\ reads[r] \in 0..Reporting!Cardinality(Requests)
  <2>1. IsFiniteSet(Marking(r)) /\ Cardinality(Marking(r)) <= Cardinality(Requests)
    BY FS_Subset DEF Marking
  <2>2. Cardinality(Marking(r)) \in Nat /\ Cardinality(Requests) \in Nat
    BY <2>1, FS_CardinalityType
  <2>3. reads[r] \in Nat /\ reads[r] <= Cardinality(Marking(r))
    BY DEF ReportsInv, ReportsTyped, ReportsBounds
  <2>4. reads[r] \in 0..Cardinality(Requests)
    BY <2>1, <2>2, <2>3
  <2> QED
    BY <2>4, SameCount DEF ReportsInv, ReportsTyped
<1>2. \A m \in Requests : mark[m].answer \in {"none", "read", "failed"}
  BY DEF ReportsInv, ReportsTyped, MarkType
<1>3. \A d \in Downloads : download[d].answer \in {"none", "not_found", "not_ready", "error"}
  BY DEF ReportsBounds, DownloadType
<1> QED
  BY <1>1, <1>2, <1>3 DEF ReportsBounds, Reporting!TypeOK, TaskSteps

-----------------------------------------------------------------------------
\* A row draws the number after those drawn before, so that no two are alike.
NumbersDrawn ==
    /\ \A w \in Requests : write[w] = "new" <=> number[w] = 0
    /\ \A w \in Requests : number[w] <= Upkeep!Drawn
    /\ \A v, w \in Requests : (number[v] = number[w] /\ number[v] > 0) => v = w

UpkeepBounds ==
    /\ tick <= MaxUpkeep /\ prune.cutoff <= tick
    /\ gone \subseteq {w \in Requests : write[w] \in {"committed", "over"}}
    /\ \A e \in held : e.oldest <= e.latest
    /\ \A p \in Requests : poll[p].oldest <= poll[p].latest

LEMMA DrawnIsNumber ==
    ASSUME Upkeep!LegalConstants
    PROVE  /\ IsFiniteSet({w \in Requests : write[w] # "new"})
           /\ Upkeep!Drawn = Cardinality({w \in Requests : write[w] # "new"}) /\ Upkeep!Drawn \in Nat
<1>1. IsFiniteSet(Requests)
  BY DEF Upkeep!LegalConstants, Upkeep!IsFiniteSet, IsFiniteSet
<1>2. IsFiniteSet({w \in Requests : write[w] # "new"})
  BY <1>1, FS_Subset
<1>3. Upkeep!Drawn = Cardinality({w \in Requests : write[w] # "new"})
  BY SameSize DEF Upkeep!Drawn
<1> QED
  BY <1>2, <1>3, FS_CardinalityType

LEMMA UpkeepBegins ==
    ASSUME Upkeep!LegalConstants, Upkeep!Init PROVE NumbersDrawn /\ UpkeepBounds
<1>1. /\ write = [w \in Requests |-> "new"] /\ number = [w \in Requests |-> 0]
      /\ tick = 0 /\ gone = {} /\ held = {} /\ prune = [at |-> "idle", cutoff |-> 0]
  BY DEF Upkeep!Init
<1>2. \A p \in Requests : poll[p].oldest = 0 /\ poll[p].latest = 0
  BY DEF Upkeep!Init, Upkeep!Unasked
<1>3. Upkeep!Drawn \in Nat /\ MaxUpkeep \in Nat
  BY DrawnIsNumber DEF Upkeep!LegalConstants
<1>4. NumbersDrawn
  BY <1>1, <1>3 DEF NumbersDrawn
<1>5. UpkeepBounds
  BY <1>1, <1>2, <1>3 DEF UpkeepBounds
<1> QED
  BY <1>4, <1>5

LEMMA NumbersStayDrawn ==
    ASSUME Upkeep!LegalConstants, UpkeepInv, NumbersDrawn, [Upkeep!Next]_(Upkeep!vars)
    PROVE  NumbersDrawn'
<1>1. CASE UNCHANGED <<write, number>>
  BY <1>1 DEF NumbersDrawn, Upkeep!Drawn
<1>2. CASE number' = number /\ \A w \in Requests : write'[w] = "new" <=> write[w] = "new"
  <2>1. {w \in Requests : write'[w] # "new"} = {w \in Requests : write[w] # "new"}
    BY <1>2
  <2>2. Upkeep!Drawn' = Upkeep!Drawn
    BY <2>1 DEF Upkeep!Drawn
  <2> QED
    BY <1>2, <2>2 DEF NumbersDrawn
<1>3. ASSUME NEW w \in Requests, Upkeep!Insert(w) PROVE NumbersDrawn'
  <2> DEFINE D == {v \in Requests : write[v] # "new"}
  <2>1. /\ write[w] = "new" /\ write' = [write EXCEPT ![w] = "inserted"]
        /\ number' = [number EXCEPT ![w] = Upkeep!Drawn + 1]
    BY <1>3 DEF Upkeep!Insert
  <2>2. /\ write \in [Requests -> {"new", "inserted", "committed", "over"}]
        /\ number \in [Requests -> 0..Cardinality(Requests)]
    BY DEF UpkeepInv, UpkeepTyped
  <2>3. /\ write'[w] = "inserted" /\ number'[w] = Upkeep!Drawn + 1
        /\ \A v \in Requests : v # w => write'[v] = write[v] /\ number'[v] = number[v]
    BY <2>1, <2>2
  <2>4. {v \in Requests : write'[v] # "new"} = D \cup {w} /\ w \notin D
    BY <2>1, <2>3
  <2>5. IsFiniteSet(D) /\ Upkeep!Drawn = Cardinality(D) /\ Upkeep!Drawn \in Nat
    BY DrawnIsNumber
  <2>6. Upkeep!Drawn' = Cardinality({v \in Requests : write'[v] # "new"})
    BY SameSize DEF Upkeep!Drawn
  <2> HIDE DEF D
  <2>7. Upkeep!Drawn' = Upkeep!Drawn + 1
    BY <2>4, <2>5, <2>6, FS_AddElement
  <2>8. \A v \in Requests : number[v] \in Nat /\ number[v] <= Upkeep!Drawn
    <3>1. Cardinality(Requests) \in Nat
      BY FS_CardinalityType DEF Upkeep!LegalConstants, Upkeep!IsFiniteSet, IsFiniteSet
    <3> QED
      BY <2>2, <3>1 DEF NumbersDrawn
  <2>9. \A v \in Requests : number'[v] <= Upkeep!Drawn'
    BY <2>3, <2>5, <2>7, <2>8
  <2>10. \A v \in Requests : write'[v] = "new" <=> number'[v] = 0
    BY <2>3, <2>5 DEF NumbersDrawn
  <2>11. \A u, v \in Requests : (number'[u] = number'[v] /\ number'[u] > 0) => u = v
    BY <2>3, <2>5, <2>8 DEF NumbersDrawn
  <2> QED
    BY <2>9, <2>10, <2>11 DEF NumbersDrawn
<1>4. ASSUME NEW w \in Requests, Upkeep!Commit(w) \/ Upkeep!Invalidate(w)
      PROVE  number' = number /\ \A v \in Requests : write'[v] = "new" <=> write[v] = "new"
  BY <1>4 DEF Upkeep!Commit, Upkeep!Invalidate, UpkeepInv, UpkeepTyped
<1> QED
  BY <1>1, <1>2, <1>3, <1>4 DEF Upkeep!Next, Upkeep!vars, Upkeep!BeginPrune, Upkeep!DeleteBatch,
     Upkeep!Tick, Upkeep!Poll, Upkeep!ReadBounds, Upkeep!Store

LEMMA LowestFirst ==
    ASSUME NEW n \in Nat, NEW S \in SUBSET (0..n)
    PROVE  Upkeep!Lowest(S) <= Upkeep!Highest(S)
<1>1. CASE S = {}
  BY <1>1 DEF Upkeep!Lowest, Upkeep!Highest
<1>2. CASE S # {}
  <2>1. PICK x \in S : TRUE
    BY <1>2
  <2>2. /\ Upkeep!Lowest(S) \in Nat /\ Upkeep!Highest(S) \in Nat
        /\ x \in Upkeep!Lowest(S)..Upkeep!Highest(S)
    BY BoundsExist
  <2> QED
    BY <2>2
<1> QED
  BY <1>1, <1>2

LEMMA UpkeepBounded ==
    ASSUME Upkeep!LegalConstants, UpkeepInv, UpkeepBounds, [Upkeep!Next]_(Upkeep!vars)
    PROVE  UpkeepBounds'
<1>0. /\ tick \in Nat /\ Retention \in Nat /\ MaxUpkeep \in Nat /\ Cardinality(Requests) \in Nat
      /\ write \in [Requests -> {"new", "inserted", "committed", "over"}]
      /\ poll \in [Requests -> PollType(tick)]
      /\ prune \in [at : {"idle", "running"}, cutoff : Nat]
      /\ number \in [Requests -> 0..Cardinality(Requests)]
  BY FS_CardinalityType
  DEF UpkeepInv, UpkeepTyped, Upkeep!LegalConstants, Upkeep!IsFiniteSet, IsFiniteSet
<1>1. CASE UNCHANGED Upkeep!vars
  BY <1>1 DEF Upkeep!vars, UpkeepBounds
<1>2. ASSUME NEW w \in Requests, Upkeep!Insert(w) \/ Upkeep!Commit(w) \/ Upkeep!Invalidate(w)
      PROVE  UpkeepBounds'
  <2>1. /\ UNCHANGED <<tick, gone, poll, prune>> /\ held' \subseteq held
        /\ \A v \in Requests : write[v] \in {"committed", "over"} => write'[v] \in {"committed", "over"}
    BY <1>0, <1>2 DEF Upkeep!Insert, Upkeep!Commit, Upkeep!Invalidate
  <2> QED
    BY <2>1 DEF UpkeepBounds
<1>3. ASSUME NEW p \in Requests, Upkeep!Poll(p) PROVE UpkeepBounds'
  <2>1. UNCHANGED <<tick, write, gone, held, prune>>
    BY <1>3 DEF Upkeep!Poll
  <2>2. PICK x : poll' = [poll EXCEPT ![p] = x] /\ x.oldest <= x.latest
    <3>1. CASE \E e \in held : tick - e.at < TTL
      <4> DEFINE e == CHOOSE x \in held : TRUE
                 x == [at |-> "over", asked |-> tick, latest |-> e.latest, oldest |-> e.oldest]
      <4>1. e \in held
        BY <3>1
      <4>2. poll' = [poll EXCEPT ![p] = x]
        BY <1>3, <3>1 DEF Upkeep!Poll
      <4>3. x.oldest = e.oldest /\ x.latest = e.latest
        OBVIOUS
      <4> HIDE DEF e, x
      <4> QED
        BY <4>1, <4>2, <4>3 DEF UpkeepBounds
    <3>2. CASE ~ \E e \in held : tick - e.at < TTL
      <4> DEFINE x == [Upkeep!Unasked EXCEPT !.at = "read", !.asked = tick]
      <4>1. poll' = [poll EXCEPT ![p] = x]
        BY <1>3, <3>2 DEF Upkeep!Poll
      <4>2. x.oldest = 0 /\ x.latest = 0
        BY DEF Upkeep!Unasked
      <4> HIDE DEF x
      <4>3. x.oldest <= x.latest
        BY <4>2
      <4> QED
        BY <4>1, <4>3, Zenon
    <3> QED
      BY <3>1, <3>2
  <2>3. poll'[p] = x /\ \A q \in Requests : q # p => poll'[q] = poll[q]
    BY <1>0, <2>2
  <2> QED
    BY <2>1, <2>2, <2>3 DEF UpkeepBounds
<1>4. ASSUME NEW p \in Requests, Upkeep!ReadBounds(p) PROVE UpkeepBounds'
  <2> DEFINE S == Upkeep!Numbers(Upkeep!Rows)
             lo == Upkeep!Lowest(S)
             hi == Upkeep!Highest(S)
  <2>1. UNCHANGED <<tick, write, gone, held, prune>>
    BY <1>4 DEF Upkeep!ReadBounds
  <2>2. S \in SUBSET (0..Cardinality(Requests))
    BY <1>0 DEF Upkeep!Rows, Upkeep!Numbers
  <2>3. lo <= hi
    BY <1>0, <2>2, LowestFirst
  <2>4. poll' = [poll EXCEPT ![p].at = "store", ![p].latest = hi, ![p].oldest = lo]
    BY <1>4 DEF Upkeep!ReadBounds
  <2> HIDE DEF lo, hi
  <2>5. poll'[p].latest = hi /\ poll'[p].oldest = lo /\ \A q \in Requests : q # p => poll'[q] = poll[q]
    BY <1>0, <2>4 DEF PollType
  <2>6. \A q \in Requests : poll'[q].oldest <= poll'[q].latest
    BY <2>3, <2>5 DEF UpkeepBounds
  <2> QED
    BY <2>1, <2>6 DEF UpkeepBounds
<1>5. ASSUME NEW p \in Requests, Upkeep!Store(p) PROVE UpkeepBounds'
  <2>1. UNCHANGED <<tick, write, gone, prune>> /\ held' = {Upkeep!Entry(p)}
    BY <1>5 DEF Upkeep!Store
  <2>2. Upkeep!Entry(p).latest = poll[p].latest /\ Upkeep!Entry(p).oldest = poll[p].oldest
    BY DEF Upkeep!Entry
  <2>3. \A q \in Requests : poll'[q].latest = poll[q].latest /\ poll'[q].oldest = poll[q].oldest
    BY <1>0, <1>5 DEF Upkeep!Store, PollType
  <2> QED
    BY <2>1, <2>2, <2>3 DEF UpkeepBounds
<1>6. CASE Upkeep!BeginPrune
  <2>1. /\ UNCHANGED <<tick, write, gone, held, poll>> /\ tick > Retention
        /\ prune'.cutoff = tick - Retention
    BY <1>6 DEF Upkeep!BeginPrune
  <2>2. prune'.cutoff <= tick
    BY <1>0, <2>1
  <2> QED
    BY <2>1, <2>2 DEF UpkeepBounds
<1>7. CASE Upkeep!DeleteBatch
  <2>1. UNCHANGED <<tick, write, held, poll>> /\ prune'.cutoff = prune.cutoff
    BY <1>0, <1>7 DEF Upkeep!DeleteBatch
  <2>2. \A w \in gone' : w \in gone \/ w \in Upkeep!Old
    BY <1>7 DEF Upkeep!DeleteBatch
  <2>3. Upkeep!Old \subseteq {w \in Requests : write[w] \in {"committed", "over"}}
    BY DEF Upkeep!Old, Upkeep!Rows
  <2> QED
    BY <2>1, <2>2, <2>3 DEF UpkeepBounds
<1>8. CASE Upkeep!Tick
  <2>1. UNCHANGED <<write, gone, held, poll, prune>> /\ tick < MaxUpkeep /\ tick' = tick + 1
    BY <1>8 DEF Upkeep!Tick
  <2>2. tick' <= MaxUpkeep /\ prune'.cutoff <= tick'
    BY <1>0, <2>1 DEF UpkeepBounds
  <2> QED
    BY <2>1, <2>2 DEF UpkeepBounds
<1> QED
  BY <1>1, <1>2, <1>3, <1>4, <1>5, <1>6, <1>7, <1>8 DEF Upkeep!Next

LEMMA UpkeepTypes ==
    ASSUME Upkeep!LegalConstants, UpkeepInv, NumbersDrawn, UpkeepBounds PROVE Upkeep!TypeOK
<1>1. /\ tick \in Nat /\ MaxUpkeep \in Nat /\ prune \in [at : {"idle", "running"}, cutoff : Nat]
      /\ poll \in [Requests -> PollType(tick)]
  BY DEF UpkeepInv, UpkeepTyped, Upkeep!LegalConstants
<1>2. tick \in 0..MaxUpkeep /\ prune.cutoff \in 0..MaxUpkeep
  BY <1>1 DEF UpkeepBounds
<1>3. \A p \in Requests : poll[p].at \in {"new", "read", "store", "over"}
  BY <1>1 DEF PollType
<1>4. Upkeep!Cardinality(held) <= 1
  <2>1. CASE held = {}
    BY <2>1, SameSize, FS_EmptySet
  <2>2. CASE held # {}
    <3>1. PICK e \in held : TRUE
      BY <2>2
    <3>2. held = {e}
      BY <3>1 DEF UpkeepInv, Covered
    <3>3. Cardinality(held) = 1
      BY <3>2, FS_Singleton
    <3> QED
      BY <3>3, SameSize
  <2> QED
    BY <2>1, <2>2
<1> QED
  BY <1>1, <1>2, <1>3, <1>4 DEF NumbersDrawn, UpkeepBounds, Upkeep!TypeOK

-----------------------------------------------------------------------------
\* Resolving: what is said of the customers above is their types, but for the
\* bound on writes.
LEMMA BuyingWrites ==
    ASSUME Buying!LegalConstants, writes \in 0..MaxWrites, [Buying!Next]_(Buying!vars)
    PROVE  writes' \in 0..MaxWrites
<1>1. writes' = writes \/ (writes < MaxWrites /\ writes' = writes + 1)
  BY DEF Buying!Next, Buying!vars, Buying!Rename, Buying!Delete, Buying!Recover, Buying!Writes,
     Buying!LoadCustomers, Buying!LoadVariants, Buying!LoadFails, Buying!ResolveNext, Buying!Finish
<1>2. MaxWrites \in Nat
  BY DEF Buying!LegalConstants
<1> QED
  BY <1>1, <1>2

LEMMA BuyingTypes ==
    ASSUME ResolveInv(Customers, Aliases, Buyers), writes \in 0..MaxWrites PROVE Buying!TypeOK
<1>1. /\ table \in [Customers -> Row(Customers)] /\ resolved \in Seq(Match(Customers))
      /\ next = Len(resolved) + 1 /\ Len(resolved) \in Nat
      /\ \A i \in 1..Len(resolved) : resolved[i].by = "new" <=> resolved[i].who = Buying!NoOne
      /\ resolving \in {"idle", "variants", "resolving", "done", "failed"}
  BY DEF ResolveInv, ResolveTyped, Row
<1>2. \A c \in Customers : table[c].state \in {"live", "deleted"} /\ table[c].name \in Names
  BY <1>1 DEF Row
<1>3. \A i \in 1..Len(resolved) : resolved[i] \in Match(Customers)
  BY <1>1
<1>4. \A m \in Match(Customers) : m.by \in {"key", "name", "new"} /\ m.score \in 0..100
  BY DEF Match, Percent
<1>5. Len(resolved) = next - 1
  BY <1>1
<1> QED
  BY <1>1, <1>2, <1>3, <1>4, <1>5 DEF Buying!TypeOK

LEMMA StockingWrites ==
    ASSUME Stocking!LegalConstants, writes \in 0..MaxProductWrites, [Stocking!Next]_(Stocking!vars)
    PROVE  writes' \in 0..MaxProductWrites
<1>1. writes' = writes \/ (writes < MaxProductWrites /\ writes' = writes + 1)
  BY DEF Stocking!Next, Stocking!vars, Stocking!Rename, Stocking!Delete, Stocking!Recover,
     Stocking!Writes, Stocking!LoadCustomers, Stocking!LoadVariants, Stocking!LoadFails,
     Stocking!ResolveNext, Stocking!Finish
<1>2. MaxProductWrites \in Nat
  BY DEF Stocking!LegalConstants
<1> QED
  BY <1>1, <1>2

LEMMA StockingTypes ==
    ASSUME ResolveInv(StockItems, ProductAliases, Lines), writes \in 0..MaxProductWrites
    PROVE  Stocking!TypeOK
<1>1. /\ table \in [StockItems -> Row(StockItems)] /\ resolved \in Seq(Match(StockItems))
      /\ next = Len(resolved) + 1 /\ Len(resolved) \in Nat
      /\ \A i \in 1..Len(resolved) : resolved[i].by = "new" <=> resolved[i].who = Buying!NoOne
      /\ resolving \in {"idle", "variants", "resolving", "done", "failed"}
  BY DEF ResolveInv, ResolveTyped, Row
<1>2. \A c \in StockItems : table[c].state \in {"live", "deleted"} /\ table[c].name \in Names
  BY <1>1 DEF Row
<1>3. \A i \in 1..Len(resolved) : resolved[i] \in Match(StockItems)
  BY <1>1
<1>4. \A m \in Match(StockItems) : m.by \in {"key", "name", "new"} /\ m.score \in 0..100
  BY DEF Match, Percent
<1>5. Len(resolved) = next - 1
  BY <1>1
<1>6. Stocking!NoOne = Buying!NoOne
  BY DEF Stocking!NoOne, Buying!NoOne
<1> QED
  BY <1>1, <1>2, <1>3, <1>4, <1>5, <1>6 DEF Stocking!TypeOK

-----------------------------------------------------------------------------
\* All of them together.
LEMMA CoreFinalizes == CoreSpec => Spec
<1>1. CoreInit => Init
  BY DEF CoreInit
<1>2. [CoreNext]_coreVars => [Next]_vars
  BY DEF CoreNext, FinalizeStep, PreviewStep, ResolveStep, MatchStep, EditStep, EnrichStep, CountStep,
     ReportStep, UpkeepStep, coreVars
<1> QED
  BY <1>1, <1>2, PTL DEF CoreSpec, Spec

LEMMA SamePreviewTypes == Previewing!TypeOK <=> Previews!TypeOK
<1>1. Previewing!Working = Previews!Working
  BY Zenon DEF Previewing!Working, Previews!Working, Previewing!Timed, Previews!Timed
<1>2. Previewing!Priority = Previews!Priority
  BY Zenon DEF Previewing!Priority, Previews!Priority
<1>3. Previewing!Sheets = Previews!Sheets
  BY <1>2, Zenon DEF Previewing!Sheets, Previews!Sheets
<1> QED
  BY <1>1, <1>3, Zenon DEF Previewing!TypeOK, Previews!TypeOK

LEMMA SameEditTypes == Editing!TypeOK <=> Edits!TypeOK
BY DEF Editing!TypeOK, Edits!TypeOK, Editing!Records, Edits!Records, Editing!NoRequest,
       Edits!NoRequest

\* Of the components that run only while they are in focus.
FocusTyped ==
    /\ focus = "preview"   => Previews!TypeInv
    /\ focus = "customers" => ResolveInv(Customers, Aliases, Buyers) /\ writes \in 0..MaxWrites
    /\ focus = "products"  => ResolveInv(StockItems, ProductAliases, Lines) /\ writes \in 0..MaxProductWrites
    /\ focus = "enrich"    => EnrichInv /\ EnrichBounds
    /\ focus = "figures"   => FiguresInv /\ FiguresBounds
    /\ focus = "reports"   => ReportsInv /\ ReportsBounds
    /\ focus = "ledger"    => UpkeepInv /\ NumbersDrawn /\ UpkeepBounds

LEMMA CoreBounds ==
    /\ MaxCrashes \in Nat /\ MaxWrites \in Nat /\ MaxProductWrites \in Nat /\ IsFiniteSet(Requests)
    /\ LegalConstants /\ Buying!LegalConstants /\ Stocking!LegalConstants
    /\ Enriching!LegalConstants /\ Figures!LegalConstants /\ Upkeep!LegalConstants
<1>1. MaxCrashes \in Nat
  BY FinalizeConstants, Zenon
<1>2. /\ LegalConstants /\ Buying!LegalConstants /\ Stocking!LegalConstants
      /\ Enriching!LegalConstants /\ Figures!LegalConstants /\ Upkeep!LegalConstants
  BY CoreConstants
<1>3. MaxWrites \in Nat
  BY <1>2, Zenon DEF Buying!LegalConstants
<1>4. MaxProductWrites \in Nat
  BY <1>2, Zenon DEF Stocking!LegalConstants
<1>5. IsFiniteSet(Requests)
  BY <1>2 DEF Upkeep!LegalConstants, Upkeep!IsFiniteSet, IsFiniteSet
<1> QED
  BY <1>1, <1>2, <1>3, <1>4, <1>5

LEMMA FocusBegins == CoreInit => FocusTyped
<1> SUFFICES ASSUME CoreInit PROVE FocusTyped
  OBVIOUS
<1>1. focus = "preview" => Previews!TypeInv
  BY CoreBounds, SamePreviewing, Previews!TypesInit DEF CoreInit
<1>2. focus = "customers" => ResolveInv(Customers, Aliases, Buyers) /\ writes \in 0..MaxWrites
  <2> SUFFICES ASSUME focus = "customers" PROVE ResolveInv(Customers, Aliases, Buyers) /\ writes \in 0..MaxWrites
    OBVIOUS
  <2>1. Buying!Init
    BY DEF CoreInit
  <2>2. writes = 0 /\ MaxWrites \in Nat
    BY <2>1, CoreBounds DEF Buying!Init
  <2>3. writes \in 0..MaxWrites
    BY <2>2
  <2> QED
    BY <2>1, <2>3, CoreBounds, BuyingInit
<1>3. focus = "products" => ResolveInv(StockItems, ProductAliases, Lines) /\ writes \in 0..MaxProductWrites
  <2> SUFFICES ASSUME focus = "products"
               PROVE  ResolveInv(StockItems, ProductAliases, Lines) /\ writes \in 0..MaxProductWrites
    OBVIOUS
  <2>1. Stocking!Init
    BY DEF CoreInit
  <2>2. writes = 0 /\ MaxProductWrites \in Nat
    BY <2>1, CoreBounds DEF Stocking!Init
  <2>3. writes \in 0..MaxProductWrites
    BY <2>2
  <2> QED
    BY <2>1, <2>3, CoreBounds, StockingInit
<1>4. focus = "enrich" => EnrichInv /\ EnrichBounds
  BY CoreBounds, EnrichInit, EnrichBegins DEF CoreInit
<1>5. focus = "figures" => FiguresInv /\ FiguresBounds
  BY CoreBounds, FiguresInit, FiguresBegins DEF CoreInit
<1>6. focus = "reports" => ReportsInv /\ ReportsBounds
  BY CoreBounds, ReportsInit, ReportsBegins DEF CoreInit
<1>7. focus = "ledger" => UpkeepInv /\ NumbersDrawn /\ UpkeepBounds
  BY CoreBounds, UpkeepInit, UpkeepBegins DEF CoreInit
<1> QED
  BY <1>1, <1>2, <1>3, <1>4, <1>5, <1>6, <1>7 DEF FocusTyped

LEMMA FocusKeeps == FocusTyped /\ [CoreNext]_coreVars => FocusTyped'
<1> SUFFICES ASSUME FocusTyped, [CoreNext]_coreVars PROVE FocusTyped'
  OBVIOUS
<1>0. focus' = focus
  BY EachSteps
<1>1. focus = "preview" => Previews!TypeInv'
  <2> SUFFICES ASSUME focus = "preview" PROVE Previews!TypeInv'
    OBVIOUS
  <2>1. [Previews!Next]_(Previews!vars) /\ Previews!TypeInv
    BY EachSteps, SamePreviewing DEF FocusTyped
  <2> QED
    BY <2>1, CoreBounds, Previews!TypesStep
<1>2. focus = "customers" => (ResolveInv(Customers, Aliases, Buyers) /\ writes \in 0..MaxWrites)'
  <2> SUFFICES ASSUME focus = "customers"
               PROVE  (ResolveInv(Customers, Aliases, Buyers) /\ writes \in 0..MaxWrites)'
    OBVIOUS
  <2>1. [Buying!Next]_(Buying!vars) /\ ResolveInv(Customers, Aliases, Buyers) /\ writes \in 0..MaxWrites
    BY EachSteps DEF FocusTyped
  <2> QED
    BY <2>1, CoreBounds, BuyingKeeps, BuyingWrites
<1>3. focus = "products" => (ResolveInv(StockItems, ProductAliases, Lines) /\ writes \in 0..MaxProductWrites)'
  <2> SUFFICES ASSUME focus = "products"
               PROVE  (ResolveInv(StockItems, ProductAliases, Lines) /\ writes \in 0..MaxProductWrites)'
    OBVIOUS
  <2>1. [Stocking!Next]_(Stocking!vars) /\ ResolveInv(StockItems, ProductAliases, Lines) /\ writes \in 0..MaxProductWrites
    BY EachSteps DEF FocusTyped
  <2> QED
    BY <2>1, CoreBounds, StockingKeeps, StockingWrites
<1>4. focus = "enrich" => (EnrichInv /\ EnrichBounds)'
  <2> SUFFICES ASSUME focus = "enrich" PROVE (EnrichInv /\ EnrichBounds)'
    OBVIOUS
  <2>1. [Enriching!Next]_(Enriching!vars) /\ EnrichInv /\ EnrichBounds
    BY EachSteps DEF FocusTyped
  <2> QED
    BY <2>1, CoreBounds, EnrichKeeps, EnrichBounded
<1>5. focus = "figures" => (FiguresInv /\ FiguresBounds)'
  <2> SUFFICES ASSUME focus = "figures" PROVE (FiguresInv /\ FiguresBounds)'
    OBVIOUS
  <2>1. [Figures!Next]_(Figures!vars) /\ FiguresInv /\ FiguresBounds
    BY EachSteps DEF FocusTyped
  <2> QED
    BY <2>1, CoreBounds, FiguresKeep, FiguresBounded
<1>6. focus = "reports" => (ReportsInv /\ ReportsBounds)'
  <2> SUFFICES ASSUME focus = "reports" PROVE (ReportsInv /\ ReportsBounds)'
    OBVIOUS
  <2>1. [Reporting!Next]_(Reporting!vars) /\ ReportsInv /\ ReportsBounds
    BY EachSteps DEF FocusTyped
  <2> QED
    BY <2>1, CoreBounds, ReportsKeep, ReportsBounded
<1>7. focus = "ledger" => (UpkeepInv /\ NumbersDrawn /\ UpkeepBounds)'
  <2> SUFFICES ASSUME focus = "ledger" PROVE (UpkeepInv /\ NumbersDrawn /\ UpkeepBounds)'
    OBVIOUS
  <2>1. [Upkeep!Next]_(Upkeep!vars) /\ UpkeepInv /\ NumbersDrawn /\ UpkeepBounds
    BY EachSteps DEF FocusTyped
  <2> QED
    BY <2>1, CoreBounds, UpkeepKeeps, NumbersStayDrawn, UpkeepBounded
<1> QED
  BY <1>0, <1>1, <1>2, <1>3, <1>4, <1>5, <1>6, <1>7 DEF FocusTyped

\* Every component of Core keeps its types, whatever its steps: each status,
\* answer and flag is one that its code knows, a record is dated when it is
\* deleted (EntityService), no two rows of the ledger have one number
\* (EventLedger), a figure is cached once (StatisticsCache), a new customer
\* is nobody's match (Resolver), and a report is marked as read by no more
\* than have asked (notifications/service.py).
THEOREM CoreKeepsTypes == CoreSpec => []TypesOK
<1>1. CoreSpec => []FocusTyped
  BY FocusBegins, FocusKeeps, PTL DEF CoreSpec
<1>2. CoreSpec => []TypeOK
  BY CoreFinalizes, CoreBounds, FinalizeTypes
<1>3. CoreSpec => []Edits!TypeOK
  BY CoreEdits, EditConstants, Edits!EntityTypes
<1>4. ASSUME FocusTyped, TypeOK, Edits!TypeOK PROVE TypesOK
  <2>1. focus = "preview" => Previewing!TypeOK
    BY <1>4, SamePreviewTypes, Previews!TypesFollow DEF FocusTyped
  <2>2. (focus = "customers" => Buying!TypeOK) /\ (focus = "products" => Stocking!TypeOK)
    BY <1>4, BuyingTypes, StockingTypes DEF FocusTyped
  <2>3. (focus = "enrich" => Enriching!TypeOK) /\ (focus = "figures" => Figures!TypeOK)
    BY <1>4, CoreBounds, EnrichTypes, FiguresTypes DEF FocusTyped
  <2>4. (focus = "reports" => Reporting!TypeOK) /\ (focus = "ledger" => Upkeep!TypeOK)
    BY <1>4, CoreBounds, ReportsTypes, UpkeepTypes DEF FocusTyped
  <2> QED
    BY <1>4, <2>1, <2>2, <2>3, <2>4, SameEditTypes DEF TypesOK
<1> QED
  BY <1>1, <1>2, <1>3, <1>4, PTL
=============================================================================
