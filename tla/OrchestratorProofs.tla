------------------------- MODULE OrchestratorProofs -------------------------
(***************************************************************************)
(* Proofs about Orchestrator, for any number of requests, any files and    *)
(* any number of deaths of the process.                                    *)
(***************************************************************************)
EXTENDS Orchestrator, FiniteSetTheorems, TLAPS

Steps   == Working \cup {"new", "claim", "over", "timedout", "lost"}
Answers == {"none", "refused", "later", "skipped", "finalized", "preview_ready", "failed"}

\* F: the sets of flags that occur, whatever is in them.
RunWith(F) == [at : Steps, bg : BOOLEAN, late : BOOLEAN, unclaimed : BOOLEAN, flags : F, told : Answers]

Typed == \E F : run \in [Requests -> RunWith(F)]

\* Past these steps a run does not touch its flags any more.
Frozen == {"publish", "over", "lost"}
Busy   == Working \cup {"timedout"}

\* A preview is what its run made of its flags, and the run has gone on.
Named == \A p \in previews :
    /\ p.by \in Requests /\ run[p.by].at \in Frozen
    /\ p = [by |-> p.by, sheets |-> Branch(Invoices(file), run[p.by].flags)]

\* Who is about to promise a preview, or has, made one.
Backed ==
    /\ \A r \in Requests : run[r].told = "preview_ready" \/ run[r].at = "publish" =>
          \E p \in previews : p.by = r
    /\ row \in {"PREVIEW_READY", "EXPIRED"} => previews # {}

\* A run that works on the row, or has left a preview.
Begun(r) == run[r].at \in Busy \/ \E p \in previews : p.by = r

\* Unless some run began without a claim, one run at most ever begins, and
\* none while the row is pending, which no repair makes it again.
Alone == (\A r \in Requests : ~run[r].unclaimed) =>
    /\ row = "PENDING" => \A r \in Requests : ~Begun(r)
    /\ \A r, q \in Requests : Begun(r) /\ Begun(q) => r = q

IInv == Typed /\ Named /\ Backed /\ Alone

LEMMA InitHolds == Init => IInv
<1> SUFFICES ASSUME Init PROVE IInv
  OBVIOUS
<1> DEFINE Fresh == [at |-> "new", bg |-> FALSE, late |-> FALSE, unclaimed |-> FALSE,
                     flags |-> {}, told |-> "none"]
<1>1. Fresh \in RunWith({{}}) /\ Fresh.at = "new" /\ Fresh.told = "none"
  BY DEF RunWith, Steps, Answers
<1>2. run = [r \in Requests |-> Fresh] /\ row = "PENDING" /\ previews = {}
  BY DEF Init
<1> HIDE DEF Fresh
<1>3. run \in [Requests -> RunWith({{}})] /\ \A r \in Requests : run[r] = Fresh
  BY <1>1, <1>2
<1>4. Typed
  BY <1>3 DEF Typed
<1> QED
  BY <1>1, <1>2, <1>3, <1>4 DEF IInv, Named, Backed, Alone, Begun, Busy, Working, Timed

-----------------------------------------------------------------------------
(* Steps that make no preview.                                             *)

\* A step of one run that neither begins nor ends a preview.
LEMMA OwnStep ==
    ASSUME IInv, NEW r \in Requests, Typed',
           \A q \in Requests : q # r => run'[q] = run[q],
           UNCHANGED <<file, previews>>,
           run'[r].unclaimed = run[r].unclaimed,
           run[r].at \in Frozen => run'[r].at \in Frozen /\ run'[r].flags = run[r].flags,
           run'[r].at = "publish" => run[r].at = "publish",
           run'[r].told = "preview_ready" => run[r].told = "preview_ready" \/ run[r].at = "publish",
           run'[r].at \in Busy => run[r].at \in Busy,
           \/ row' = row
           \/ row' # "PENDING" /\ (row' \in {"PREVIEW_READY", "EXPIRED"} => previews # {})
    PROVE  IInv'
<1>1. Named'
  BY DEF IInv, Named
<1>2. Backed'
  BY DEF IInv, Backed
<1>3. \A q \in Requests : Begun(q)' => Begun(q)
  BY DEF Begun
<1>4. \A q \in Requests : run'[q].unclaimed = run[q].unclaimed
  OBVIOUS
<1>5. Alone'
  BY <1>3, <1>4 DEF IInv, Alone
<1> QED
  BY <1>1, <1>2, <1>5 DEF IInv

\* A run that goes on to another step.
LEMMA GotoStep ==
    ASSUME Typed, NEW r \in Requests, NEW step \in Steps, Goto(r, step)
    PROVE  /\ Typed' /\ \A q \in Requests : q # r => run'[q] = run[q]
           /\ run'[r].at = step /\ run'[r].flags = run[r].flags
           /\ run'[r].unclaimed = run[r].unclaimed /\ run'[r].told = run[r].told
<1>1. PICK F : run \in [Requests -> RunWith(F)]
  BY DEF Typed
<1>2. run' = [run EXCEPT ![r] = [run[r] EXCEPT !.at = step]]
  BY <1>1 DEF Goto
<1>3. [run[r] EXCEPT !.at = step] \in RunWith(F)
  BY <1>1 DEF RunWith
<1>4. run' \in [Requests -> RunWith(F)]
  BY <1>1, <1>2, <1>3
<1> QED
  BY <1>1, <1>2, <1>4 DEF Typed, RunWith

\* A run that answers its request, unless it has been answered before.
LEMMA SayStep ==
    ASSUME Typed, NEW r \in Requests, NEW step \in Steps, NEW a \in Answers, Say(r, step, a)
    PROVE  /\ Typed' /\ \A q \in Requests : q # r => run'[q] = run[q]
           /\ run'[r].at = step /\ run'[r].flags = run[r].flags
           /\ run'[r].unclaimed = run[r].unclaimed
           /\ run'[r].told \in {a, run[r].told}
<1>1. PICK F : run \in [Requests -> RunWith(F)]
  BY DEF Typed
<1>2. PICK t \in {a, run[r].told} : run' = [run EXCEPT ![r] = [run[r] EXCEPT !.at = step, !.told = t]]
  BY <1>1 DEF Say
<1>3. t \in Answers
  BY <1>1 DEF RunWith
<1>4. [run[r] EXCEPT !.at = step, !.told = t] \in RunWith(F)
  BY <1>1, <1>3 DEF RunWith
<1>5. run' \in [Requests -> RunWith(F)]
  BY <1>1, <1>2, <1>4
<1> QED
  BY <1>1, <1>2, <1>5 DEF Typed, RunWith

\* A phase that may add flags.
LEMMA FlagStep ==
    ASSUME Typed, NEW r \in Requests, NEW step \in Steps, NEW g,
           run' = [run EXCEPT ![r].at = step, ![r].flags = g]
    PROVE  /\ Typed' /\ \A q \in Requests : q # r => run'[q] = run[q]
           /\ run'[r].at = step /\ run'[r].flags = g
           /\ run'[r].unclaimed = run[r].unclaimed /\ run'[r].told = run[r].told
<1>1. PICK F : run \in [Requests -> RunWith(F)]
  BY DEF Typed
<1>2. run' = [run EXCEPT ![r] = [run[r] EXCEPT !.at = step, !.flags = g]]
  BY <1>1
<1>3. /\ [run[r] EXCEPT !.at = step, !.flags = g] \in RunWith(F \cup {g})
      /\ \A q \in Requests : run[q] \in RunWith(F \cup {g})
  BY <1>1 DEF RunWith
<1>4. run' \in [Requests -> RunWith(F \cup {g})]
  BY <1>1, <1>2, <1>3
<1> QED
  BY <1>1, <1>2, <1>4 DEF Typed, RunWith

\* The route before a run begins, and steps that only wait or restart.
LEMMA WaitingSteps ==
    ASSUME IInv, NEW r \in Requests, Select(r) \/ SelectFails(r) \/ Slow(r) \/ TimesOut(r)
    PROVE  IInv'
<1>0. Typed
  BY DEF IInv
<1> USE DEF Steps, Answers, Frozen, Busy, Working, Timed
<1>1. CASE Select(r) \/ SelectFails(r)
  <2>1. /\ run[r].at = "new" /\ UNCHANGED <<file, row, previews>>
        /\ Goto(r, "claim") \/ Say(r, "over", "refused")
    BY <1>1 DEF Select, SelectFails
  <2>2. CASE Goto(r, "claim")
    BY <1>0, <2>1, <2>2, GotoStep, OwnStep
  <2>3. CASE Say(r, "over", "refused")
    BY <1>0, <2>1, <2>3, SayStep, OwnStep
  <2> QED
    BY <2>1, <2>2, <2>3
<1>2. PICK F : run \in [Requests -> RunWith(F)]
  BY <1>0 DEF Typed
<1>3. CASE Slow(r)
  <2>1. run' = [run EXCEPT ![r] = [run[r] EXCEPT !.late = TRUE]] /\ UNCHANGED <<file, row, previews>>
    BY <1>2, <1>3 DEF Slow
  <2>2. [run[r] EXCEPT !.late = TRUE] \in RunWith(F)
    BY <1>2 DEF RunWith
  <2>3. run' \in [Requests -> RunWith(F)] /\ \A q \in Requests : q # r => run'[q] = run[q]
    BY <1>2, <2>1, <2>2
  <2>4. /\ run'[r].at = run[r].at /\ run'[r].flags = run[r].flags
        /\ run'[r].unclaimed = run[r].unclaimed /\ run'[r].told = run[r].told
    BY <1>2, <2>1 DEF RunWith
  <2> QED
    BY <2>1, <2>3, <2>4, OwnStep DEF Typed
<1>4. CASE TimesOut(r)
  <2>1. run[r].at \in Timed /\ UNCHANGED <<file, row, previews>>
    BY <1>4 DEF TimesOut
  <2>2. CASE Goto(r, "timedout")
    BY <1>0, <2>1, <2>2, GotoStep, OwnStep
  <2>3. CASE run' = [run EXCEPT ![r].at = "fetch", ![r].bg = TRUE, ![r].told = "later"]
    <3>1. run' = [run EXCEPT ![r] = [run[r] EXCEPT !.at = "fetch", !.bg = TRUE, !.told = "later"]]
      BY <1>2, <2>3
    <3>2. [run[r] EXCEPT !.at = "fetch", !.bg = TRUE, !.told = "later"] \in RunWith(F)
      BY <1>2 DEF RunWith
    <3>3. run' \in [Requests -> RunWith(F)] /\ \A q \in Requests : q # r => run'[q] = run[q]
      BY <1>2, <3>1, <3>2
    <3>4. /\ run'[r].at = "fetch" /\ run'[r].told = "later" /\ run'[r].unclaimed = run[r].unclaimed
      BY <1>2, <3>1 DEF RunWith
    <3> QED
      BY <2>1, <3>3, <3>4, OwnStep DEF Typed
  <2> QED
    BY <1>4, <2>2, <2>3 DEF TimesOut
<1> QED
  BY <1>1, <1>3, <1>4

\* The phases up to the choice of the branch.
LEMMA PhaseSteps ==
    ASSUME IInv, NEW r \in Requests,
           Fetch(r) \/ Parse(r) \/ Dedup(r) \/ Transform(r) \/ Enrich(r) \/ Resolve(r)
    PROVE  IInv'
<1>0. Typed /\ UNCHANGED <<file, row, previews>>
  BY DEF IInv, Fetch, Parse, Dedup, Transform, Enrich, Resolve
<1> USE DEF Steps, Answers, Frozen, Busy, Working, Timed
<1>1. run[r].at \in Timed \cup {"dedup"}
  BY DEF Fetch, Parse, Dedup, Transform, Enrich, Resolve, InTime
<1>2. CASE \E step \in Working \ {"publish"} : Goto(r, step)
  BY <1>0, <1>1, <1>2, GotoStep, OwnStep
<1>3. CASE Say(r, "over", "skipped")
  BY <1>0, <1>1, <1>3, SayStep, OwnStep
<1>4. CASE \E step \in Working \ {"publish"} : \E g : run' = [run EXCEPT ![r].at = step, ![r].flags = g]
  <2>0. PICK step \in Working \ {"publish"} : \E g : run' = [run EXCEPT ![r].at = step, ![r].flags = g]
    BY <1>4
  <2>1. PICK g : run' = [run EXCEPT ![r].at = step, ![r].flags = g]
    BY <2>0
  <2>2. /\ Typed' /\ \A q \in Requests : q # r => run'[q] = run[q]
        /\ run'[r].at = step /\ run'[r].flags = g
        /\ run'[r].unclaimed = run[r].unclaimed /\ run'[r].told = run[r].told
    BY <1>0, <2>1, FlagStep
  <2> QED
    BY <1>0, <1>1, <2>2, OwnStep
<1>5. CASE Fetch(r)
  BY <1>2, <1>5 DEF Fetch, Then
<1>6. CASE Dedup(r)
  BY <1>2, <1>3, <1>6 DEF Dedup
<1>7. CASE Parse(r)
  BY <1>4, <1>7 DEF Parse, Then
<1>8. CASE Transform(r)
  BY <1>4, <1>8 DEF Transform, Then
<1>9. CASE Enrich(r)
  BY <1>4, <1>9 DEF Enrich, Then
<1>10. CASE Resolve(r)
  BY <1>4, <1>10 DEF Resolve
<1> QED
  BY <1>5, <1>6, <1>7, <1>8, <1>9, <1>10

\* The ends of a run, and the way to one.
LEMMA EndSteps ==
    ASSUME IInv, NEW r \in Requests,
           FinishAtOnce(r) \/ Publish(r) \/ Raise(r) \/ Fail(r) \/ FailLate(r)
    PROVE  IInv'
<1>0. Typed /\ UNCHANGED <<file, previews>>
  BY DEF IInv, FinishAtOnce, Publish, Raise, Fail, FailLate
<1> USE DEF Steps, Answers, Frozen, Busy, Working, Timed
<1>1. CASE FinishAtOnce(r)
  <2>1. run[r].at = "immediate" /\ Say(r, "over", "finalized") /\ row' \in {row, "FINALIZED"}
    BY <1>1 DEF FinishAtOnce, Written
  <2> QED
    BY <1>0, <2>1, SayStep, OwnStep
<1>2. CASE Publish(r)
  <2>1. run[r].at = "publish" /\ Say(r, "over", "preview_ready") /\ row' \in {row, "PREVIEW_READY"}
    BY <1>2 DEF Publish, Written
  <2>2. previews # {}
    BY <2>1 DEF IInv, Backed
  <2> QED
    BY <1>0, <2>1, <2>2, SayStep, OwnStep
<1>3. CASE Raise(r)
  <2>1. run[r].at \in Working \ {"publish"} /\ Goto(r, "fail") /\ row' = row
    BY <1>3 DEF Raise
  <2> QED
    BY <1>0, <2>1, GotoStep, OwnStep
<1>4. CASE Fail(r)
  <2>1. run[r].at = "fail" /\ Say(r, "over", "failed") /\ row' \in {row, "FAILED"}
    BY <1>4 DEF Fail, Written
  <2> QED
    BY <1>0, <2>1, SayStep, OwnStep
<1>5. CASE FailLate(r)
  <2>1. run[r].at = "timedout" /\ Goto(r, "over") /\ row' \in {row, "FAILED"}
    BY <1>5 DEF FailLate, Written
  <2> QED
    BY <1>0, <2>1, GotoStep, OwnStep
<1> QED
  BY <1>1, <1>2, <1>3, <1>4, <1>5

-----------------------------------------------------------------------------
(* Beginning a run, and making its preview.                                *)

\* Whoever claims the pending row is the first to begin, if all claimed.
LEMMA ClaimKeeps == ASSUME IInv, NEW r \in Requests, Claim(r) PROVE IInv'
<1>0. Typed /\ UNCHANGED <<file, previews>> /\ run[r].at = "claim"
  BY DEF IInv, Claim
<1> USE DEF Steps, Answers, Frozen, Busy, Working, Timed
<1>1. CASE ~Free
  <2>1. Say(r, "over", "refused") /\ row' = row
    BY <1>1 DEF Claim
  <2> QED
    BY <1>0, <2>1, SayStep, OwnStep
<1>2. CASE Free
  <2>1. row = "PENDING" /\ row' = "PROCESSING" /\ Goto(r, "fetch")
    BY <1>2 DEF Claim, Free
  <2>2. /\ Typed' /\ \A q \in Requests : q # r => run'[q] = run[q]
        /\ run'[r].at = "fetch" /\ run'[r].flags = run[r].flags
        /\ run'[r].unclaimed = run[r].unclaimed /\ run'[r].told = run[r].told
    BY <1>0, <2>1, GotoStep
  <2>3. Named' /\ Backed'
    BY <1>0, <2>1, <2>2 DEF IInv, Named, Backed
  <2>4. \A q \in Requests : q # r => (Begun(q)' <=> Begun(q))
    BY <1>0, <2>2 DEF Begun
  <2>5. \A q \in Requests : run'[q].unclaimed = run[q].unclaimed
    BY <2>2
  <2>6. Alone'
    BY <2>1, <2>4, <2>5 DEF IInv, Alone
  <2> QED
    BY <2>2, <2>3, <2>6 DEF IInv
<1> QED
  BY <1>1, <1>2

\* A run without a claim is told apart from the others.
LEMMA ClaimRaisesKeeps == ASSUME IInv, NEW r \in Requests, ClaimRaises(r) PROVE IInv'
<1>1. PICK F : run \in [Requests -> RunWith(F)]
  BY DEF IInv, Typed
<1>2. /\ run' = [run EXCEPT ![r] = [run[r] EXCEPT !.at = "fetch", !.unclaimed = TRUE]]
      /\ run[r].at = "claim" /\ UNCHANGED <<file, row, previews>>
  BY <1>1 DEF ClaimRaises
<1>3. [run[r] EXCEPT !.at = "fetch", !.unclaimed = TRUE] \in RunWith(F)
  BY <1>1 DEF RunWith, Steps, Working, Timed
<1>4. run' \in [Requests -> RunWith(F)] /\ \A q \in Requests : q # r => run'[q] = run[q]
  BY <1>1, <1>2, <1>3
<1>5. run'[r].at = "fetch" /\ run'[r].unclaimed /\ run'[r].told = run[r].told
  BY <1>1, <1>2 DEF RunWith
<1>6. Named' /\ Backed'
  BY <1>2, <1>4, <1>5 DEF IInv, Named, Backed, Frozen
<1>7. Alone'
  BY <1>5 DEF Alone
<1> QED
  BY <1>4, <1>6, <1>7 DEF IInv, Typed

\* A preview is made by a run that has made none, of flags that stay.
LEMMA GenerateKeeps == ASSUME IInv, NEW r \in Requests, Generate(r) PROVE IInv'
<1> DEFINE new == [by |-> r, sheets |-> Branch(Invoices(file), run[r].flags)]
<1>0. /\ Typed /\ run[r].at = "branch" /\ Goto(r, "publish") /\ UNCHANGED <<file, row>>
      /\ previews' = previews \cup {new}
  BY DEF IInv, Generate, InTime
<1>1. /\ Typed' /\ \A q \in Requests : q # r => run'[q] = run[q]
      /\ run'[r].at = "publish" /\ run'[r].flags = run[r].flags
      /\ run'[r].unclaimed = run[r].unclaimed /\ run'[r].told = run[r].told
  BY <1>0, GotoStep DEF Steps, Working
<1>2. new.by = r /\ new = [by |-> new.by, sheets |-> Branch(Invoices(file'), run'[new.by].flags)]
  BY <1>0, <1>1
<1> HIDE DEF new
<1>3. \A p \in previews : p.by # r
  BY <1>0 DEF IInv, Named, Frozen
<1>4. Named'
  BY <1>0, <1>1, <1>2, <1>3 DEF IInv, Named, Frozen
<1>5. Backed'
  BY <1>0, <1>1, <1>2 DEF IInv, Backed
<1>6. \A q \in Requests : Begun(q)' => Begun(q)
  BY <1>0, <1>1, <1>2 DEF Begun, Busy, Working, Timed
<1>7. \A q \in Requests : run'[q].unclaimed = run[q].unclaimed
  BY <1>1
<1>8. Alone'
  BY <1>0, <1>6, <1>7 DEF IInv, Alone
<1> QED
  BY <1>1, <1>4, <1>5, <1>8 DEF IInv

-----------------------------------------------------------------------------
(* Jobs, and the process.                                                  *)

\* Repairs and waiting leave runs and previews alone.
LEMMA RepairKeeps ==
    ASSUME IInv, TellHeartBeat \/ Wait \/ FailStale \/ Expire
    PROVE  IInv'
<1>1. /\ UNCHANGED <<file, run, previews>>
      /\ \/ row' = row
         \/ row' # "PENDING" /\ (row' \in {"PREVIEW_READY", "EXPIRED"} => previews # {})
  BY DEF TellHeartBeat, Wait, FailStale, Expire, IInv, Backed
<1> QED
  BY <1>1 DEF IInv, Typed, Named, Backed, Alone, Begun

\* A death ends runs, and lets none begin.
LEMMA DieKeeps == ASSUME IInv, Die PROVE IInv'
<1>1. PICK F : run \in [Requests -> RunWith(F)]
  BY DEF IInv, Typed
<1>2. /\ run' = [r \in Requests |-> IF r \in Running THEN [run[r] EXCEPT !.at = "lost"] ELSE run[r]]
      /\ UNCHANGED <<file, row, previews>>
  BY Zenon DEF Die
<1>3. \A r \in Requests :
        /\ run'[r] \in RunWith(F) /\ run'[r].flags = run[r].flags
        /\ run'[r].unclaimed = run[r].unclaimed /\ run'[r].told = run[r].told
        /\ run'[r].at \in {"lost", run[r].at}
  <2> TAKE r \in Requests
  <2>1. run'[r] = IF r \in Running THEN [run[r] EXCEPT !.at = "lost"] ELSE run[r]
    BY <1>2
  <2> QED
    BY <1>1, <2>1 DEF RunWith, Steps
<1>4. run' \in [Requests -> RunWith(F)]
  BY <1>2, <1>3
<1>5. Named'
  BY <1>2, <1>3 DEF IInv, Named, Frozen
<1>6. Backed'
  BY <1>2, <1>3 DEF IInv, Backed
<1>7. \A r \in Requests : Begun(r)' => Begun(r)
  BY <1>2, <1>3 DEF Begun, Busy, Working, Timed
<1>8. Alone'
  BY <1>2, <1>3, <1>7 DEF IInv, Alone
<1> QED
  BY <1>4, <1>5, <1>6, <1>8 DEF IInv, Typed

LEMMA StepKeeps == IInv /\ [Next]_vars => IInv'
<1> SUFFICES ASSUME IInv, [Next]_vars PROVE IInv'
  OBVIOUS
<1>1. CASE TellHeartBeat \/ Wait \/ FailStale \/ Expire \/ Die
  BY <1>1, RepairKeeps, DieKeeps
<1>2. ASSUME NEW r \in Requests, Step(r) PROVE IInv'
  BY <1>2, WaitingSteps, PhaseSteps, EndSteps, ClaimKeeps, ClaimRaisesKeeps, GenerateKeeps DEF Step
<1>3. CASE UNCHANGED vars
  BY <1>3 DEF vars, IInv, Typed, Named, Backed, Alone, Begun
<1> QED
  BY <1>1, <1>2, <1>3 DEF Next

-----------------------------------------------------------------------------
(* What a preview shows.                                                   *)

\* "failed" comes first: an invoice with a blocking flag is on that sheet.
LEMMA BlockedIsFailed ==
    ASSUME NEW inv, NEW flags, Blocking(flags) # {}
    PROVE  Sheet(inv, flags) = "failed"
<1> DEFINE hit == {i \in 1..Len(Priority) : Applies(Priority[i], inv, flags)}
<1>1. 1 \in hit /\ Priority[1] = "failed" /\ \A i \in hit : i \in Nat /\ 1 <= i
  <2>1. Len(Priority) = 6 /\ Priority[1] = "failed"
    BY DEF Priority
  <2>2. Applies("failed", inv, flags)
    BY DEF Applies
  <2> QED
    BY <2>1, <2>2
<1> HIDE DEF hit
<1>2. (CHOOSE i \in hit : \A j \in hit : i <= j) = 1
  BY <1>1
<1>3. Sheet(inv, flags) = IF hit = {} THEN "submission"
                          ELSE Priority[CHOOSE i \in hit : \A j \in hit : i <= j]
  BY DEF Sheet, hit
<1> QED
  BY <1>1, <1>2, <1>3

LEMMA BlockedIsOnTheSheet ==
    ASSUME NEW invoices, NEW flags, NEW g \in Blocking(flags), g.at \in 1..Len(invoices)
    PROVE  g.at \in Branch(invoices, flags)["failed"]
<1> DEFINE own == {h \in flags : h.at = g.at}
<1>1. g \in Blocking(own)
  BY DEF Blocking
<1>2. Sheet(invoices[g.at], own) = "failed"
  BY <1>1, BlockedIsFailed
<1>3. "failed" \in Sheets
  BY DEF Sheets, Priority
<1> QED
  BY <1>2, <1>3 DEF Branch

\* The invariant says what is promised.
LEMMA Promises == ASSUME IInv PROVE PreviewBacked
<1>1. /\ row \in {"PREVIEW_READY", "EXPIRED"} => previews # {}
      /\ \A r \in Requests : run[r].told = "preview_ready" => \E p \in previews : p.by = r
  BY DEF IInv, Backed
<1>2. ASSUME \A r \in Requests : ~run[r].unclaimed PROVE Cardinality(previews) <= 1
  <2>1. \A p, q \in previews : p.by = q.by
    BY <1>2 DEF IInv, Alone, Begun, Named
  <2>2. \A p, q \in previews : p = q
    BY <2>1 DEF IInv, Named
  <2>3. CASE previews = {}
    BY <2>3, FS_EmptySet
  <2>4. CASE previews # {}
    <3>1. PICK p : previews = {p}
      BY <2>2, <2>4
    <3>2. Cardinality({p}) = 1
      BY FS_Singleton
    <3> QED
      BY <3>1, <3>2
  <2> QED
    BY <2>3, <2>4
<1>3. ASSUME NEW p \in previews, NEW g \in Blocking(run[p.by].flags), g.at \in 1..Len(Invoices(file))
      PROVE  g.at \in p.sheets["failed"]
  <2>1. p.sheets = Branch(Invoices(file), run[p.by].flags)
    BY DEF IInv, Named
  <2> QED
    BY <1>3, <2>1, BlockedIsOnTheSheet
<1> QED
  BY <1>1, <1>2, <1>3 DEF PreviewBacked

\* A promised preview exists; a row whose runs all claimed it gets one
\* preview; and no preview shows an invoice as fit for submission that a
\* flag with its place calls wrong (process_preview, PipelineOrchestrator,
\* PreviewGenerator).
THEOREM PreviewsHold == Spec => []PreviewBacked
<1>1. Init => IInv
  BY InitHolds
<1>2. IInv /\ [Next]_vars => IInv'
  BY StepKeeps
<1> QED
  BY <1>1, <1>2, Promises, PTL DEF Spec

-----------------------------------------------------------------------------
(* Types.                                                                  *)

\* A run in the background is one that was late.
BackgroundIsLate == \A r \in Requests : run[r].bg => run[r].late

\* What the types say of the rest.
RestTyped ==
    /\ file \in Files
    /\ row \in {"PENDING", "PROCESSING", "PREVIEW_READY", "FINALIZED", "FAILED", "EXPIRED"}
    /\ clock \in {"young", "stale", "old"}
    /\ updates \subseteq {"processing", "preview_pending", "error"}
    /\ blobStatus \in {"none", "processing", "preview_pending", "error"}
    /\ deaths \in 0..MaxDeaths

TypeInv == IInv /\ BackgroundIsLate /\ RestTyped

LEMMA TypesInit == ASSUME MaxDeaths \in Nat, Init PROVE TypeInv
<1>1. BackgroundIsLate
  BY DEF Init, BackgroundIsLate
<1>2. RestTyped
  <2>1. deaths = 0 /\ 0 \in 0..MaxDeaths
    BY DEF Init
  <2> QED
    BY <2>1, Zenon DEF Init, RestTyped
<1> QED
  BY <1>1, <1>2, InitHolds DEF TypeInv

\* A step of one run either leaves it in the background or not, and late or
\* not, or makes it late, or sends it, being late, to the background.
LEMMA StepBackground ==
    ASSUME Typed, BackgroundIsLate, NEW r \in Requests, Step(r) PROVE BackgroundIsLate'
<1>1. PICK F : run \in [Requests -> RunWith(F)]
  BY DEF Typed
<1>2. ASSUME NEW s, NEW a, run' = [run EXCEPT ![r] = [run[r] EXCEPT !.at = s, !.told = a]]
      PROVE  BackgroundIsLate'
  BY <1>1, <1>2 DEF BackgroundIsLate, RunWith
<1>3. ASSUME NEW s, NEW g, run' = [run EXCEPT ![r] = [run[r] EXCEPT !.at = s, !.flags = g]]
      PROVE  BackgroundIsLate'
  BY <1>1, <1>3 DEF BackgroundIsLate, RunWith
<1>4. ASSUME NEW s, Goto(r, s) PROVE BackgroundIsLate'
  <2>1. run' = [run EXCEPT ![r] = [run[r] EXCEPT !.at = s]]
    BY <1>1, <1>4 DEF Goto
  <2> QED
    BY <1>1, <2>1 DEF BackgroundIsLate, RunWith
<1>5. ASSUME NEW s, NEW a, Say(r, s, a) PROVE BackgroundIsLate'
  <2>1. \E b : run' = [run EXCEPT ![r] = [run[r] EXCEPT !.at = s, !.told = b]]
    BY <1>1, <1>5 DEF Say
  <2> QED
    BY <1>2, <2>1
<1>6. ASSUME NEW s, NEW g, run' = [run EXCEPT ![r].at = s, ![r].flags = g]
      PROVE  BackgroundIsLate'
  <2>1. run' = [run EXCEPT ![r] = [run[r] EXCEPT !.at = s, !.flags = g]]
    BY <1>1, <1>6
  <2> QED
    BY <1>3, <2>1
<1>7. CASE Select(r) \/ SelectFails(r) \/ Claim(r)
  BY <1>4, <1>5, <1>7 DEF Select, SelectFails, Claim
<1>8. CASE ClaimRaises(r)
  <2>1. run' = [run EXCEPT ![r] = [run[r] EXCEPT !.at = "fetch", !.unclaimed = TRUE]]
    BY <1>1, <1>8 DEF ClaimRaises
  <2> QED
    BY <1>1, <2>1 DEF BackgroundIsLate, RunWith
<1>9. CASE Slow(r)
  <2>1. run' = [run EXCEPT ![r] = [run[r] EXCEPT !.late = TRUE]]
    BY <1>1, <1>9 DEF Slow
  <2> QED
    BY <1>1, <2>1 DEF BackgroundIsLate, RunWith
<1>10. CASE TimesOut(r)
  <2>1. CASE Goto(r, "timedout")
    BY <1>4, <2>1
  <2>2. CASE run' = [run EXCEPT ![r].at = "fetch", ![r].bg = TRUE, ![r].told = "later"]
    <3>1. run' = [run EXCEPT ![r] = [run[r] EXCEPT !.at = "fetch", !.bg = TRUE, !.told = "later"]]
      BY <1>1, <2>2
    <3>2. run[r].late
      BY <1>10 DEF TimesOut
    <3> QED
      BY <1>1, <3>1, <3>2 DEF BackgroundIsLate, RunWith
  <2> QED
    BY <1>10, <2>1, <2>2 DEF TimesOut
<1>11. CASE Fetch(r) \/ Dedup(r) \/ FinishAtOnce(r) \/ Generate(r) \/ Publish(r) \/ Raise(r)
            \/ Fail(r) \/ FailLate(r)
  BY <1>4, <1>5, <1>11 DEF Fetch, Dedup, FinishAtOnce, Generate, Publish, Raise, Fail, FailLate
<1>12. CASE Parse(r) \/ Transform(r) \/ Enrich(r) \/ Resolve(r)
  BY <1>6, <1>12 DEF Parse, Transform, Enrich, Resolve
<1> QED
  BY <1>7, <1>8, <1>9, <1>10, <1>11, <1>12 DEF Step

LEMMA StepRest == ASSUME RestTyped, NEW r \in Requests, Step(r) PROVE RestTyped'
<1>1. UNCHANGED <<file, clock, blobStatus, deaths>>
  BY DEF Step, Select, SelectFails, Claim, ClaimRaises, Slow, TimesOut, Fetch, Parse, Dedup,
         Transform, Enrich, Resolve, FinishAtOnce, Generate, Publish, Raise, Fail, FailLate
<1>2. row' \in {row, "PROCESSING", "FINALIZED", "PREVIEW_READY", "FAILED"}
  BY DEF Step, Select, SelectFails, Claim, ClaimRaises, Slow, TimesOut, Fetch, Parse, Dedup,
         Transform, Enrich, Resolve, FinishAtOnce, Generate, Publish, Raise, Fail, FailLate, Written
<1>3. updates' \subseteq updates \cup {"processing", "preview_pending", "error"}
  BY DEF Step, Select, SelectFails, Claim, ClaimRaises, Slow, TimesOut, Fetch, Parse, Dedup,
         Transform, Enrich, Resolve, FinishAtOnce, Generate, Publish, Raise, Fail, FailLate, Tell
<1> QED
  BY <1>1, <1>2, <1>3 DEF RestTyped

LEMMA TypesStep == ASSUME MaxDeaths \in Nat PROVE TypeInv /\ [Next]_vars => TypeInv'
<1> SUFFICES ASSUME TypeInv, [Next]_vars PROVE BackgroundIsLate' /\ RestTyped'
  BY StepKeeps DEF TypeInv
<1> USE DEF TypeInv
<1>1. ASSUME NEW r \in Requests, Step(r) PROVE BackgroundIsLate' /\ RestTyped'
  BY <1>1, StepBackground, StepRest DEF IInv
<1>2. CASE TellHeartBeat \/ Wait \/ FailStale \/ Expire
  <2>1. BackgroundIsLate'
    BY <1>2 DEF TellHeartBeat, Wait, FailStale, Expire, BackgroundIsLate
  <2>2. RestTyped'
    BY <1>2 DEF TellHeartBeat, Wait, FailStale, Expire, RestTyped
  <2> QED
    BY <2>1, <2>2
<1>3. CASE Die
  <2>1. PICK F : run \in [Requests -> RunWith(F)]
    BY DEF IInv, Typed
  <2>2. \A r \in Requests : run'[r] = IF r \in Running THEN [run[r] EXCEPT !.at = "lost"] ELSE run[r]
    BY <1>3, Zenon DEF Die
  <2>3. BackgroundIsLate'
    BY <2>1, <2>2 DEF BackgroundIsLate, RunWith
  <2>4. RestTyped'
    BY <1>3 DEF Die, RestTyped
  <2> QED
    BY <2>3, <2>4
<1>4. CASE UNCHANGED vars
  BY <1>4 DEF vars, BackgroundIsLate, RestTyped
<1> QED
  BY <1>1, <1>2, <1>3, <1>4 DEF Next

LEMMA TypesFollow == ASSUME TypeInv PROVE TypeOK
<1>1. PICK F : run \in [Requests -> RunWith(F)]
  BY DEF TypeInv, IInv, Typed
<1>2. \A r \in Requests :
          /\ run[r].at \in Working \cup {"new", "claim", "over", "timedout", "lost"}
          /\ run[r].told \in {"none", "refused", "later", "skipped", "finalized", "preview_ready", "failed"}
  BY <1>1 DEF RunWith, Steps, Answers
<1>3. ASSUME NEW p \in previews PROVE p.by \in Requests /\ DOMAIN p.sheets = Sheets
  <2>1. p.by \in Requests /\ p.sheets = Branch(Invoices(file), run[p.by].flags)
    BY DEF TypeInv, IInv, Named
  <2> QED
    BY <2>1, Zenon DEF Branch
<1> QED
  BY <1>2, <1>3, Zenon DEF TypeInv, BackgroundIsLate, RestTyped, TypeOK

\* Every status, answer and flag is one that the code knows, and only late
\* runs are in the background (PipelineOrchestrator).
THEOREM PreviewTypes == ASSUME MaxDeaths \in Nat PROVE Spec => []TypeOK
<1>1. Init => TypeInv
  BY TypesInit
<1>2. TypeInv /\ [Next]_vars => TypeInv'
  BY TypesStep
<1> QED
  BY <1>1, <1>2, TypesFollow, PTL DEF Spec
=============================================================================
