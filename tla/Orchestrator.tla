---------------------------- MODULE Orchestrator ----------------------------
(***************************************************************************)
(* POST /api/v1/process_preview and PipelineOrchestrator: one row of       *)
(* core_queue is claimed, its file goes through seven phases and becomes a *)
(* preview, in the request or, past the soft timeout, in the background;   *)
(* with the two jobs that repair rows (orchestrator/jobs.py).              *)
(*                                                                         *)
(* A step ends where the pipeline awaits something.  Writes of the status  *)
(* are unconditional and their errors are logged only.  The file is a      *)
(* record [rows, hlm, script, parsed, judged, known, immediate].           *)
(***************************************************************************)
EXTENDS Branching, FiniteSets

CONSTANTS
    Requests,      \* calls of process_preview for the row
    Files,         \* what the upload may hold
    MaxDeaths      \* bound on deaths of the Core process

VARIABLES
    file,
    row,           \* status of the row
    clock,         \* "young", "stale": 15 minutes in work, "old": 7 days ready
    run,           \* per request: [at, bg, late, unclaimed, flags, told]
    previews,      \* what HeartBeat stores: [by, sheets]
    updates,       \* status updates to HeartBeat under way
    blobStatus,    \* the status HeartBeat has last been given
    deaths

vars == <<file, row, clock, run, previews, updates, blobStatus, deaths>>

\* The phases that look at the clock first.
Timed   == {"fetch", "parse", "transform", "enrich", "resolve", "branch"}
Working == Timed \cup {"dedup", "immediate", "publish", "fail"}
Running == {r \in Requests : run[r].at \in Working}

Then == [fetch |-> "parse", parse |-> "dedup", transform |-> "enrich", enrich |-> "resolve"]

TypeOK ==
    /\ file \in Files
    /\ row \in {"PENDING", "PROCESSING", "PREVIEW_READY", "FINALIZED", "FAILED", "EXPIRED"}
    /\ clock \in {"young", "stale", "old"}
    /\ \A r \in Requests :
          /\ run[r].at \in Working \cup {"new", "claim", "over", "timedout", "lost"}
          /\ run[r].told \in {"none", "refused", "later", "skipped", "finalized", "preview_ready", "failed"}
          /\ run[r].bg => run[r].late
    /\ \A p \in previews : p.by \in Requests /\ DOMAIN p.sheets = Sheets
    /\ updates \subseteq {"processing", "preview_pending", "error"}
    /\ blobStatus \in {"none", "processing", "preview_pending", "error"}
    /\ deaths \in 0..MaxDeaths

Init ==
    /\ file \in Files
    /\ row = "PENDING" /\ clock = "young"
    /\ run = [r \in Requests |-> [at |-> "new", bg |-> FALSE, late |-> FALSE, unclaimed |-> FALSE,
                                  flags |-> {}, told |-> "none"]]
    /\ previews = {} /\ updates = {} /\ blobStatus = "none" /\ deaths = 0

Goto(r, step)     == run' = [run EXCEPT ![r].at = step]
Say(r, step, a)   == run' = [run EXCEPT ![r].at = step, ![r].told = IF run[r].bg THEN @ ELSE a]
Tell(status)      == updates' = updates \cup {status}

-----------------------------------------------------------------------------
(* The route.                                                              *)

\* The row must be PENDING when it is read.
Select(r) ==
    /\ run[r].at = "new"
    /\ IF row = "PENDING" THEN Goto(r, "claim") ELSE Say(r, "over", "refused")
    /\ UNCHANGED <<file, row, clock, previews, updates, blobStatus, deaths>>

\* The row cannot be read.
SelectFails(r) ==
    /\ run[r].at = "new"
    /\ Say(r, "over", "refused")
    /\ UNCHANGED <<file, row, clock, previews, updates, blobStatus, deaths>>

\* Seeded fault for Free: the UPDATE names the row only.
FreeAnyway == row # "FINALIZED"

\* UPDATE ... WHERE status = 'PENDING' RETURNING queue_id
Free == row = "PENDING"

Claim(r) ==
    /\ run[r].at = "claim"
    /\ IF Free THEN row' = "PROCESSING" /\ Goto(r, "fetch")
       ELSE Say(r, "over", "refused") /\ UNCHANGED row
    /\ UNCHANGED <<file, clock, previews, updates, blobStatus, deaths>>

\* An error of the UPDATE is logged and the pipeline runs all the same.
ClaimRaises(r) ==
    /\ run[r].at = "claim"
    /\ run' = [run EXCEPT ![r].at = "fetch", ![r].unclaimed = TRUE]
    /\ UNCHANGED <<file, row, clock, previews, updates, blobStatus, deaths>>

-----------------------------------------------------------------------------
(* The phases.                                                             *)

\* The soft timeout passes.
Slow(r) ==
    /\ r \in Running /\ ~run[r].late
    /\ run' = [run EXCEPT ![r].late = TRUE]
    /\ UNCHANGED <<file, row, clock, previews, updates, blobStatus, deaths>>

InTime(r, phase) == run[r].at = phase /\ ~run[r].late

\* A request is answered 202 and its pipeline starts again from the first
\* phase, with the state, and so the start time, of the one that was late.
TimesOut(r) ==
    /\ run[r].at \in Timed /\ run[r].late
    /\ IF run[r].bg THEN Goto(r, "timedout")
       ELSE run' = [run EXCEPT ![r].at = "fetch", ![r].bg = TRUE, ![r].told = "later"]
    /\ UNCHANGED <<file, row, clock, previews, updates, blobStatus, deaths>>

\* fetch_blob, and the size of what came.
Fetch(r) ==
    /\ InTime(r, "fetch") /\ Goto(r, Then["fetch"])
    /\ Tell("processing")
    /\ UNCHANGED <<file, row, clock, previews, blobStatus, deaths>>

\* The limit on invoices compares a count that no parser sets.
Parse(r) ==
    /\ InTime(r, "parse")
    /\ run' = [run EXCEPT ![r].at = Then["parse"], ![r].flags = @ \cup Unplaced(file.parsed)]
    /\ Tell("processing")
    /\ UNCHANGED <<file, row, clock, previews, blobStatus, deaths>>

\* 'SKIPPED' is a status the table does not allow: the row stays as it is.
Dedup(r) ==
    /\ run[r].at = "dedup"
    /\ IF file.known THEN Say(r, "over", "skipped") /\ Tell("processing")
       ELSE Goto(r, "transform") /\ UNCHANGED updates
    /\ UNCHANGED <<file, row, clock, previews, blobStatus, deaths>>

Transform(r) ==
    /\ InTime(r, "transform")
    /\ run' = [run EXCEPT ![r].at = Then["transform"], ![r].flags = @ \cup Raised(file)]
    /\ Tell("processing")
    /\ UNCHANGED <<file, row, clock, previews, blobStatus, deaths>>

\* What enrichment or resolution cannot do degrades with a warning.
Degraded(r, kind) ==
    run[r].flags \cup {Flag(0, "warning", kind)}

Enrich(r) ==
    /\ InTime(r, "enrich")
    /\ \E g \in {run[r].flags, Degraded(r, "enrichment_failed")} :
          run' = [run EXCEPT ![r].at = Then["enrich"], ![r].flags = g]
    /\ Tell("processing")
    /\ UNCHANGED <<file, row, clock, previews, blobStatus, deaths>>

\* Then the gates, which let all pass, and the choice of the branch.
Resolve(r) ==
    /\ InTime(r, "resolve")
    /\ \E g \in {run[r].flags, Degraded(r, "resolution_failed")} :
          run' = [run EXCEPT ![r].at = IF file.immediate /\ Blocking(g) = {} THEN "immediate" ELSE "branch",
                             ![r].flags = g]
    /\ Tell("processing")
    /\ UNCHANGED <<file, row, clock, previews, blobStatus, deaths>>

\* _update_queue_status: unconditional, and an error of it is only logged.
Written(status) == row' \in {row, status}

FinishAtOnce(r) ==
    /\ run[r].at = "immediate"
    /\ Written("FINALIZED")
    /\ Say(r, "over", "finalized")
    /\ UNCHANGED <<file, clock, previews, updates, blobStatus, deaths>>

\* The bundle is packed, encrypted and uploaded.
Generate(r) ==
    /\ InTime(r, "branch")
    /\ previews' = previews \cup {[by |-> r, sheets |-> Branch(Invoices(file), run[r].flags)]}
    /\ Goto(r, "publish")
    /\ UNCHANGED <<file, row, clock, updates, blobStatus, deaths>>

Publish(r) ==
    /\ run[r].at = "publish"
    /\ Written("PREVIEW_READY")
    /\ Tell("preview_pending")
    /\ Say(r, "over", "preview_ready")
    /\ UNCHANGED <<file, clock, previews, blobStatus, deaths>>

\* A phase raises: too large, not to be parsed, no script, no upload.
Raise(r) ==
    /\ run[r].at \in {"fetch", "parse", "transform", "branch"} => ~run[r].late
    /\ run[r].at \in {"fetch", "parse", "dedup", "transform", "branch"}
    /\ Goto(r, "fail")
    /\ UNCHANGED <<file, row, clock, previews, updates, blobStatus, deaths>>

\* In the request HeartBeat is told as well; in the background it is not.
Fail(r) ==
    /\ run[r].at = "fail"
    /\ Written("FAILED")
    /\ IF run[r].bg THEN UNCHANGED updates ELSE updates' \in {updates, updates \cup {"error"}}
    /\ Say(r, "over", "failed")
    /\ UNCHANGED <<file, clock, previews, blobStatus, deaths>>

\* The handler of _continue_background takes the timeout for a failure.
FailLate(r) ==
    /\ run[r].at = "timedout"
    /\ Written("FAILED")
    /\ Goto(r, "over")
    /\ UNCHANGED <<file, clock, previews, updates, blobStatus, deaths>>

-----------------------------------------------------------------------------
(* Tasks nobody waits for, jobs, and the process.                          *)

\* update_blob_status, in any order; an error is swallowed.
TellHeartBeat ==
    \E u \in updates :
        /\ updates' = updates \ {u}
        /\ blobStatus' \in {u, blobStatus}
        /\ UNCHANGED <<file, row, clock, run, previews, deaths>>

Wait ==
    /\ clock' = CASE row = "PROCESSING" -> "stale" [] row = "PREVIEW_READY" -> "old" [] OTHER -> clock
    /\ clock' # clock
    /\ UNCHANGED <<file, row, run, previews, updates, blobStatus, deaths>>

\* stale_processing_detector, whether or not the pipeline still runs.
FailStale ==
    /\ row = "PROCESSING" /\ clock = "stale"
    /\ row' = "FAILED"
    /\ UNCHANGED <<file, clock, run, previews, updates, blobStatus, deaths>>

\* preview_cleanup
Expire ==
    /\ row = "PREVIEW_READY" /\ clock = "old"
    /\ row' = "EXPIRED"
    /\ UNCHANGED <<file, clock, run, previews, updates, blobStatus, deaths>>

Die ==
    /\ deaths < MaxDeaths /\ Running # {}
    /\ deaths' = deaths + 1
    /\ run' = [r \in Requests |-> IF r \in Running THEN [run[r] EXCEPT !.at = "lost"] ELSE run[r]]
    /\ updates' = {}
    /\ UNCHANGED <<file, row, clock, previews, blobStatus>>

Step(r) ==
    \/ Select(r) \/ SelectFails(r) \/ Claim(r) \/ ClaimRaises(r)
    \/ Slow(r) \/ TimesOut(r)
    \/ Fetch(r) \/ Parse(r) \/ Dedup(r) \/ Transform(r) \/ Enrich(r) \/ Resolve(r)
    \/ FinishAtOnce(r) \/ Generate(r) \/ Publish(r)
    \/ Raise(r) \/ Fail(r) \/ FailLate(r)

Next ==
    \/ TellHeartBeat \/ Wait \/ FailStale \/ Expire \/ Die
    \/ \E r \in Requests : Step(r)

Spec == Init /\ [][Next]_vars

-----------------------------------------------------------------------------
(***************************************************************************)
(* Properties.                                                             *)
(***************************************************************************)

\* A row, and an answer, that promise a preview have one stored by that
\* time; a row that was claimed soundly gets one preview at most, whoever
\* asks, times out, dies or repairs it; and on every preview an invoice that
\* a flag with its place calls wrong is among the failed ones.
PreviewBacked ==
    /\ row \in {"PREVIEW_READY", "EXPIRED"} => previews # {}
    /\ \A r \in Requests : run[r].told = "preview_ready" => \E p \in previews : p.by = r
    /\ (\A r \in Requests : ~run[r].unclaimed) => Cardinality(previews) <= 1
    /\ \A p \in previews : \A g \in Blocking(run[p.by].flags) :
          g.at \in 1..Len(Invoices(file)) => g.at \in p.sheets["failed"]
=============================================================================
