------------------------------ MODULE Reports -------------------------------
(***************************************************************************)
(* Reports: a request makes a row of core.reports and a task that nobody   *)
(* waits for, which queries, renders, uploads, marks the row and announces *)
(* it; downloads, the six-hourly cleanup, and the notifications of those   *)
(* who asked, with their marks of having been read.                        *)
(***************************************************************************)
EXTENDS Naturals, FiniteSets

CONSTANTS
    Asked,         \* requests for a report
    Types,
    Answered,      \* the types whose queries the schema of the database answers
    Downloads,     \* calls of GET /reports/{id}/download
    Marks,         \* calls of POST /notifications/{id}/read by the recipient
    MaxCrashes     \* bound on deaths of the Core process

VARIABLES
    type,          \* per request
    row,           \* status of its row, "none" or "deleted" without
    task,
    files,         \* the reports HeartBeat stores a file of
    notified,      \* the reports a notification has been stored of
    events,        \* the events published: <<report, kind>>
    old,           \* the reports past expires_at, seven days from the request
    download,      \* per call: [at, answer]
    mark,          \* per call: [at, of, answer]
    reads,         \* per report: rows of notification_reads
    crashes

vars == <<type, row, task, files, notified, events, old, download, mark, reads, crashes>>

Running == {r \in Asked : task[r] \notin {"new", "over", "lost"}}

TypeOK ==
    /\ type \in [Asked -> Types]
    /\ \A r \in Asked :
          /\ row[r] \in {"none", "generating", "ready", "failed", "deleted"}
          /\ task[r] \in {"new", "generate", "upload", "mark", "notify", "publish", "rescue",
                          "publish_failed", "over", "lost"}
          /\ reads[r] \in 0..Cardinality(Marks)
    /\ files \subseteq Asked /\ notified \subseteq Asked /\ old \subseteq Asked
    /\ events \subseteq (Asked \X {"ready", "failed"})
    /\ \A d \in Downloads : download[d].answer \in {"none", "not_found", "not_ready", "error"}
    /\ \A m \in Marks : mark[m].answer \in {"none", "read", "failed"}
    /\ crashes \in 0..MaxCrashes

Init ==
    /\ type \in [Asked -> Types]
    /\ row = [r \in Asked |-> "none"] /\ task = [r \in Asked |-> "new"]
    /\ files = {} /\ notified = {} /\ events = {} /\ old = {}
    /\ download = [d \in Downloads |-> [at |-> "new", answer |-> "none"]]
    /\ mark = [m \in Marks |-> [at |-> "new", of |-> "", answer |-> "none"]]
    /\ reads = [r \in Asked |-> 0]
    /\ crashes = 0

Goto(r, step) == task' = [task EXCEPT ![r] = step]

-----------------------------------------------------------------------------
(* The request and its task.                                               *)

\* The row is committed before the task is made; an error ends the request.
Ask(r) ==
    /\ task[r] = "new"
    /\ \/ row' = [row EXCEPT ![r] = "generating"] /\ Goto(r, "generate")
       \/ Goto(r, "over") /\ UNCHANGED row
    /\ UNCHANGED <<type, files, notified, events, old, download, mark, reads, crashes>>

\* The queries and the rendering; what is raised ends up in the rescue.
Generate(r) ==
    /\ task[r] = "generate"
    /\ \/ type[r] \in Answered /\ Goto(r, "upload")
       \/ Goto(r, "rescue")
    /\ UNCHANGED <<type, row, files, notified, events, old, download, mark, reads, crashes>>

\* Seeded fault for Upload: the upload is started and not awaited.
UploadUnawaited(r) ==
    /\ task[r] = "upload"
    /\ files' \in {files, files \cup {r}} /\ Goto(r, "mark")
    /\ UNCHANGED <<type, row, notified, events, old, download, mark, reads, crashes>>

\* Three attempts; one that failed may have stored the file all the same.
Upload(r) ==
    /\ task[r] = "upload"
    /\ \/ files' = files \cup {r} /\ Goto(r, "mark")
       \/ files' \in {files, files \cup {r}} /\ Goto(r, "rescue")
    /\ UNCHANGED <<type, row, notified, events, old, download, mark, reads, crashes>>

\* update_status, whatever the row says; no row is not noticed.
Marked(r, status) == row' = [row EXCEPT ![r] = IF @ = "deleted" THEN @ ELSE status]

\* An UPDATE that raised may have been committed all the same.
Ready(r) ==
    /\ task[r] = "mark"
    /\ \/ Marked(r, "ready") /\ Goto(r, "notify")
       \/ (Marked(r, "ready") \/ UNCHANGED row) /\ Goto(r, "rescue")
    /\ UNCHANGED <<type, files, notified, events, old, download, mark, reads, crashes>>

\* send swallows its errors.
Notify(r) ==
    /\ task[r] = "notify"
    /\ notified' \in {notified, notified \cup {r}}
    /\ Goto(r, "publish")
    /\ UNCHANGED <<type, row, files, events, old, download, mark, reads, crashes>>

\* Events of reports have no company and skip the ledger, so that publish
\* has nothing to fail at; the audit log swallows its errors.
Publish(r) ==
    /\ task[r] = "publish"
    /\ events' = events \cup {<<r, "ready">>}
    /\ Goto(r, "over")
    /\ UNCHANGED <<type, row, files, notified, old, download, mark, reads, crashes>>

\* The row is marked failed, or that fails too and it stays as it was.
Rescue(r) ==
    /\ task[r] = "rescue"
    /\ Marked(r, "failed") \/ UNCHANGED row
    /\ Goto(r, "publish_failed")
    /\ UNCHANGED <<type, files, notified, events, old, download, mark, reads, crashes>>

PublishFailed(r) ==
    /\ task[r] = "publish_failed"
    /\ events' = events \cup {<<r, "failed">>}
    /\ Goto(r, "over")
    /\ UNCHANGED <<type, row, files, notified, old, download, mark, reads, crashes>>

-----------------------------------------------------------------------------
(* Those who wait for it.                                                  *)

\* The status decides, and not expires_at; no row ever says "expired".
OpenDownload(d, r) ==
    /\ download[d].at = "new"
    /\ download' = [download EXCEPT ![d] =
          CASE row[r] \in {"none", "deleted"}      -> [at |-> "over", answer |-> "not_found"]
            [] row[r] \in {"generating", "failed"} -> [at |-> "over", answer |-> "not_ready"]
            [] row[r] = "ready"                    -> [at |-> "fetch", answer |-> "none"]]
    /\ UNCHANGED <<type, row, task, files, notified, events, old, mark, reads, crashes>>

\* The file is fetched, and its content asked for by a name that BlobResponse
\* does not have.
EndDownload(d) ==
    /\ download[d].at = "fetch"
    /\ download' = [download EXCEPT ![d] = [at |-> "over", answer |-> "error"]]
    /\ UNCHANGED <<type, row, task, files, notified, events, old, mark, reads, crashes>>

\* Looking for a mark and making one are statements of one transaction, with
\* no constraint between those of two.
LookForMark(m, r) ==
    /\ mark[m].at = "new" /\ r \in notified
    /\ mark' = [mark EXCEPT ![m] = IF reads[r] > 0 THEN [at |-> "over", of |-> r, answer |-> "read"]
                                   ELSE [at |-> "insert", of |-> r, answer |-> "none"]]
    /\ UNCHANGED <<type, row, task, files, notified, events, old, download, reads, crashes>>

MakeMark(m) ==
    /\ mark[m].at = "insert"
    /\ \/ /\ reads' = [reads EXCEPT ![mark[m].of] = @ + 1]
          /\ mark' = [mark EXCEPT ![m].at = "over", ![m].answer = "read"]
       \/ /\ mark' = [mark EXCEPT ![m].at = "over", ![m].answer = "failed"]
          /\ UNCHANGED reads
    /\ UNCHANGED <<type, row, task, files, notified, events, old, download, crashes>>

-----------------------------------------------------------------------------
(* Time, the job, and the process.                                         *)

\* No task takes seven days.
Expire(r) ==
    /\ task[r] \in {"over", "lost"} /\ r \notin old
    /\ old' = old \cup {r}
    /\ UNCHANGED <<type, row, task, files, notified, events, download, mark, reads, crashes>>

\* cleanup_expired: the file stays in HeartBeat.
Cleanup ==
    /\ \E r \in old : row[r] \notin {"none", "deleted"}
    /\ row' = [r \in Asked |-> IF r \in old /\ row[r] # "none" THEN "deleted" ELSE row[r]]
    /\ UNCHANGED <<type, task, files, notified, events, old, download, mark, reads, crashes>>

\* Nothing takes the task up again: the row stays as it is.
Crash ==
    /\ crashes < MaxCrashes /\ Running # {}
    /\ crashes' = crashes + 1
    /\ task' = [r \in Asked |-> IF r \in Running THEN "lost" ELSE task[r]]
    /\ UNCHANGED <<type, row, files, notified, events, old, download, mark, reads>>

Task(r) ==
    \/ Ask(r) \/ Generate(r) \/ Upload(r) \/ Ready(r) \/ Notify(r) \/ Publish(r)
    \/ Rescue(r) \/ PublishFailed(r) \/ Expire(r)

Next ==
    \/ Cleanup \/ Crash
    \/ \E r \in Asked : Task(r)
    \/ \E d \in Downloads : EndDownload(d) \/ \E r \in Asked : OpenDownload(d, r)
    \/ \E m \in Marks : MakeMark(m) \/ \E r \in Asked : LookForMark(m, r)

Spec == Init /\ [][Next]_vars

-----------------------------------------------------------------------------
(***************************************************************************)
(* Properties.                                                             *)
(***************************************************************************)

\* An announcement never contradicts another or the store: a report that
\* somebody was told is ready has its file stored and its row ready until
\* the cleanup after its time, whatever fails or dies afterwards, and is not
\* told to have failed; no row says ready without a file; and a notification
\* that was answered to be read stays read.  A report told to have failed
\* may be ready, when both UPDATEs of its row raised and the first was
\* committed; that a ready one "is available for download" holds of no
\* report, EndDownload being what it is.
AnnouncementsStand ==
    /\ \A r \in Asked :
          LET toldReady == r \in notified \/ <<r, "ready">> \in events
          IN  /\ toldReady => \/ row[r] = "ready"
                              \/ row[r] = "deleted" /\ r \in old
              /\ toldReady => <<r, "failed">> \notin events
              /\ row[r] = "ready" \/ toldReady => r \in files
    /\ \A m \in Marks : mark[m].answer = "read" => reads[mark[m].of] > 0
=============================================================================
