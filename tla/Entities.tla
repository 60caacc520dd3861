------------------------------ MODULE Entities ------------------------------
(***************************************************************************)
(* The entity API of Core over one invoice, customer or product: PUT and   *)
(* DELETE /api/v1/entity, recovery of what was deleted, the edit history   *)
(* and the hourly job that purges (api/entities.py, data/, jobs/).         *)
(*                                                                         *)
(* A request reads the record, and later writes it under the row lock of   *)
(* its transaction: PostgreSQL's READ COMMITTED, so a record read may have *)
(* changed when it is written.  Time is in hours.                          *)
(***************************************************************************)
EXTENDS Naturals, Sequences, FiniteSets

CONSTANTS
    Requests,
    Fields,        \* editable fields
    Values,
    Bodies,        \* what a client may submit: some fields with their values
    Window,        \* RECOVERY_WINDOW_HOURS of the API
    MaxHour,       \* bound on time
    NotDeleted     \* deleted_at of a live record

VARIABLES
    record,        \* [state, deletedAt, fields]; state "purged" when it is gone
    history,       \* the edit history: [field, old, new, by]
    request,       \* per request: [at, kind, edit, read, answer, until]
    lock,          \* who holds the row, NoRequest if nobody does
    published,     \* events handed to the stream: [by, kind]
    hour

vars == <<record, history, request, lock, published, hour>>

NoRequest == "none"

\* What the proofs assume of the constants: what is submitted has values, the
\* window is open for some time, and the absence of a request or of a time
\* is not mistaken for one.
LegalConstants ==
    /\ NoRequest \notin Requests
    /\ IsFiniteSet(Fields)
    /\ \A e \in Bodies : \A x \in DOMAIN e : e[x] \in Values
    /\ Window \in Nat \ {0}
    /\ NotDeleted \notin Nat
    /\ MaxHour \in Nat

Fresh == [at |-> "new", kind |-> "none", edit |-> <<>>, read |-> <<>>, answer |-> "none", until |-> 0]

Records == [state : {"live", "deleted", "purged"}, deletedAt : {NotDeleted} \cup 0..MaxHour,
            fields : [Fields -> Values]]

TypeOK ==
    /\ record \in Records
    /\ record.state = "live" <=> record.deletedAt = NotDeleted
    /\ \A r \in Requests :
          /\ request[r].at \in {"new", "read", "write", "publish", "over"}
          /\ request[r].answer \in {"none", "updated", "unchanged", "deleted", "recovered",
                                    "not_found", "refused", "error"}
          /\ request[r].until \in 0..(MaxHour + Window)
    /\ lock \in Requests \cup {NoRequest}
    /\ \A i \in 1..Len(history) : history[i].field \in Fields /\ history[i].by \in Requests
    /\ hour \in 0..MaxHour

Init ==
    /\ record \in [state : {"live"}, deletedAt : {NotDeleted}, fields : [Fields -> Values]]
    /\ history = <<>>
    /\ request = [r \in Requests |-> Fresh]
    /\ lock = NoRequest /\ published = {} /\ hour = 0

Goto(r, step) == request' = [request EXCEPT ![r].at = step]
Answer(r, a)  == request' = [request EXCEPT ![r].at = "over", ![r].answer = a]
Unlocked      == lock = NoRequest

-----------------------------------------------------------------------------
(* All requests.                                                           *)

\* The type is known and the user may do it.
Arrive(r) ==
    /\ request[r].at = "new"
    /\ \/ \E e \in Bodies : request' = [request EXCEPT ![r].at = "read", ![r].kind = "update", ![r].edit = e]
       \/ \E k \in {"delete", "recover"} : request' = [request EXCEPT ![r].at = "read", ![r].kind = k]
    /\ UNCHANGED <<record, history, lock, published, hour>>

\* What update_entity, delete_entity and _handle_recovery refuse: a record
\* that is gone, already deleted, not deleted, or deleted too long ago.
Refusal(r) ==
    CASE record.state = "purged"                                      -> "not_found"
      [] request[r].kind = "delete" /\ record.state = "deleted"       -> "refused"
      [] request[r].kind = "recover" /\ record.state = "live"         -> "refused"
      [] request[r].kind = "recover" /\ record.state = "deleted"
            /\ hour > record.deletedAt + Window                       -> "refused"
      [] OTHER                                                        -> "none"

\* Every field of it is in the list of the entity type.
Editable(edit) == DOMAIN edit \subseteq Fields

\* A field that is not editable, or a value that is not allowed, is refused
\* after the record has been read.
Read(r) ==
    /\ request[r].at = "read"
    /\ \/ /\ Refusal(r) = "none" /\ (request[r].kind = "update" => Editable(request[r].edit))
          /\ request' = [request EXCEPT ![r].at = "write", ![r].read = record.fields]
       \/ Refusal(r) # "none" /\ Answer(r, Refusal(r))
       \/ request[r].kind = "update" /\ Answer(r, "refused")
    /\ UNCHANGED <<record, history, lock, published, hour>>

-----------------------------------------------------------------------------
(* update_entity.                                                          *)

\* The fields that differ from the record as it was read.
Changed(r) == {x \in DOMAIN request[r].edit : request[r].edit[x] # request[r].read[x]}

\* Nothing to write: the record as read is the answer.
Unchanged(r) ==
    /\ request[r].at = "write" /\ request[r].kind = "update" /\ Changed(r) = {}
    /\ Answer(r, "unchanged")
    /\ UNCHANGED <<record, history, lock, published, hour>>

\* write_field_changes in some order of the fields.
Entries(r) ==
    {[field |-> x, old |-> request[r].read[x], new |-> request[r].edit[x], by |-> r] : x \in Changed(r)}

Listed(S) == {s \in [1..Cardinality(S) -> S] : \A i, j \in DOMAIN s : s[i] = s[j] => i = j}

\* update_fields writes every field submitted, changed or not.
Edited(r) == [x \in Fields |-> IF x \in DOMAIN request[r].edit THEN request[r].edit[x] ELSE record.fields[x]]

\* The history entries, then the row, which is locked until the commit; the
\* event is published in between.
LockForUpdate(r) ==
    /\ request[r].at = "write" /\ request[r].kind = "update" /\ Changed(r) # {}
    /\ record.state # "purged" /\ Unlocked
    /\ lock' = r
    /\ published' = published \cup {[by |-> r, kind |-> "updated"]}
    /\ Goto(r, "publish")
    /\ UNCHANGED <<record, history, hour>>

\* Seeded fault for CommitUpdate: one entry per request.
CommitUpdateOneEntry(r) ==
    /\ lock = r /\ request[r].kind = "update"
    /\ record' = [record EXCEPT !.fields = Edited(r)]
    /\ \E e \in Entries(r) : history' = Append(history, e)
    /\ lock' = NoRequest
    /\ Answer(r, "updated")
    /\ UNCHANGED <<published, hour>>

\* The transaction ends: entries and row become visible together.
CommitUpdate(r) ==
    /\ lock = r /\ request[r].kind = "update"
    /\ record' = [record EXCEPT !.fields = Edited(r)]
    /\ \E s \in Listed(Entries(r)) : history' = history \o s
    /\ lock' = NoRequest
    /\ Answer(r, "updated")
    /\ UNCHANGED <<published, hour>>

\* Publishing, or the commit, fails: the transaction is rolled back, and the
\* event may be out already.
Abort(r) ==
    /\ lock = r
    /\ lock' = NoRequest
    /\ Answer(r, "error")
    /\ UNCHANGED <<record, history, published, hour>>

\* The history refers to a record that has been purged.
WriteGone(r) ==
    /\ request[r].at = "write" /\ record.state = "purged" /\ Unlocked
    /\ CASE request[r].kind = "update"  -> Changed(r) # {} /\ Answer(r, "error") /\ UNCHANGED published
         [] request[r].kind = "delete"  -> Answer(r, "not_found") /\ UNCHANGED published
         \* the UPDATE of no row is not noticed
         [] request[r].kind = "recover" -> /\ Answer(r, "recovered")
                                           /\ published' = published \cup {[by |-> r, kind |-> "updated"]}
    /\ UNCHANGED <<record, history, lock, hour>>

-----------------------------------------------------------------------------
(* Deletion and recovery.                                                  *)

\* WHERE deleted_at IS NULL: somebody else may have been faster.
Delete(r) ==
    /\ request[r].at = "write" /\ request[r].kind = "delete" /\ Unlocked
    /\ record.state # "purged"
    /\ IF record.state = "live"
       THEN /\ record' = [record EXCEPT !.state = "deleted", !.deletedAt = hour]
            /\ request' = [request EXCEPT ![r].at = "publish", ![r].until = hour + Window]
       ELSE Answer(r, "not_found") /\ UNCHANGED record
    /\ UNCHANGED <<history, lock, published, hour>>

\* After the commit; the answer has the time until which it can be undone.
AnswerDelete(r) ==
    /\ request[r].at = "publish" /\ request[r].kind = "delete"
    /\ published' = published \cup {[by |-> r, kind |-> "deleted"]}
    /\ Answer(r, "deleted")
    /\ UNCHANGED <<record, history, lock, hour>>

\* The UPDATE of repo.recover asks nothing of the row.
LockForRecovery(r) ==
    /\ request[r].at = "write" /\ request[r].kind = "recover" /\ Unlocked
    /\ record.state # "purged"
    /\ lock' = r
    /\ published' = published \cup {[by |-> r, kind |-> "updated"]}
    /\ Goto(r, "publish")
    /\ UNCHANGED <<record, history, hour>>

\* Seeded fault for CommitRecovery: the time of the deletion stays.
CommitRecoveryKeepsTime(r) ==
    /\ lock = r /\ request[r].kind = "recover"
    /\ record' = [record EXCEPT !.state = "live"]
    /\ lock' = NoRequest
    /\ Answer(r, "recovered")
    /\ UNCHANGED <<history, published, hour>>

CommitRecovery(r) ==
    /\ lock = r /\ request[r].kind = "recover"
    /\ record' = [record EXCEPT !.state = "live", !.deletedAt = NotDeleted]
    /\ lock' = NoRequest
    /\ Answer(r, "recovered")
    /\ UNCHANGED <<history, published, hour>>

-----------------------------------------------------------------------------
(* The job and the clock.                                                  *)

\* Seeded fault for Expired: the hour of the deletion itself counts.
ExpiredEarly == record.state = "deleted" /\ record.deletedAt + Window <= hour + 1

\* deleted_at < NOW() - INTERVAL '24 hours'
Expired == record.state = "deleted" /\ record.deletedAt + Window < hour

\* cleanup_expired_soft_deletes; history and children go with the record.
Purge ==
    /\ Unlocked /\ Expired
    /\ record' = [record EXCEPT !.state = "purged"]
    /\ history' = <<>>
    /\ UNCHANGED <<request, lock, published, hour>>

Tick ==
    /\ hour < MaxHour
    /\ hour' = hour + 1
    /\ UNCHANGED <<record, history, request, lock, published>>

Step(r) ==
    \/ Arrive(r) \/ Read(r)
    \/ Unchanged(r) \/ LockForUpdate(r) \/ CommitUpdate(r) \/ Abort(r) \/ WriteGone(r)
    \/ Delete(r) \/ AnswerDelete(r) \/ LockForRecovery(r) \/ CommitRecovery(r)

Next == Purge \/ Tick \/ \E r \in Requests : Step(r)

Spec == Init /\ [][Next]_vars

-----------------------------------------------------------------------------
(***************************************************************************)
(* Properties.                                                             *)
(***************************************************************************)

Added == {history'[i] : i \in (Len(history) + 1)..Len(history')}

\* The values that a history names for a field.
Named(h, x) == UNION {{h[i].old, h[i].new} : i \in {j \in 1..Len(h) : h[j].field = x}}

Traced ==
    /\ \A e \in Added : /\ lock = e.by /\ e.old = request[lock].read[e.field]
                        /\ record'.fields[e.field] = e.new
    /\ \A x \in Fields : record'.fields[x] # record.fields[x] =>
          /\ \/ \E e \in Added : e.field = x
             \/ lock \in Requests /\ record'.fields[x] = request[lock].read[x]
          /\ {record.fields[x], record'.fields[x]} \subseteq Named(history', x)

\* The trail loses no value, whoever edits what was read before somebody
\* else's edit: whatever a field is given or loses, its history names.  An
\* entry appears only in the step that gives its field its new value, with
\* the value that its writer had been shown; and a field that changes in a
\* step without an entry for it gets back the value that the writer had been
\* shown, as each field submitted is written, differing from that or not.
EditsLeaveTraces == [][Traced]_vars

\* customers.sql:231-233: "Full per-field edit audit trail. One row per field
\* change", "complete before/after visibility": the last entry of a field
\* says what it is now.  Putting back a value that was shown leaves none.
FullTrail ==
    record.state # "purged" =>
       \A i \in 1..Len(history) :
          \/ \E j \in (i + 1)..Len(history) : history[j].field = history[i].field
          \/ history[i].new = record.fields[history[i].field]

\* What a deletion was answered with holds: until the time given the record
\* is there, whatever is edited, recovered and deleted again meanwhile, and
\* a record nobody has deleted is never purged.
RecoveryPromiseKept ==
    record.state = "purged" =>
       /\ \E r \in Requests : request[r].until > 0
       /\ \A r \in Requests : request[r].until < hour
=============================================================================
