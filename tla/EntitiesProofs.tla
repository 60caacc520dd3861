--------------------------- MODULE EntitiesProofs ---------------------------
(***************************************************************************)
(* Proofs about Entities, for any number of requests, any bodies, and any  *)
(* window of recovery.                                                     *)
(***************************************************************************)
EXTENDS Entities, FiniteSetTheorems, SequenceTheorems, TLAPS

Versions == [Fields -> Values]

Row == [state : {"live", "deleted", "purged"}, deletedAt : Nat \cup {NotDeleted}, fields : Versions]

Answers == {"none", "updated", "unchanged", "deleted", "recovered",
            "not_found", "refused", "error"}

Req == [at : {"new", "read", "write", "publish", "over"},
        kind : {"none", "update", "delete", "recover"},
        edit : Bodies \cup {<<>>}, read : Versions \cup {<<>>},
        answer : Answers,
        until : Nat]

\* The types that the arguments below need.
Typed ==
    /\ record \in Row
    /\ request \in [Requests -> Req]
    /\ lock \in Requests \cup {NoRequest}
    /\ hour \in Nat
    /\ \E S : history \in Seq(S)

\* An edit that will be written has editable fields only; the row is held
\* by a request that is about to commit an edit or a recovery.
Editing ==
    /\ \A r \in Requests : request[r].kind = "none" <=> request[r].at = "new"
    /\ \A r \in Requests : request[r].at \in {"write", "publish"} /\ request[r].kind = "update" =>
          DOMAIN request[r].edit \subseteq Fields
    /\ \A r \in Requests : lock = r => request[r].at = "publish" /\ request[r].kind # "delete"

\* No promise reaches further than the window from the last deletion, which
\* is why nothing is purged before it is over.
Promised ==
    /\ \A r \in Requests : request[r].until <= hour + Window
    /\ record.state = "deleted" =>
          /\ record.deletedAt \in Nat /\ record.deletedAt <= hour
          /\ \E r \in Requests : request[r].until > 0
          /\ \A r \in Requests : request[r].until <= record.deletedAt + Window
    /\ RecoveryPromiseKept

IInv == Typed /\ Editing /\ Promised

LEMMA InitHolds == ASSUME LegalConstants PROVE Init => IInv
<1> SUFFICES ASSUME Init PROVE IInv
  OBVIOUS
<1>1. Fresh \in Req /\ Fresh.until = 0 /\ Fresh.at = "new" /\ Fresh.kind = "none"
  BY 0 \in Nat DEF Fresh, Req, Answers
<1>2. record \in Row /\ record.state = "live"
  BY DEF Init, Row, Versions
<1>3. history \in Seq(Fields) /\ hour \in Nat /\ lock = NoRequest
  BY DEF Init
<1>4. request \in [Requests -> Req] /\ \A r \in Requests : request[r] = Fresh
  BY <1>1 DEF Init
<1>5. Typed
  BY <1>2, <1>3, <1>4 DEF Typed
<1>6. Editing
  BY <1>1, <1>3, <1>4 DEF Editing, LegalConstants
<1>7. Promised
  BY <1>1, <1>2, <1>3, <1>4 DEF Promised, RecoveryPromiseKept, LegalConstants
<1> QED
  BY <1>5, <1>6, <1>7 DEF IInv

-----------------------------------------------------------------------------
(* The entries of an edit.                                                 *)

\* An edit has one entry per changed field, so finitely many.
LEMMA EntriesFinite ==
    ASSUME LegalConstants, IInv, NEW r \in Requests, lock = r, request[r].kind = "update"
    PROVE  IsFiniteSet(Entries(r))
<1> DEFINE f == [x \in Changed(r) |->
                   [field |-> x, old |-> request[r].read[x], new |-> request[r].edit[x], by |-> r]]
<1>1. Changed(r) \in SUBSET Fields
  BY DEF IInv, Editing, Changed
<1>2. IsFiniteSet(Changed(r))
  BY <1>1, FS_Subset DEF LegalConstants
<1>3. f \in Surjection(Changed(r), Entries(r))
  BY DEF Entries, Surjection
<1> QED
  BY <1>2, <1>3, FS_Surjection

\* An order of the members of a finite set holds each of them.
LEMMA ListedAll ==
    ASSUME NEW S, IsFiniteSet(S), NEW s \in Listed(S)
    PROVE  /\ s \in Seq(S)
           /\ \A e \in S : \E i \in 1..Len(s) : s[i] = e
<1> DEFINE n == Cardinality(S)
<1>1. n \in Nat /\ s \in [1..n -> S]
  BY FS_CardinalityType DEF Listed
<1>2. s \in Seq(S) /\ 1..Len(s) = 1..n
  <2> HIDE DEF n
  <2>1. s \in Seq(S)
    BY <1>1, SeqDef, Zenon
  <2>2. DOMAIN s = 1..n
    BY <1>1
  <2>3. DOMAIN s = 1..Len(s)
    BY <2>1, LenProperties
  <2> QED
    BY <2>1, <2>2, <2>3
<1>3. s \in Injection(1..n, S)
  <2>1. \A i, j \in DOMAIN s : s[i] = s[j] => i = j
    BY DEF Listed
  <2>2. \A i, j \in 1..n : s[i] = s[j] => i = j
    BY <1>1, <2>1
  <2> HIDE DEF n
  <2> QED
    BY <1>1, <2>2 DEF Injection, IsInjective
<1>4. Cardinality(1..n) = n
  BY <1>1, FS_Interval
<1>5. s \in Surjection(1..n, S)
  BY <1>3, <1>4, FS_Injection
<1> QED
  BY <1>2, <1>5 DEF Surjection

-----------------------------------------------------------------------------
(* The promise of a deletion.                                              *)

\* Steps that touch only their request: they leave its promise as it is.
LEMMA OwnStep ==
    ASSUME IInv, NEW r \in Requests, request' \in [Requests -> Req],
           \A q \in Requests : q # r => request'[q] = request[q],
           request'[r].until = request[r].until,
           request'[r].kind = "none" <=> request'[r].at = "new",
           request'[r].at \in {"write", "publish"} /\ request'[r].kind = "update" =>
              DOMAIN request'[r].edit \subseteq Fields,
           lock' = lock \/ lock' = NoRequest \/ lock' = r,
           lock' = r => request'[r].at = "publish" /\ request'[r].kind # "delete",
           NoRequest \notin Requests, UNCHANGED <<record, history, hour>>
    PROVE  IInv'
<1>1. Typed'
  BY DEF IInv, Typed
<1>2. Editing'
  BY DEF IInv, Editing
<1>3. \A q \in Requests : request'[q].until = request[q].until
  OBVIOUS
<1>4. Promised'
  BY <1>3 DEF IInv, Promised, RecoveryPromiseKept
<1> QED
  BY <1>1, <1>2, <1>4 DEF IInv

LEMMA AnswerKeeps ==
    ASSUME IInv, NEW r \in Requests, request[r].at # "new", NEW a \in Answers, Answer(r, a),
           lock' = NoRequest \/ (lock' = lock /\ lock # r),
           NoRequest \notin Requests, UNCHANGED <<record, history, hour>>
    PROVE  IInv'
<1>1. request \in [Requests -> Req] /\ request[r] \in Req
  BY DEF IInv, Typed
<1>2. request' = [request EXCEPT ![r] = [request[r] EXCEPT !.at = "over", !.answer = a]]
  BY <1>1 DEF Answer
<1>3. /\ request'[r] \in Req /\ request'[r].at = "over"
      /\ request'[r].kind = request[r].kind /\ request'[r].until = request[r].until
  BY <1>1, <1>2 DEF Req
<1>4. request' \in [Requests -> Req] /\ \A q \in Requests : q # r => request'[q] = request[q]
  BY <1>1, <1>2, <1>3
<1>5. request[r].kind # "none"
  BY DEF IInv, Editing
<1> QED
  BY <1>3, <1>4, <1>5, OwnStep

LEMMA AskingKeeps ==
    ASSUME LegalConstants, IInv, NEW r \in Requests, Arrive(r) \/ Read(r) \/ Unchanged(r)
    PROVE  IInv'
<1>0. Typed /\ Editing /\ request[r] \in Req /\ NoRequest \notin Requests
  BY DEF IInv, Typed, LegalConstants
<1>1. UNCHANGED <<record, history, hour, lock>>
  BY DEF Arrive, Read, Unchanged
<1>2. CASE Arrive(r)
  <2>1. request[r].at = "new" /\ lock # r
    BY <1>0, <1>2 DEF Arrive, Editing
  <2>2. PICK k \in {"update", "delete", "recover"}, e \in Bodies \cup {<<>>} :
          \/ request' = [request EXCEPT ![r].at = "read", ![r].kind = k, ![r].edit = e]
          \/ request' = [request EXCEPT ![r].at = "read", ![r].kind = k]
    BY <1>2 DEF Arrive
  <2>3. \A q \in Requests : q # r => request'[q] = request[q]
    BY <1>0, <2>2 DEF Typed
  <2>4. /\ request'[r].until = request[r].until /\ request'[r].at = "read" /\ request'[r].kind = k
        /\ request'[r] \in Req
    <3>1. \/ request'[r] = [request[r] EXCEPT !.at = "read", !.kind = k, !.edit = e]
          \/ request'[r] = [request[r] EXCEPT !.at = "read", !.kind = k]
      BY <1>0, <2>2 DEF Typed
    <3> QED
      BY <1>0, <3>1 DEF Req
  <2>5. request' \in [Requests -> Req]
    BY <1>0, <2>2, <2>4 DEF Typed
  <2> QED
    BY <1>0, <1>1, <2>1, <2>3, <2>4, <2>5, OwnStep
<1>3. CASE Read(r)
  <2>1. request[r].at = "read" /\ lock # r
    BY <1>0, <1>3 DEF Read, Editing
  <2>2. CASE /\ request[r].kind = "update" => Editable(request[r].edit)
             /\ request' = [request EXCEPT ![r].at = "write", ![r].read = record.fields]
    <3>1. record.fields \in Versions
      BY <1>0 DEF Typed, Row
    <3>2. \A q \in Requests : q # r => request'[q] = request[q]
      BY <1>0, <2>2 DEF Typed
    <3>3. /\ request'[r].until = request[r].until /\ request'[r].at = "write"
          /\ request'[r].kind = request[r].kind /\ request'[r].edit = request[r].edit
          /\ request'[r] \in Req
      BY <1>0, <2>2, <3>1 DEF Typed, Req
    <3>4. request' \in [Requests -> Req]
      BY <1>0, <2>2, <3>3 DEF Typed
    <3> QED
      BY <1>0, <1>1, <2>1, <2>2, <3>2, <3>3, <3>4, OwnStep DEF Editing, Editable
  <2>3. CASE \E a \in {"not_found", "refused"} : Answer(r, a)
    BY <1>0, <1>1, <2>1, <2>3, AnswerKeeps DEF Answers
  <2>4. Refusal(r) \in {"none", "not_found", "refused"}
    BY DEF Refusal
  <2> QED
    BY <1>3, <2>2, <2>3, <2>4 DEF Read
<1>4. CASE Unchanged(r)
  <2>1. request[r].at = "write" /\ lock # r /\ Answer(r, "unchanged")
    BY <1>0, <1>4 DEF Unchanged, Editing
  <2> QED
    BY <1>0, <1>1, <2>1, AnswerKeeps DEF Answers
<1> QED
  BY <1>2, <1>3, <1>4

\* Taking the row, giving it up, and answers that change nothing.
LEMMA HoldingKeeps ==
    ASSUME LegalConstants, IInv, NEW r \in Requests,
           \/ LockForUpdate(r) \/ LockForRecovery(r) \/ Abort(r) \/ WriteGone(r) \/ AnswerDelete(r)
    PROVE  IInv'
<1>0. Typed /\ Editing /\ request[r] \in Req /\ NoRequest \notin Requests
  BY DEF IInv, Typed, LegalConstants
<1>1. CASE LockForUpdate(r) \/ LockForRecovery(r)
  <2>1. /\ request[r].at = "write" /\ request[r].kind \in {"update", "recover"}
        /\ request' = [request EXCEPT ![r].at = "publish"]
        /\ lock' = r /\ UNCHANGED <<record, history, hour>>
    BY <1>1 DEF LockForUpdate, LockForRecovery, Goto
  <2>2. request'[r] = [request[r] EXCEPT !.at = "publish"]
    BY <1>0, <2>1 DEF Typed
  <2>3. /\ request'[r] \in Req /\ request'[r].at = "publish" /\ request'[r].kind = request[r].kind
        /\ request'[r].until = request[r].until /\ request'[r].edit = request[r].edit
    BY <1>0, <2>2 DEF Req
  <2>4. request' \in [Requests -> Req] /\ \A q \in Requests : q # r => request'[q] = request[q]
    BY <1>0, <2>1, <2>3 DEF Typed
  <2> QED
    BY <1>0, <2>1, <2>3, <2>4, OwnStep DEF Editing
<1>2. CASE Abort(r)
  <2>1. request[r].at = "publish"
    BY <1>0, <1>2 DEF Abort, Editing
  <2> QED
    BY <1>0, <1>2, <2>1, AnswerKeeps DEF Abort, Answers
<1>3. CASE WriteGone(r)
  <2>1. request[r].at = "write" /\ lock # r /\ UNCHANGED <<record, history, lock, hour>>
    BY <1>0, <1>3 DEF WriteGone, Editing
  <2>2. \E a \in {"error", "not_found", "recovered"} : Answer(r, a)
    <3>1. request[r].kind \in {"update", "delete", "recover"}
      BY <1>0, <2>1 DEF Req, Editing
    <3> QED
      BY <1>3, <3>1 DEF WriteGone
  <2> QED
    BY <1>0, <2>1, <2>2, AnswerKeeps DEF Answers
<1>4. CASE AnswerDelete(r)
  <2>1. /\ request[r].at = "publish" /\ lock # r /\ Answer(r, "deleted")
        /\ UNCHANGED <<record, history, lock, hour>>
    BY <1>0, <1>4 DEF AnswerDelete, Editing
  <2> QED
    BY <1>0, <2>1, AnswerKeeps DEF Answers
<1> QED
  BY <1>1, <1>2, <1>3, <1>4

\* Only a live record is deleted: the promise starts anew.
LEMMA DeleteKeeps == ASSUME LegalConstants, IInv, NEW r \in Requests, Delete(r) PROVE IInv'
<1>0. Typed /\ Editing /\ Promised /\ request[r] \in Req
  BY DEF IInv, Typed
<1>1. /\ request[r].at = "write" /\ request[r].kind = "delete" /\ lock = NoRequest
      /\ UNCHANGED <<history, lock, hour>> /\ record.state # "purged" /\ NoRequest \notin Requests
  BY DEF Delete, Unlocked, LegalConstants
<1>2. CASE record.state # "live"
  BY <1>0, <1>1, <1>2, AnswerKeeps DEF Delete, Answers
<1>3. CASE record.state = "live"
  <2> DEFINE u == hour + Window
  <2>1. u \in Nat /\ u > 0 /\ hour \in Nat
    BY <1>0 DEF Typed, LegalConstants
  <2>2. /\ record' = [record EXCEPT !.state = "deleted", !.deletedAt = hour]
        /\ request' = [request EXCEPT ![r].at = "publish", ![r].until = u]
    BY <1>3 DEF Delete
  <2>3. request'[r] = [request[r] EXCEPT !.at = "publish", !.until = u]
    BY <1>0, <2>2 DEF Typed
  <2> HIDE DEF u
  <2>4. /\ request'[r] \in Req /\ request'[r].at = "publish" /\ request'[r].kind = "delete"
        /\ request'[r].until = u
    BY <1>0, <1>1, <2>1, <2>3 DEF Req
  <2>5. request' \in [Requests -> Req] /\ \A q \in Requests : q # r => request'[q] = request[q]
    BY <1>0, <2>2, <2>4 DEF Typed
  <2>6. record' \in Row /\ record'.state = "deleted" /\ record'.deletedAt = hour
    BY <1>0, <2>1, <2>2 DEF Typed, Row
  <2>7. Typed'
    BY <1>0, <1>1, <2>5, <2>6 DEF Typed
  <2>8. Editing'
    BY <1>0, <1>1, <2>4, <2>5 DEF Editing
  <2>9. \A q \in Requests : request'[q].until <= u
    BY <1>0, <2>1, <2>4, <2>5 DEF Promised, Typed, Req, u
  <2>10. Promised'
    BY <1>1, <2>1, <2>4, <2>6, <2>9 DEF Promised, RecoveryPromiseKept, u
  <2> QED
    BY <2>7, <2>8, <2>10 DEF IInv
<1> QED
  BY <1>2, <1>3

\* A commit leaves the state of the row, or makes it live.
LEMMA CommitKeeps ==
    ASSUME LegalConstants, IInv, NEW r \in Requests, CommitUpdate(r) \/ CommitRecovery(r)
    PROVE  IInv'
<1>0. Typed /\ Editing /\ Promised /\ request[r] \in Req /\ NoRequest \notin Requests
  BY DEF IInv, Typed, LegalConstants
<1>1. /\ lock = r /\ lock' = NoRequest /\ request[r].at = "publish" /\ hour' = hour
      /\ \E a \in Answers : Answer(r, a)
  BY <1>0 DEF CommitUpdate, CommitRecovery, Editing, Answers
<1>2. PICK a \in Answers : request' = [request EXCEPT ![r].at = "over", ![r].answer = a]
  BY <1>1 DEF Answer
<1>3. request'[r] = [request[r] EXCEPT !.at = "over", !.answer = a]
  BY <1>0, <1>2 DEF Typed
<1>4. /\ request'[r] \in Req /\ request'[r].at = "over"
      /\ request'[r].kind = request[r].kind /\ request'[r].until = request[r].until
  BY <1>0, <1>3 DEF Req
<1>5. request' \in [Requests -> Req] /\ \A q \in Requests : q # r => request'[q] = request[q]
  BY <1>0, <1>2, <1>4 DEF Typed
<1>6. Editing'
  BY <1>0, <1>1, <1>4, <1>5 DEF Editing
<1>7. \A q \in Requests : request'[q].until = request[q].until
  BY <1>4, <1>5
<1>8. CASE CommitUpdate(r)
  <2>1. Edited(r) \in Versions
    BY <1>0 DEF Edited, Versions, Typed, Row, Req, LegalConstants
  <2>2. record' = [record EXCEPT !.fields = Edited(r)]
    BY <1>8 DEF CommitUpdate
  <2>3. record' \in Row /\ record'.state = record.state /\ record'.deletedAt = record.deletedAt
    BY <1>0, <2>1, <2>2 DEF Typed, Row
  <2>4. \E S : history' \in Seq(S)
    <3>1. PICK S : history \in Seq(S)
      BY <1>0 DEF Typed
    <3>2. PICK s \in Listed(Entries(r)) : history' = history \o s
      BY <1>8 DEF CommitUpdate
    <3>3. IsFiniteSet(Entries(r))
      BY <1>8, EntriesFinite DEF CommitUpdate
    <3>4. s \in Seq(Entries(r))
      BY <3>2, <3>3, ListedAll
    <3>5. history \in Seq(S \cup Entries(r)) /\ s \in Seq(S \cup Entries(r))
      BY <3>1, <3>4, SeqMonotonic
    <3> QED
      BY <3>2, <3>5, ConcatProperties
  <2>5. Typed'
    BY <1>0, <1>1, <1>5, <2>3, <2>4 DEF Typed
  <2>6. Promised'
    BY <1>0, <1>1, <1>7, <2>3 DEF Promised, RecoveryPromiseKept
  <2> QED
    BY <1>6, <2>5, <2>6 DEF IInv
<1>9. CASE CommitRecovery(r)
  <2>1. record' = [record EXCEPT !.state = "live", !.deletedAt = NotDeleted] /\ UNCHANGED history
    BY <1>9 DEF CommitRecovery
  <2>2. record' \in Row /\ record'.state = "live"
    BY <1>0, <2>1 DEF Typed, Row
  <2>3. Typed'
    BY <1>0, <1>1, <1>5, <2>1, <2>2 DEF Typed
  <2>4. Promised'
    BY <1>0, <1>1, <1>7, <2>2 DEF Promised, RecoveryPromiseKept
  <2> QED
    BY <1>6, <2>3, <2>4 DEF IInv
<1> QED
  BY <1>8, <1>9

\* The job purges what no promise reaches any more; time only passes.
LEMMA TimeKeeps == ASSUME LegalConstants, IInv, Purge \/ Tick PROVE IInv'
<1>0. Typed /\ Editing /\ Promised
  BY DEF IInv
<1>1. UNCHANGED <<request, lock>> /\ Editing'
  BY <1>0 DEF Purge, Tick, Editing
<1>2. \A r \in Requests : request[r].until \in Nat
  BY <1>0 DEF Typed, Req
<1>3. CASE Purge
  <2>1. /\ record.state = "deleted" /\ record.deletedAt + Window < hour /\ hour' = hour
        /\ record' = [record EXCEPT !.state = "purged"] /\ history' = <<>>
    BY <1>3 DEF Purge, Expired
  <2>2. record' \in Row /\ record'.state = "purged"
    BY <1>0, <2>1 DEF Typed, Row
  <2>3. history' \in Seq(Fields)
    BY <2>1
  <2>4. Typed'
    BY <1>0, <1>1, <2>1, <2>2, <2>3 DEF Typed
  <2>5. \A r \in Requests : request[r].until < hour
    BY <1>0, <1>2, <2>1 DEF Promised, Typed, LegalConstants
  <2>6. Promised'
    BY <1>0, <1>1, <2>1, <2>2, <2>5 DEF Promised, RecoveryPromiseKept
  <2> QED
    BY <1>1, <2>4, <2>6 DEF IInv
<1>4. CASE Tick
  <2>1. hour' = hour + 1 /\ UNCHANGED <<record, history>> /\ hour \in Nat /\ Window \in Nat
    BY <1>0, <1>4 DEF Tick, Typed, LegalConstants
  <2>2. Typed'
    BY <1>0, <1>1, <2>1 DEF Typed
  <2>3. \A r \in Requests : request[r].until <= hour' + Window /\ (request[r].until < hour => request[r].until < hour')
    BY <1>0, <1>2, <2>1 DEF Promised
  <2>4. record.state = "deleted" => record.deletedAt <= hour'
    BY <1>0, <2>1 DEF Promised
  <2>5. Promised'
    BY <1>0, <1>1, <2>1, <2>3, <2>4 DEF Promised, RecoveryPromiseKept
  <2> QED
    BY <1>1, <2>2, <2>5 DEF IInv
<1> QED
  BY <1>3, <1>4

LEMMA StepKeeps == ASSUME LegalConstants PROVE IInv /\ [Next]_vars => IInv'
<1> SUFFICES ASSUME IInv, [Next]_vars PROVE IInv'
  OBVIOUS
<1>1. CASE Purge \/ Tick
  BY <1>1, TimeKeeps
<1>2. ASSUME NEW r \in Requests, Step(r) PROVE IInv'
  BY <1>2, AskingKeeps, HoldingKeeps, DeleteKeeps, CommitKeeps DEF Step
<1>3. CASE UNCHANGED vars
  BY <1>3 DEF vars, IInv, Typed, Editing, Promised, RecoveryPromiseKept
<1> QED
  BY <1>1, <1>2, <1>3 DEF Next

\* Until the time a deletion was answered with, the record is there, and
\* nothing that nobody deleted is purged (EntityService.delete_entity and
\* recover, cleanup_expired_soft_deletes).
THEOREM NothingPurgedEarly == ASSUME LegalConstants PROVE Spec => []RecoveryPromiseKept
<1>1. Init => IInv
  BY InitHolds
<1>2. IInv /\ [Next]_vars => IInv'
  BY StepKeeps
<1>3. IInv => RecoveryPromiseKept
  BY DEF IInv, Promised
<1> QED
  BY <1>1, <1>2, <1>3, PTL DEF Spec

-----------------------------------------------------------------------------
(* Edits and their traces.                                                 *)

\* What a committed edit adds is its entries and nothing else.
LEMMA WhatIsAdded ==
    ASSUME LegalConstants, IInv, NEW r \in Requests, CommitUpdate(r)
    PROVE  Added = Entries(r)
<1>1. PICK S : history \in Seq(S)
  BY DEF IInv, Typed
<1>2. PICK s \in Listed(Entries(r)) : history' = history \o s
  BY DEF CommitUpdate
<1>3. /\ s \in Seq(Entries(r))
      /\ \A e \in Entries(r) : \E i \in 1..Len(s) : s[i] = e
  <2>1. IsFiniteSet(Entries(r))
    BY EntriesFinite DEF CommitUpdate
  <2> QED
    BY <1>2, <2>1, ListedAll
<1>4. history \in Seq(S \cup Entries(r)) /\ s \in Seq(S \cup Entries(r))
  BY <1>1, <1>3, SeqMonotonic
<1>5. /\ Len(history') = Len(history) + Len(s) /\ Len(history) \in Nat /\ Len(s) \in Nat
      /\ \A i \in 1..(Len(history) + Len(s)) : history'[i] =
             IF i <= Len(history) THEN history[i] ELSE s[i - Len(history)]
  BY <1>2, <1>4, ConcatProperties, LenProperties
<1>6. ASSUME NEW i \in (Len(history) + 1)..Len(history') PROVE history'[i] \in Entries(r)
  <2>1. i - Len(history) \in 1..Len(s) /\ history'[i] = s[i - Len(history)]
    BY <1>5
  <2> QED
    BY <1>3, <2>1, ElementOfSeq
<1>7. ASSUME NEW e \in Entries(r) PROVE \E i \in (Len(history) + 1)..Len(history') : history'[i] = e
  <2>1. PICK j \in 1..Len(s) : s[j] = e
    BY <1>3
  <2>2. Len(history) + j \in (Len(history) + 1)..Len(history') /\ history'[Len(history) + j] = s[j]
    BY <1>5
  <2> QED
    BY <2>1, <2>2
<1> QED
  BY <1>6, <1>7 DEF Added

\* The history keeps what it has and names what was edited.
LEMMA NamesGrow ==
    ASSUME LegalConstants, IInv, NEW r \in Requests, CommitUpdate(r), NEW x
    PROVE  /\ Named(history, x) \subseteq Named(history', x)
           /\ x \in Changed(r) => {request[r].read[x], request[r].edit[x]} \subseteq Named(history', x)
<1>1. PICK S : history \in Seq(S)
  BY DEF IInv, Typed
<1>2. PICK s \in Listed(Entries(r)) : history' = history \o s
  BY DEF CommitUpdate
<1>3. s \in Seq(Entries(r))
  <2>1. IsFiniteSet(Entries(r))
    BY EntriesFinite DEF CommitUpdate
  <2> QED
    BY <1>2, <2>1, ListedAll
<1>4. history \in Seq(S \cup Entries(r)) /\ s \in Seq(S \cup Entries(r))
  BY <1>1, <1>3, SeqMonotonic
<1>5. /\ Len(history) \in Nat /\ Len(history') \in Nat /\ Len(history) <= Len(history')
      /\ \A i \in 1..Len(history) : history'[i] = history[i]
  BY <1>2, <1>4, ConcatProperties, LenProperties
<1>6. Named(history, x) \subseteq Named(history', x)
  <2> SUFFICES ASSUME NEW i \in 1..Len(history), history[i].field = x
               PROVE  {history[i].old, history[i].new} \subseteq Named(history', x)
    BY DEF Named
  <2>1. i \in 1..Len(history') /\ history'[i] = history[i]
    BY <1>5
  <2> QED
    BY <2>1 DEF Named
<1>7. CASE x \in Changed(r)
  <2> DEFINE e == [field |-> x, old |-> request[r].read[x], new |-> request[r].edit[x], by |-> r]
  <2>1. e \in Added /\ e.field = x /\ e.old = request[r].read[x] /\ e.new = request[r].edit[x]
    BY <1>7, WhatIsAdded DEF Entries
  <2> HIDE DEF e
  <2>2. PICK i \in (Len(history) + 1)..Len(history') : history'[i] = e
    BY <2>1 DEF Added
  <2>3. i \in 1..Len(history')
    BY <1>5, <2>2
  <2>4. {e.old, e.new} \subseteq Named(history', x)
    BY <2>1, <2>2, <2>3 DEF Named
  <2> QED
    BY <1>6, <2>1, <2>4
<1> QED
  BY <1>6, <1>7

\* What a request was shown is what the record has, or somebody's edit came
\* in between, and then the history names both.
Shown(r) ==
    request[r].at \in {"write", "publish"} =>
        \A x \in Fields :
           \/ request[r].read[x] = record.fields[x]
           \/ {request[r].read[x], record.fields[x]} \subseteq Named(history, x)

Trail ==
    /\ lock # NoRequest => record.state # "purged"
    /\ record.state # "purged" => \A r \in Requests : Shown(r)

\* A committed edit, field by field.
LEMMA FieldsEdited ==
    ASSUME LegalConstants, IInv, Trail, NEW r \in Requests, CommitUpdate(r), NEW x \in Fields
    PROVE  \/ x \in Changed(r) /\ record'.fields[x] = request[r].edit[x]
                /\ {record.fields[x], record'.fields[x]} \subseteq Named(history', x)
           \/ x \notin Changed(r) /\ record'.fields[x] = record.fields[x]
           \/ x \notin Changed(r) /\ record'.fields[x] = request[r].read[x]
                /\ {record.fields[x], record'.fields[x]} \subseteq Named(history', x)
<1>1. record' = [record EXCEPT !.fields = Edited(r)] /\ lock = r /\ request[r].kind = "update"
  BY DEF CommitUpdate
<1>2. record'.fields = Edited(r)
  BY <1>1 DEF IInv, Typed, Row
<1>3. request[r].at = "publish" /\ lock # NoRequest
  BY <1>1 DEF IInv, Editing, LegalConstants
<1>4. \/ request[r].read[x] = record.fields[x]
      \/ {request[r].read[x], record.fields[x]} \subseteq Named(history, x)
  BY <1>3 DEF Trail, Shown
<1>5. CASE x \in Changed(r)
  <2>1. record'.fields[x] = request[r].edit[x]
    BY <1>2, <1>5 DEF Edited, Changed
  <2> QED
    BY <1>4, <1>5, <2>1, NamesGrow
<1>6. CASE x \notin Changed(r)
  <2>1. record'.fields[x] \in {record.fields[x], request[r].read[x]}
    BY <1>2, <1>6 DEF Edited, Changed
  <2> QED
    BY <1>4, <1>6, <2>1, NamesGrow
<1> QED
  BY <1>5, <1>6

LEMMA CommitTrails ==
    ASSUME LegalConstants, IInv, Trail, NEW r \in Requests, CommitUpdate(r)
    PROVE  Trail'
<1>1. lock = r /\ lock' = NoRequest /\ lock # NoRequest /\ record.state # "purged"
  BY DEF CommitUpdate, Trail, LegalConstants
<1>2. ASSUME NEW q \in Requests, request'[q].at \in {"write", "publish"}
      PROVE  q # r /\ request'[q] = request[q]
  <2>1. request' = [request EXCEPT ![r].at = "over", ![r].answer = "updated"]
    BY DEF CommitUpdate, Answer
  <2>2. request \in [Requests -> Req]
    BY DEF IInv, Typed
  <2>3. request[r] \in Req /\ request'[r] = [request[r] EXCEPT !.at = "over", !.answer = "updated"]
    BY <2>1, <2>2
  <2>4. request'[r].at = "over"
    BY <2>3 DEF Req
  <2> QED
    BY <1>2, <2>1, <2>2, <2>4
<1>3. ASSUME NEW q \in Requests, request'[q].at \in {"write", "publish"}, NEW x \in Fields
      PROVE  \/ request'[q].read[x] = record'.fields[x]
             \/ {request'[q].read[x], record'.fields[x]} \subseteq Named(history', x)
  <2>1. request'[q] = request[q] /\ request[q].at \in {"write", "publish"}
    BY <1>2, <1>3
  <2>2. \/ request[q].read[x] = record.fields[x]
        \/ {request[q].read[x], record.fields[x]} \subseteq Named(history, x)
    BY <1>1, <2>1 DEF Trail, Shown
  <2>3. Named(history, x) \subseteq Named(history', x)
    BY NamesGrow
  <2>4. \/ record'.fields[x] = record.fields[x]
        \/ {record.fields[x], record'.fields[x]} \subseteq Named(history', x)
    BY FieldsEdited
  <2> QED
    BY <2>1, <2>2, <2>3, <2>4
<1> QED
  BY <1>1, <1>3 DEF Trail, Shown

LEMMA TrailKeeps == ASSUME LegalConstants, IInv, Trail, [Next]_vars PROVE Trail'
<1>0. record \in Row /\ request \in [Requests -> Req] /\ NoRequest \notin Requests
  BY DEF IInv, Typed, LegalConstants
<1>1. CASE UNCHANGED vars \/ Tick
  BY <1>1 DEF vars, Tick, Trail, Shown
<1>2. CASE Purge
  <2>1. record' = [record EXCEPT !.state = "purged"] /\ lock' = lock /\ lock = NoRequest
    BY <1>2 DEF Purge, Unlocked
  <2>2. record'.state = "purged"
    BY <1>0, <2>1 DEF Row
  <2> QED
    BY <2>1, <2>2 DEF Trail
<1>3. ASSUME NEW r \in Requests, CommitUpdate(r) PROVE Trail'
  BY <1>3, CommitTrails
<1>4. ASSUME NEW r \in Requests, Step(r), ~CommitUpdate(r) PROVE Trail'
  <2>1. \/ Arrive(r) \/ Read(r) \/ Unchanged(r) \/ LockForUpdate(r) \/ Abort(r) \/ WriteGone(r)
        \/ Delete(r) \/ AnswerDelete(r) \/ LockForRecovery(r) \/ CommitRecovery(r)
    BY <1>4 DEF Step
  <2>2. history' = history /\ record'.fields = record.fields
    BY <1>0, <2>1 DEF Arrive, Read, Unchanged, LockForUpdate, Abort, WriteGone,
                      Delete, AnswerDelete, LockForRecovery, CommitRecovery, Row
  <2>3. /\ lock' # NoRequest => record'.state # "purged"
        /\ record.state = "purged" => record'.state = "purged"
    <3>1. CASE Arrive(r) \/ Read(r) \/ Unchanged(r) \/ Abort(r) \/ WriteGone(r) \/ AnswerDelete(r)
      BY <3>1 DEF Arrive, Read, Unchanged, Abort, WriteGone, AnswerDelete, Trail
    <3>2. CASE LockForUpdate(r) \/ LockForRecovery(r)
      BY <3>2 DEF LockForUpdate, LockForRecovery
    <3>3. CASE Delete(r)
      BY <3>3 DEF Delete, Unlocked
    <3>4. CASE CommitRecovery(r)
      BY <1>0, <3>4 DEF CommitRecovery, Trail
    <3> QED
      BY <2>1, <3>1, <3>2, <3>3, <3>4
  <2>4. WriteGone(r) => \E a : request' = [request EXCEPT ![r].at = "over", ![r].answer = a]
    <3> SUFFICES ASSUME WriteGone(r)
                 PROVE  \E a : request' = [request EXCEPT ![r].at = "over", ![r].answer = a]
      OBVIOUS
    <3>1. request[r].kind \in {"update", "delete", "recover"}
      BY <1>0 DEF WriteGone, IInv, Editing, Req
    <3>2. \E a : request' = [request EXCEPT ![r].at = "over", ![r].answer = a]
      BY <3>1 DEF WriteGone, Answer
    <3> QED
      BY <3>2
  <2>5. ASSUME NEW q \in Requests, request'[q].at \in {"write", "publish"}
        PROVE  \/ request'[q].read = record.fields
               \/ request'[q].read = request[q].read /\ request[q].at \in {"write", "publish"}
    <3>1. CASE q # r
      <4>1. request'[q] = request[q]
        BY <1>0, <2>1, <2>4, <3>1 DEF Arrive, Read, Unchanged, LockForUpdate, Abort, Goto, Answer, Delete,
                                      AnswerDelete, LockForRecovery, CommitRecovery
      <4> QED
        BY <2>5, <4>1
    <3>2. CASE q = r
      <4>1. request[r] \in Req
        BY <1>0
      <4>2. CASE Arrive(r) \/ Unchanged(r) \/ Abort(r) \/ WriteGone(r) \/ AnswerDelete(r) \/ CommitRecovery(r)
        <5>1. request'[r].at \in {"read", "over"}
          <6>1. CASE Arrive(r)
            BY <1>0, <4>1, <6>1 DEF Arrive, Req
          <6>2. CASE \E a : request' = [request EXCEPT ![r].at = "over", ![r].answer = a]
            BY <1>0, <4>1, <6>2 DEF Req
          <6> QED
            BY <2>4, <4>2, <6>1, <6>2 DEF Unchanged, Abort, AnswerDelete, CommitRecovery, Answer
        <5> QED
          BY <2>5, <3>2, <5>1
      <4>3. CASE LockForUpdate(r) \/ LockForRecovery(r)
        <5>1. request[r].at = "write" /\ request' = [request EXCEPT ![r].at = "publish"]
          BY <4>3 DEF LockForUpdate, LockForRecovery, Goto
        <5>2. request'[r].read = request[r].read
          BY <1>0, <4>1, <5>1 DEF Req
        <5> QED
          BY <3>2, <5>1, <5>2
      <4>4. CASE Delete(r)
        <5>1. /\ request[r].at = "write"
              /\ \/ request' = [request EXCEPT ![r].at = "publish", ![r].until = hour + Window]
                 \/ request' = [request EXCEPT ![r].at = "over", ![r].answer = "not_found"]
          BY <4>4 DEF Delete, Answer
        <5>2. request'[r].read = request[r].read
          BY <1>0, <4>1, <5>1 DEF Req
        <5> QED
          BY <3>2, <5>1, <5>2
      <4>5. CASE Read(r)
        <5>1. \/ request' = [request EXCEPT ![r].at = "write", ![r].read = record.fields]
              \/ \E a : request' = [request EXCEPT ![r].at = "over", ![r].answer = a]
          BY <4>5 DEF Read, Answer
        <5>2. request'[r].read = record.fields \/ request'[r].at = "over"
          BY <1>0, <4>1, <5>1 DEF Req
        <5> QED
          BY <2>5, <3>2, <5>2
      <4> QED
        BY <2>1, <4>2, <4>3, <4>4, <4>5
    <3> QED
      BY <3>1, <3>2
  <2> QED
    BY <2>2, <2>3, <2>5 DEF Trail, Shown
<1> QED
  BY <1>1, <1>2, <1>3, <1>4 DEF Next

\* What a step does to the trail, once everybody was shown the record or a
\* value that the history names.
LEMMA StepTraced == ASSUME LegalConstants, IInv, Trail, Next PROVE Traced
<1>1. CASE \E r \in Requests : CommitUpdate(r)
  <2>1. PICK r \in Requests : CommitUpdate(r)
    BY <1>1
  <2>2. Added = Entries(r) /\ lock = r
    BY <2>1, WhatIsAdded DEF CommitUpdate
  <2>3. Changed(r) \subseteq Fields
    BY <2>1 DEF CommitUpdate, IInv, Editing, Changed
  <2>4. ASSUME NEW e \in Added
        PROVE  lock = e.by /\ e.old = request[lock].read[e.field] /\ record'.fields[e.field] = e.new
    <3>1. PICK x \in Changed(r) :
             e = [field |-> x, old |-> request[r].read[x], new |-> request[r].edit[x], by |-> r]
      BY <2>2 DEF Entries
    <3>2. record'.fields[x] = request[r].edit[x]
      BY <2>1, <2>3, <3>1, FieldsEdited
    <3> QED
      BY <2>2, <3>1, <3>2
  <2>5. ASSUME NEW x \in Fields, record'.fields[x] # record.fields[x]
        PROVE  /\ \/ \E e \in Added : e.field = x
                  \/ lock \in Requests /\ record'.fields[x] = request[lock].read[x]
               /\ {record.fields[x], record'.fields[x]} \subseteq Named(history', x)
    <3>1. CASE x \in Changed(r)
      <4> DEFINE e == [field |-> x, old |-> request[r].read[x], new |-> request[r].edit[x], by |-> r]
      <4>1. e \in Added /\ e.field = x
        BY <2>2, <3>1 DEF Entries
      <4> HIDE DEF e
      <4> QED
        BY <2>1, <2>5, <3>1, <4>1, FieldsEdited
    <3>2. CASE x \notin Changed(r)
      BY <2>1, <2>2, <2>5, <3>2, FieldsEdited
    <3> QED
      BY <3>1, <3>2
  <2> QED
    BY <2>4, <2>5 DEF Traced
<1>2. CASE Purge
  <2>1. history' = <<>> /\ record' = [record EXCEPT !.state = "purged"]
    BY <1>2 DEF Purge
  <2>2. Len(history) \in Nat
    BY LenProperties DEF IInv, Typed
  <2>3. Added = {}
    BY <2>1, <2>2 DEF Added
  <2>4. record'.fields = record.fields
    BY <2>1 DEF IInv, Typed, Row
  <2> QED
    BY <2>3, <2>4 DEF Traced
<1>3. CASE ~Purge /\ ~(\E r \in Requests : CommitUpdate(r))
  <2>1. UNCHANGED history
    BY <1>3 DEF Next, Step, Tick, Arrive, Read, Unchanged, LockForUpdate, Abort, WriteGone,
                Delete, AnswerDelete, LockForRecovery, CommitRecovery
  <2>2. Len(history) \in Nat
    BY LenProperties DEF IInv, Typed
  <2>3. Added = {}
    BY <2>1, <2>2 DEF Added
  <2>4. record' = record \/ (\E r \in Requests : Delete(r)) \/ (\E r \in Requests : CommitRecovery(r))
    BY <1>3 DEF Next, Step, Tick, Arrive, Read, Unchanged, LockForUpdate, Abort, WriteGone,
                AnswerDelete, LockForRecovery
  <2>5. record'.fields = record.fields
    BY <2>4 DEF Delete, CommitRecovery, IInv, Typed, Row
  <2> QED
    BY <2>3, <2>5 DEF Traced
<1> QED
  BY <1>1, <1>2, <1>3

\* The trail loses no value: whatever a field is given or loses is named in
\* its history, entries tell the value that was shown and the value that is
\* given, and an untraced change only puts back what was shown
\* (entities.update_entity, write_field_changes, update_fields).
THEOREM EditsAreTraced == ASSUME LegalConstants PROVE Spec => EditsLeaveTraces
<1>1. Init => IInv /\ Trail
  BY InitHolds DEF Init, Trail, Shown, Fresh
<1>2. IInv /\ Trail /\ [Next]_vars => (IInv /\ Trail)'
  BY StepKeeps, TrailKeeps
<1>3. IInv /\ Trail /\ [Next]_vars => [Traced]_vars
  BY StepTraced
<1> QED
  BY <1>1, <1>2, <1>3, PTL DEF Spec, EditsLeaveTraces

-----------------------------------------------------------------------------
(* Types.                                                                  *)

\* Exactly a live record has no time of deletion, time is bounded, and the
\* history names fields and requests.
Dated ==
    /\ hour \in 0..MaxHour
    /\ IF record.state = "live" THEN record.deletedAt = NotDeleted ELSE record.deletedAt \in 0..hour

Signed == \A i \in 1..Len(history) : history[i].field \in Fields /\ history[i].by \in Requests

TypeInv == IInv /\ Dated /\ Signed

\* A committed edit keeps the history and adds entries of its own.
LEMMA HistoryGrows ==
    ASSUME LegalConstants, IInv, NEW r \in Requests, CommitUpdate(r)
    PROVE  \A i \in 1..Len(history') :
              \/ i \in 1..Len(history) /\ history'[i] = history[i]
              \/ history'[i] \in Entries(r)
<1>1. PICK S : history \in Seq(S)
  BY DEF IInv, Typed
<1>2. PICK s \in Listed(Entries(r)) : history' = history \o s
  BY DEF CommitUpdate
<1>3. s \in Seq(Entries(r))
  <2>1. IsFiniteSet(Entries(r))
    BY EntriesFinite DEF CommitUpdate
  <2> QED
    BY <1>2, <2>1, ListedAll
<1>4. history \in Seq(S \cup Entries(r)) /\ s \in Seq(S \cup Entries(r))
  BY <1>1, <1>3, SeqMonotonic
<1>5. /\ Len(history') = Len(history) + Len(s) /\ Len(history) \in Nat /\ Len(s) \in Nat
      /\ \A i \in 1..(Len(history) + Len(s)) : history'[i] =
             IF i <= Len(history) THEN history[i] ELSE s[i - Len(history)]
  BY <1>2, <1>4, ConcatProperties, LenProperties
<1>6. TAKE i \in 1..Len(history')
<1>7. CASE i <= Len(history)
  BY <1>5, <1>7
<1>8. CASE ~(i <= Len(history))
  <2>1. i - Len(history) \in 1..Len(s) /\ history'[i] = s[i - Len(history)]
    BY <1>5, <1>8
  <2> QED
    BY <1>3, <2>1, ElementOfSeq
<1> QED
  BY <1>7, <1>8

LEMMA StepSigns == ASSUME LegalConstants, IInv, Signed, [Next]_vars PROVE Signed'
<1>1. CASE \E r \in Requests : CommitUpdate(r)
  <2>1. PICK r \in Requests : CommitUpdate(r)
    BY <1>1
  <2>2. DOMAIN request[r].edit \subseteq Fields
    BY <2>1 DEF CommitUpdate, IInv, Editing
  <2>3. \A e \in Entries(r) : e.field \in Fields /\ e.by \in Requests
    BY <2>2 DEF Entries, Changed
  <2> QED
    BY <2>1, <2>3, HistoryGrows DEF Signed
<1>2. CASE Purge
  <2>1. history' = <<>>
    BY <1>2 DEF Purge
  <2> QED
    BY <2>1 DEF Signed
<1>3. CASE ~Purge /\ ~(\E r \in Requests : CommitUpdate(r))
  <2>1. UNCHANGED history
    BY <1>3 DEF Next, Step, Tick, Arrive, Read, Unchanged, LockForUpdate, Abort, WriteGone,
                Delete, AnswerDelete, LockForRecovery, CommitRecovery, vars
  <2> QED
    BY <2>1 DEF Signed
<1> QED
  BY <1>1, <1>2, <1>3

LEMMA StepDates == ASSUME LegalConstants, IInv, Dated, [Next]_vars PROVE Dated'
<1>0. record \in Row /\ hour \in Nat /\ hour \in 0..MaxHour /\ MaxHour \in Nat /\ NotDeleted \notin Nat
  BY DEF IInv, Typed, Dated, LegalConstants
<1>1. CASE Purge
  <2>1. record' = [record EXCEPT !.state = "purged"] /\ hour' = hour /\ record.state = "deleted"
    BY <1>1 DEF Purge, Expired
  <2>2. record'.state = "purged" /\ record'.deletedAt = record.deletedAt
    BY <1>0, <2>1 DEF Row
  <2> QED
    BY <2>1, <2>2 DEF Dated
<1>2. CASE Tick
  <2>1. hour' = hour + 1 /\ hour < MaxHour /\ record' = record
    BY <1>2 DEF Tick
  <2>2. hour' \in 0..MaxHour /\ \A n \in 0..hour : n \in 0..hour'
    BY <1>0, <2>1
  <2> QED
    BY <2>1, <2>2 DEF Dated
<1>3. CASE \E r \in Requests : CommitUpdate(r)
  <2>1. \E f : record' = [record EXCEPT !.fields = f] /\ hour' = hour
    BY <1>3 DEF CommitUpdate
  <2>2. record'.state = record.state /\ record'.deletedAt = record.deletedAt
    BY <1>0, <2>1 DEF Row
  <2> QED
    BY <2>1, <2>2 DEF Dated
<1>4. CASE \E r \in Requests : CommitRecovery(r)
  <2>1. record' = [record EXCEPT !.state = "live", !.deletedAt = NotDeleted] /\ hour' = hour
    BY <1>4 DEF CommitRecovery
  <2>2. record'.state = "live" /\ record'.deletedAt = NotDeleted
    BY <1>0, <2>1 DEF Row
  <2> QED
    BY <2>1, <2>2 DEF Dated
<1>5. CASE \E r \in Requests : Delete(r)
  <2>1. /\ hour' = hour
        /\ record' = record \/ record' = [record EXCEPT !.state = "deleted", !.deletedAt = hour]
    BY <1>5 DEF Delete
  <2>2. CASE record' = [record EXCEPT !.state = "deleted", !.deletedAt = hour]
    <3>1. record'.state = "deleted" /\ record'.deletedAt = hour /\ hour \in 0..hour
      BY <1>0, <2>2 DEF Row
    <3> QED
      BY <2>1, <3>1 DEF Dated
  <2> QED
    BY <2>1, <2>2 DEF Dated
<1>6. CASE /\ ~Purge /\ ~Tick /\ ~(\E r \in Requests : CommitUpdate(r))
           /\ ~(\E r \in Requests : CommitRecovery(r)) /\ ~(\E r \in Requests : Delete(r))
  <2>1. UNCHANGED <<record, hour>>
    BY <1>6 DEF Next, Step, Arrive, Read, Unchanged, LockForUpdate, Abort, WriteGone,
                AnswerDelete, LockForRecovery, vars
  <2> QED
    BY <2>1 DEF Dated
<1> QED
  BY <1>1, <1>2, <1>3, <1>4, <1>5, <1>6

LEMMA TypesFollow == ASSUME LegalConstants, TypeInv PROVE TypeOK
<1> USE DEF TypeInv, IInv
<1>0. record \in Row /\ hour \in 0..MaxHour /\ MaxHour \in Nat /\ Window \in Nat /\ NotDeleted \notin Nat
  BY DEF Typed, Dated, LegalConstants
<1>1. record.deletedAt \in {NotDeleted} \cup 0..MaxHour /\ (record.state = "live" <=> record.deletedAt = NotDeleted)
  BY <1>0 DEF Dated
<1>2. record \in Records
  BY <1>0, <1>1 DEF Row, Records, Versions
<1>3. ASSUME NEW r \in Requests
      PROVE  /\ request[r].at \in {"new", "read", "write", "publish", "over"}
             /\ request[r].answer \in Answers
             /\ request[r].until \in 0..(MaxHour + Window)
  <2>1. request[r] \in Req
    BY DEF Typed
  <2>2. request[r].until \in Nat /\ request[r].until <= hour + Window
    BY <2>1 DEF Req, Promised
  <2> QED
    BY <1>0, <2>1, <2>2 DEF Req
<1> QED
  BY <1>0, <1>1, <1>2, <1>3 DEF Typed, Signed, Answers, TypeOK

\* Every request, entry and time has its type, and a record has a time of
\* deletion exactly when it is not live (EntityService, DataRepository).
THEOREM EntityTypes == ASSUME LegalConstants PROVE Spec => []TypeOK
<1>1. Init => TypeInv
  <2> SUFFICES ASSUME Init PROVE TypeInv
    OBVIOUS
  <2>1. hour = 0 /\ record.state = "live" /\ record.deletedAt = NotDeleted /\ history = <<>>
    BY DEF Init
  <2>2. Dated
    BY <2>1 DEF Dated, LegalConstants
  <2>3. Signed
    BY <2>1 DEF Signed
  <2> QED
    BY <2>2, <2>3, InitHolds DEF TypeInv
<1>2. TypeInv /\ [Next]_vars => TypeInv'
  BY StepKeeps, StepSigns, StepDates DEF TypeInv
<1> QED
  BY <1>1, <1>2, TypesFollow, PTL DEF Spec
=============================================================================
