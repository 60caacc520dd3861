------------------------------ MODULE Finalize ------------------------------
(***************************************************************************)
(* Finalization of a previewed batch in Core: POST /api/v1/finalize, the   *)
(* FinalizePipeline behind it, the tables RecordCreator writes, and Edge,  *)
(* the service that submits to the tax authority.                          *)
(*                                                                         *)
(* A step ends where the pipeline awaits HeartBeat, the database or Edge.  *)
(* The commit is one transaction, closed before Edge is called.  Requests  *)
(* may be repeated: the idempotency table has no reader.                   *)
(***************************************************************************)
EXTENDS EditRules, FiniteSets

CONSTANTS
    Calls,         \* requests to finalize the batch
    Submissions,   \* what a client may send: sequences of rows
    Directions,    \* what it may send as "direction"
    ServiceIds,    \* and as "service_id", of the eight characters it must have
    Shown,         \* the previews HeartBeat holds one after the other
    IrnOf,         \* <<invoice number, service, issue date>> -> IRN, where one can be made
    NoIrn,
    MaxCrashes     \* bound on deaths of the Core process

ASSUME FinalizeConstants ==
    /\ Submissions \subseteq Seq([f : [Fields -> STRING], items : Seq([f : [ItemFields -> STRING]])])
    /\ MaxCrashes \in Nat

VARIABLES
    at,        \* the step each call is at
    sent,      \* submitted_rows
    way,       \* the direction it gave
    service,   \* the service_id it gave
    seen,      \* which preview it was compared with, 0 before
    answer,    \* what it was answered: 200, 422, an error that escaped, ...
    current,   \* the preview HeartBeat holds, an index of Shown
    records,   \* invoices and invoice_line_items: what was inserted, see Made
    customers, \* TINs in customers
    invoiced,  \* total_times_invoiced of the inventory, per product
    committed, \* calls whose transaction committed
    edge,      \* what Edge has received, see Made
    edgeClient, \* FinalizePipeline was made with a client of Edge
    crashes

callVars == <<at, sent, way, service, seen, answer>>
dbVars   == <<records, customers, invoiced, committed>>
vars     == <<callVars, current, dbVars, edge, edgeClient, crashes>>

\* What an IRN is made of: only its invoice number is the row's alone.
Parts(row, s)  == <<row.f["invoice_number"], s, row.f["issue_date"]>>
Irn(row, s)    == IF Parts(row, s) \in DOMAIN IrnOf THEN IrnOf[Parts(row, s)] ELSE NoIrn
Id(row)        == row.f["invoice_id"]
RowsOf(b)      == {b[i] : i \in 1..Len(b)}
Products(row)  == {row.items[i].f["product_id"] : i \in 1..Len(row.items)} \ {"", "absent"}
InFlight       == {c \in Calls : at[c] \in {"fetch", "check", "commit", "edge"}}

\* The invoices of a call, with the IRN it gives them.
Made(c) == {[row |-> r, irn |-> Irn(r, service[c]), by |-> c] : r \in RowsOf(sent[c])}
Ids(S)  == {Id(o.row) : o \in S}

\* What the proofs assume of the constants besides: HeartBeat holds a
\* preview, an invoice on it has an id of its own and keeps its number and
\* date when it is previewed again, and without the two there is no IRN.
LegalConstants ==
    /\ Len(Shown) \in Nat \ {0}
    /\ \A v \in 1..Len(Shown) : \A i \in 1..Len(Shown[v]) : Id(Shown[v][i]) \notin {"", "absent"}
    /\ \A v \in 1..Len(Shown) : \A i, j \in 1..Len(Shown[v]) :
          Id(Shown[v][i]) = Id(Shown[v][j]) => i = j
    /\ \A v, w \in 1..Len(Shown) : \A i \in 1..Len(Shown[v]), j \in 1..Len(Shown[w]) :
          Id(Shown[v][i]) = Id(Shown[w][j])
             => /\ Shown[v][i].f["invoice_number"] = Shown[w][j].f["invoice_number"]
                /\ Shown[v][i].f["issue_date"] = Shown[w][j].f["issue_date"]
    /\ \A t \in DOMAIN IrnOf : {t[1], t[3]} \cap {"", "absent"} = {}

Tins(c) == {r.f["buyer_tin"] : r \in RowsOf(sent[c])} \cup {r.f["seller_tin"] : r \in RowsOf(sent[c])}

TypeOK ==
    /\ at \in [Calls -> {"new", "fetch", "check", "commit", "edge", "over"}]
    /\ \A c \in Calls : sent[c] \in Submissions \cup {<<>>}
    /\ way \in [Calls -> Directions \cup {""}] /\ service \in [Calls -> ServiceIds \cup {""}]
    /\ seen \in [Calls -> 0..Len(Shown)]
    /\ answer \in [Calls -> {"none", "ok", "unknown_batch", "refused", "raised", "lost"}]
    /\ current \in 1..Len(Shown)
    /\ customers \subseteq UNION {Tins(c) : c \in committed}
    /\ \A h \in DOMAIN invoiced : invoiced[h] \in Nat
    /\ committed \subseteq Calls
    /\ edgeClient \in BOOLEAN
    /\ crashes \in 0..MaxCrashes

Init ==
    /\ at = [c \in Calls |-> "new"]
    /\ sent = [c \in Calls |-> <<>>] /\ way = [c \in Calls |-> ""]
    /\ service = [c \in Calls |-> ""]
    /\ seen = [c \in Calls |-> 0]
    /\ answer = [c \in Calls |-> "none"]
    /\ current = 1
    /\ records = {} /\ customers = {} /\ invoiced = [h \in {} |-> 0]
    /\ committed = {} /\ edge = {} /\ edgeClient \in BOOLEAN /\ crashes = 0

Goto(c, step) == at' = [at EXCEPT ![c] = step] /\ UNCHANGED <<sent, way, service, answer>>
Answer(c, a)  == /\ at' = [at EXCEPT ![c] = "over"] /\ answer' = [answer EXCEPT ![c] = a]
                 /\ UNCHANGED <<sent, way, service>>

-----------------------------------------------------------------------------
\* A body that names its batch, company and service, and has rows; the
\* others are refused before anything is looked at.
Arrive(c) ==
    /\ at[c] = "new"
    /\ \E b \in Submissions, d \in Directions, s \in ServiceIds :
          /\ sent' = [sent EXCEPT ![c] = b] /\ way' = [way EXCEPT ![c] = d]
          /\ service' = [service EXCEPT ![c] = s]
    /\ at' = [at EXCEPT ![c] = "fetch"]
    /\ UNCHANGED <<seen, answer, current, dbVars, edge, edgeClient, crashes>>

\* heartbeat.get_preview(batch_id)
FetchPreview(c) ==
    /\ at[c] = "fetch"
    /\ seen' = [seen EXCEPT ![c] = current]
    /\ Goto(c, "check")
    /\ UNCHANGED <<current, dbVars, edge, edgeClient, crashes>>

NoPreview(c) ==
    /\ at[c] = "fetch"
    /\ Answer(c, "unknown_batch")
    /\ UNCHANGED <<seen, current, dbVars, edge, edgeClient, crashes>>

Numbered(c) == \A o \in Made(c) : o.irn # NoIrn

\* Steps 1 and 2: an illegal edit, or an invoice no IRN can be made of.
Verdict(c) ==
    IF LegalBatch(sent[c], Shown[seen[c]], way[c]) /\ Numbered(c)
    THEN "accept" ELSE "refuse"

Refuse(c) ==
    /\ at[c] = "check" /\ Verdict(c) = "refuse"
    /\ Answer(c, "refused")
    /\ UNCHANGED <<seen, current, dbVars, edge, edgeClient, crashes>>

\* A QR code that cannot be drawn is meant to be a warning.  Writing the
\* warning passes keywords to a logger of the standard library, which raises.
QrRaises(c) ==
    /\ at[c] = "check" /\ Verdict(c) = "accept"
    /\ Answer(c, "raised")
    /\ UNCHANGED <<seen, current, dbVars, edge, edgeClient, crashes>>

Accept(c) ==
    /\ at[c] = "check" /\ Verdict(c) = "accept"
    /\ Goto(c, "commit")
    /\ UNCHANGED <<seen, current, dbVars, edge, edgeClient, crashes>>

-----------------------------------------------------------------------------
\* INSERT ... ON CONFLICT (invoice_id) DO NOTHING, and lines likewise: a
\* record is never written over, whatever is on the row and its IRN.
Inserted(c) == {o \in Made(c) : Id(o.row) \notin Ids(records)}

\* irn is UNIQUE: another invoice has it.
Clash(c) ==
    \E o \in Inserted(c) : \E p \in records \cup Inserted(c) : Id(p.row) # Id(o.row) /\ p.irn = o.irn

\* The other party by the direction of the row, which need not be the one
\* the request gave; no key counts as OUTBOUND.  Without TIN it is skipped.
Counterparties(b) ==
    {IF r.f["direction"] \in {"OUTBOUND", "absent"} THEN r.f["buyer_tin"] ELSE r.f["seller_tin"]
        : r \in RowsOf(b)} \ {"", "absent"}

\* Every row counts each product on it once, whether its invoice is new or
\* not; the first that names a product inserts it, with the count at 0.
Counted(b) ==
    LET named    == UNION {Products(r) : r \in RowsOf(b)}
        times(h) == Cardinality({i \in 1..Len(b) : h \in Products(b[i])})
    IN  [h \in DOMAIN invoiced \cup named |->
            IF h \notin named THEN invoiced[h]
            ELSE IF h \in DOMAIN invoiced THEN invoiced[h] + times(h)
            ELSE times(h) - 1]

Written(c) ==
    /\ ~Clash(c)
    /\ records' = records \cup Inserted(c)
    /\ customers' = customers \cup Counterparties(sent[c])
    /\ invoiced' = Counted(sent[c])
    /\ committed' = committed \cup {c}
    /\ UNCHANGED <<seen, current, edge, edgeClient, crashes>>

\* RecordCreator.commit_batch; the transaction commits when its block ends.
Commit(c) == at[c] = "commit" /\ Written(c) /\ Goto(c, "edge")

\* The connection breaks at the COMMIT, which went through: the batch is
\* refused like any other whose transaction raised.
CommitUnheard(c) == at[c] = "commit" /\ Written(c) /\ Answer(c, "refused")

\* Seeded fault for CommitFails: the errors of the commit are not looked at.
CommitIgnored(c) ==
    /\ at[c] = "commit"
    /\ Goto(c, "edge")
    /\ UNCHANGED <<seen, current, dbVars, edge, edgeClient, crashes>>

\* A clash, or any statement that raises: everything is rolled back.
CommitFails(c) ==
    /\ at[c] = "commit"
    /\ Answer(c, "refused")
    /\ UNCHANGED <<seen, current, dbVars, edge, edgeClient, crashes>>

\* Without a client nothing is submitted, and the request succeeds.
NoEdge(c) ==
    /\ at[c] = "edge" /\ ~edgeClient
    /\ Answer(c, "ok")
    /\ UNCHANGED <<seen, current, dbVars, edge, edgeClient, crashes>>

\* submit_batch sends the rows and IRNs of the request, not of the table.
EdgeAccepts(c) ==
    /\ at[c] = "edge" /\ edgeClient
    /\ edge' = edge \cup Made(c)
    /\ Answer(c, "ok")
    /\ UNCHANGED <<seen, current, dbVars, edgeClient, crashes>>

\* Edge is down, slow or rejects some rows: again the warning raises, in the
\* handler of the first error too, and the request ends with the error.
EdgeFails(c) ==
    /\ at[c] = "edge" /\ edgeClient
    /\ \E S \in SUBSET Made(c) : edge' = edge \cup S
    /\ Answer(c, "raised")
    /\ UNCHANGED <<seen, current, dbVars, edgeClient, crashes>>

-----------------------------------------------------------------------------
\* The upload is processed again and HeartBeat holds a newer preview.
Reprocess ==
    /\ current < Len(Shown)
    /\ current' = current + 1
    /\ UNCHANGED <<callVars, dbVars, edge, edgeClient, crashes>>

Crash ==
    /\ crashes < MaxCrashes /\ InFlight # {}
    /\ crashes' = crashes + 1
    /\ at' = [c \in Calls |-> IF c \in InFlight THEN "over" ELSE at[c]]
    /\ answer' = [c \in Calls |-> IF c \in InFlight THEN "lost" ELSE answer[c]]
    /\ UNCHANGED <<sent, way, service, seen, current, dbVars, edge, edgeClient>>

Step(c) ==
    \/ Arrive(c) \/ FetchPreview(c) \/ NoPreview(c)
    \/ Refuse(c) \/ QrRaises(c) \/ Accept(c)
    \/ Commit(c) \/ CommitUnheard(c) \/ CommitFails(c)
    \/ NoEdge(c) \/ EdgeAccepts(c) \/ EdgeFails(c)

Next == Reprocess \/ Crash \/ \E c \in Calls : Step(c)

Spec == Init /\ [][Next]_vars

-----------------------------------------------------------------------------
(***************************************************************************)
(* Properties.                                                             *)
(***************************************************************************)

\* r keeps what the source document said where p shows it as reliable.
KeepsSource(r, p) ==
    /\ \A x \in Fields \ Always :
          (p.prov[x] \in SourceProvenance /\ p.conf # "low") => Same(r.f[x], p.f[x])
    /\ Len(r.items) = Len(p.items)
    /\ \A i \in 1..Len(r.items) : \A x \in ItemFields :
          (p.items[i].prov[x] \in SourceProvenance /\ p.items[i].conf # "low")
             => Same(r.items[i].f[x], p.items[i].f[x])

\* The batch of a call is as a whole what preview v shows.
Kept(c, v) ==
    /\ Len(sent[c]) = Len(Shown[v])
    /\ \A i \in 1..Len(sent[c]) :
          Id(sent[c][i]) = Id(Shown[v][i]) /\ KeepsSource(sent[c][i], Shown[v][i])

\* "Source data is sacred": what reached the tables or Edge is a row of a
\* batch that is, row by row, one preview HeartBeat has held, and no mixture
\* of two, changed only where the source was missing, enriched or doubtful,
\* whatever direction the request named.
SourceDataSacred ==
    \A o \in records \cup edge :
        o.row \in RowsOf(sent[o.by]) /\ \E v \in 1..current : Kept(o.by, v)

\* Edge holds no invoice that is not in the tables.  The two agree on it,
\* unless Edge was sent it by a repeat, whose edits and whose service the
\* tables never take; on its IRN they agree as long as the service is one.
EdgeOnlyCommitted ==
    \A s \in edge : \E r \in records :
        /\ Id(r.row) = Id(s.row)
        /\ r.by = s.by => r = s
        /\ service[r.by] = service[s.by] => r.irn = s.irn

\* A 200 means that each invoice is in the tables as it was sent, or as an
\* earlier call left it, and at Edge, if there is one.  A call that ended
\* otherwise left all of its batch in the tables or nothing, and after a 422
\* or 404 nothing of it is at Edge.
AnswersTruthful ==
    \A c \in Calls :
        /\ answer[c] = "ok" =>
              /\ \A o \in Made(c) : o \in records \/ \E p \in records : Id(p.row) = Id(o.row) /\ p.by # c
              /\ edgeClient => Made(c) \subseteq edge
        /\ (\E o \in records : o.by = c) => Ids(Made(c)) \subseteq Ids(records)
        /\ answer[c] \in {"refused", "unknown_batch"} => \A o \in edge : o.by # c

\* One invoice per IRN, and never two records for one invoice.
OneRecordPerInvoice ==
    \A r, s \in records : (Id(r.row) = Id(s.row) \/ r.irn = s.irn) => r = s

\* What clients and Edge are told of a batch is so.
ToldIsTrue == EdgeOnlyCommitted /\ AnswersTruthful /\ OneRecordPerInvoice
=============================================================================
