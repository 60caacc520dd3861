--------------------------- MODULE FinalizeProofs ---------------------------
(***************************************************************************)
(* Proofs about Finalize, for any number of calls, any submissions and any *)
(* previews HeartBeat may hold in between.                                 *)
(***************************************************************************)
EXTENDS Finalize, FiniteSetTheorems, TLAPS

\* The types that the arguments below need.
Typed ==
    /\ at \in [Calls -> {"new", "fetch", "check", "commit", "edge", "over"}]
    /\ sent \in [Calls -> Submissions \cup {<<>>}]
    /\ way \in [Calls -> Directions \cup {""}]
    /\ service \in [Calls -> ServiceIds \cup {""}]
    /\ seen \in [Calls -> Nat]
    /\ current \in 1..Len(Shown)

\* A call that may still commit or submit was compared with a preview that
\* HeartBeat has held, and found legal; it keeps what was compared, and so
\* does a call that has committed or submitted.
Compared ==
    /\ \A c \in Calls : at[c] \in {"check", "commit", "edge"} => seen[c] \in 1..current
    /\ \A c \in Calls : at[c] \in {"commit", "edge"} => LegalBatch(sent[c], Shown[seen[c]], way[c])
    /\ \A o \in records \cup edge : o.by \in Calls /\ at[o.by] \in {"edge", "over"}

IInv == Typed /\ Compared /\ SourceDataSacred

-----------------------------------------------------------------------------
(* The previews, and the edit rules.                                       *)

LEMMA SomeShown == ASSUME LegalConstants PROVE \E n \in Nat : n # 0 /\ n = Len(Shown)
<1>1. Len(Shown) \in Nat \ {0}
  BY Zenon DEF LegalConstants
<1> HIDE DEF LegalConstants
<1> DEFINE n == Len(Shown)
<1>2. n \in Nat /\ n # 0 /\ n = Len(Shown)
  BY <1>1, Zenon
<1> QED
  BY <1>2, Zenon

\* What the source document said, and is not doubtful, may not be changed.
LEMMA SourceIsNotEditable ==
    ASSUME NEW prov \in SourceProvenance, NEW conf, conf # "low" PROVE ~Editable(prov, conf)
  BY DEF SourceProvenance, Editable, Unmarked, EditableProvenance

\* A legal row is a row of the preview that keeps what the source said.
LEMMA LegalRowKeepsSource ==
    ASSUME NEW r, NEW p, NEW d, LegalRow(r, p, d), Id(p) \notin {"", "absent"}
    PROVE  Id(p) = Id(r) /\ KeepsSource(r, p)
<1>1. Same(r.f["invoice_id"], p.f["invoice_id"])
  BY DEF LegalRow, LegalFields, MayChange, Fields, Never
<1>2. Id(p) = Id(r)
  BY <1>1 DEF Same, Normal, Id
<1>3. ASSUME NEW x \in Fields \ Always, p.prov[x] \in SourceProvenance, p.conf # "low"
      PROVE  Same(r.f[x], p.f[x])
  BY <1>3, SourceIsNotEditable DEF LegalRow, LegalFields, MayChange
<1>4. Len(r.items) = Len(p.items)
  BY DEF LegalRow, LegalItems
<1>5. ASSUME NEW i \in 1..Len(r.items), NEW x \in ItemFields,
             p.items[i].prov[x] \in SourceProvenance, p.items[i].conf # "low"
      PROVE  Same(r.items[i].f[x], p.items[i].f[x])
  BY <1>5, SourceIsNotEditable DEF LegalRow, LegalItems, MayChangeItem
<1> QED
  BY <1>2, <1>3, <1>4, <1>5 DEF KeepsSource

LEMMA SeenWasShown ==
    ASSUME LegalConstants, IInv, NEW c \in Calls, at[c] \in {"check", "commit", "edge"}
    PROVE  seen[c] \in 1..current /\ seen[c] \in 1..Len(Shown)
<1>1. seen[c] \in 1..current
  BY DEF IInv, Compared
<1>2. PICK n \in Nat : n # 0 /\ n = Len(Shown)
  BY SomeShown
<1>3. current \in 1..n
  BY <1>2, Zenon DEF IInv, Typed
<1>4. seen[c] \in 1..n
  BY <1>1, <1>2, <1>3
<1> QED
  BY <1>1, <1>2, <1>4, Zenon

\* The batch of a call that was found legal is what one preview shows.
LEMMA ComparedKeeps ==
    ASSUME LegalConstants, IInv, NEW c \in Calls, at[c] \in {"commit", "edge"}
    PROVE  \E v \in 1..current : Kept(c, v)
<1> DEFINE v == seen[c]
<1>1. v \in 1..current /\ v \in 1..Len(Shown)
  BY SeenWasShown
<1>2. LegalBatch(sent[c], Shown[v], way[c])
  BY DEF IInv, Compared
<1> HIDE DEF v
<1>3. ASSUME NEW i \in 1..Len(sent[c])
      PROVE  Id(sent[c][i]) = Id(Shown[v][i]) /\ KeepsSource(sent[c][i], Shown[v][i])
  <2>1. i \in 1..Len(Shown[v]) /\ LegalRow(sent[c][i], Shown[v][i], way[c])
    BY <1>2 DEF LegalBatch
  <2>2. Id(Shown[v][i]) \notin {"", "absent"}
    BY <1>1, <2>1, Zenon DEF LegalConstants
  <2> QED
    BY <2>1, <2>2, LegalRowKeepsSource
<1>4. Kept(c, v)
  BY <1>2, <1>3 DEF LegalBatch, Kept
<1> QED
  BY <1>1, <1>4

-----------------------------------------------------------------------------
(* The steps.                                                              *)

LEMMA InitHolds == ASSUME LegalConstants PROVE Init => IInv
<1> SUFFICES ASSUME Init PROVE IInv
  OBVIOUS
<1>1. current \in 1..Len(Shown) /\ 0 \in Nat
  <2>1. PICK n \in Nat : n # 0 /\ n = Len(Shown)
    BY SomeShown
  <2>2. 1 \in 1..n /\ 0 \in Nat
    BY <2>1
  <2> QED
    BY <2>1, <2>2, Zenon DEF Init
<1>2. Typed
  BY <1>1 DEF Init, Typed
<1>3. Compared
  BY DEF Init, Compared
<1>4. SourceDataSacred
  BY DEF Init, SourceDataSacred
<1> QED
  BY <1>2, <1>3, <1>4 DEF IInv

\* Steps of a call that put nothing anywhere.
LEMMA CheckingKeeps ==
    ASSUME LegalConstants, IInv, NEW c \in Calls,
           \/ Arrive(c) \/ FetchPreview(c) \/ NoPreview(c) \/ Refuse(c) \/ QrRaises(c) \/ Accept(c)
           \/ CommitFails(c) \/ NoEdge(c)
    PROVE  IInv'
<1>0. /\ Typed /\ Compared /\ UNCHANGED <<current, records, edge>>
      /\ at[c] \in {"new", "fetch", "check", "commit", "edge"}
  BY DEF IInv, Arrive, FetchPreview, NoPreview, Refuse, QrRaises, Accept, CommitFails, NoEdge, dbVars
<1>1. SourceDataSacred'
  <2>1. \A d \in Calls : at[d] \in {"edge", "over"} => sent'[d] = sent[d]
    BY <1>0 DEF Arrive, FetchPreview, NoPreview, Refuse, QrRaises, Accept, CommitFails, NoEdge,
                Goto, Answer, Typed
  <2>2. \A o \in records \cup edge : sent'[o.by] = sent[o.by]
    BY <1>0, <2>1 DEF Compared
  <2> QED
    BY <1>0, <2>2 DEF IInv, SourceDataSacred, Kept
<1>2. CASE Arrive(c)
  <2>1. PICK b \in Submissions, d \in Directions, s \in ServiceIds :
          /\ sent' = [sent EXCEPT ![c] = b] /\ way' = [way EXCEPT ![c] = d]
          /\ service' = [service EXCEPT ![c] = s]
    BY <1>2 DEF Arrive
  <2>2. at' = [at EXCEPT ![c] = "fetch"] /\ UNCHANGED seen /\ at[c] = "new"
    BY <1>2 DEF Arrive
  <2>3. Typed'
    BY <1>0, <2>1, <2>2 DEF Typed
  <2>4. Compared'
    BY <1>0, <2>1, <2>2 DEF Typed, Compared
  <2> QED
    BY <1>1, <2>3, <2>4 DEF IInv
<1>3. CASE FetchPreview(c)
  <2>1. /\ at[c] = "fetch" /\ at' = [at EXCEPT ![c] = "check"] /\ UNCHANGED <<sent, way, service>>
        /\ seen' = [seen EXCEPT ![c] = current]
    BY <1>3 DEF FetchPreview, Goto
  <2>2. current \in Nat /\ current \in 1..current
    <3>1. PICK n \in Nat : n # 0 /\ n = Len(Shown)
      BY SomeShown
    <3>2. current \in 1..n
      BY <1>0, <3>1, Zenon DEF Typed
    <3> QED
      BY <3>1, <3>2
  <2>3. Typed'
    BY <1>0, <2>1, <2>2 DEF Typed
  <2>4. Compared'
    BY <1>0, <2>1, <2>2 DEF Typed, Compared
  <2> QED
    BY <1>1, <2>3, <2>4 DEF IInv
<1>4. CASE NoPreview(c) \/ Refuse(c) \/ QrRaises(c) \/ CommitFails(c) \/ NoEdge(c)
  <2>1. at' = [at EXCEPT ![c] = "over"] /\ UNCHANGED <<sent, way, service, seen>>
    BY <1>4 DEF NoPreview, Refuse, QrRaises, CommitFails, NoEdge, Answer
  <2>2. Typed'
    BY <1>0, <2>1 DEF Typed
  <2>3. Compared'
    BY <1>0, <2>1 DEF Typed, Compared
  <2> QED
    BY <1>1, <2>2, <2>3 DEF IInv
<1>5. CASE Accept(c)
  <2>1. /\ LegalBatch(sent[c], Shown[seen[c]], way[c]) /\ at[c] = "check"
        /\ at' = [at EXCEPT ![c] = "commit"] /\ UNCHANGED <<sent, way, service, seen>>
    BY <1>5 DEF Accept, Verdict, Goto
  <2>2. Typed'
    BY <1>0, <2>1 DEF Typed
  <2>3. Compared'
    BY <1>0, <2>1 DEF Typed, Compared
  <2> QED
    BY <1>1, <2>2, <2>3 DEF IInv
<1> QED
  BY <1>2, <1>3, <1>4, <1>5

\* What is committed or submitted is of a batch that was compared.
LEMMA WritingKeeps ==
    ASSUME LegalConstants, IInv, NEW c \in Calls,
           Commit(c) \/ CommitUnheard(c) \/ EdgeAccepts(c) \/ EdgeFails(c)
    PROVE  IInv'
<1>0. /\ Typed /\ Compared /\ UNCHANGED <<current, seen, sent, way, service>>
      /\ at[c] \in {"commit", "edge"}
  BY DEF IInv, Commit, CommitUnheard, Written, EdgeAccepts, EdgeFails, Goto, Answer
<1>1. \A o \in records' \cup edge' :
         o \in records \cup edge \/ (o.by = c /\ o.row \in RowsOf(sent[c]))
  <2>1. \A o \in Made(c) : o.by = c /\ o.row \in RowsOf(sent[c])
    BY DEF Made
  <2>2. \A o \in records' \cup edge' : o \in records \cup edge \cup Made(c)
    BY DEF Commit, CommitUnheard, Written, EdgeAccepts, EdgeFails, Inserted, dbVars
  <2> QED
    BY <2>1, <2>2
<1>2. SourceDataSacred'
  <2>1. \E v \in 1..current : Kept(c, v)
    BY <1>0, ComparedKeeps
  <2> QED
    BY <1>0, <1>1, <2>1 DEF IInv, SourceDataSacred, Kept
<1>3. at' = [at EXCEPT ![c] = "over"] \/ (at[c] = "commit" /\ at' = [at EXCEPT ![c] = "edge"])
  BY DEF Commit, CommitUnheard, EdgeAccepts, EdgeFails, Goto, Answer
<1>4. Typed'
  BY <1>0, <1>3 DEF Typed
<1>5. Compared'
  BY <1>0, <1>1, <1>3 DEF Typed, Compared
<1> QED
  BY <1>2, <1>4, <1>5 DEF IInv

LEMMA StepKeeps == ASSUME LegalConstants PROVE IInv /\ [Next]_vars => IInv'
<1> SUFFICES ASSUME IInv, [Next]_vars PROVE IInv'
  OBVIOUS
<1>1. ASSUME NEW c \in Calls, Step(c) PROVE IInv'
  BY <1>1, CheckingKeeps, WritingKeeps DEF Step
<1>2. CASE Reprocess
  <2>1. /\ current' = current + 1 /\ current < Len(Shown)
        /\ UNCHANGED <<at, sent, way, service, seen, records, edge>>
    BY <1>2 DEF Reprocess, callVars, dbVars
  <2>2. current' \in 1..Len(Shown) /\ \A v \in 1..current : v \in 1..current'
    <3>1. PICK n \in Nat : n # 0 /\ n = Len(Shown)
      BY SomeShown
    <3>2. current \in 1..n /\ current' = current + 1 /\ current < n
      BY <2>1, <3>1, Zenon DEF IInv, Typed
    <3>3. current' \in 1..n /\ \A v \in 1..current : v \in 1..current'
      BY <3>1, <3>2
    <3> QED
      BY <3>1, <3>3, Zenon
  <2>3. Typed' /\ Compared'
    BY <2>1, <2>2 DEF IInv, Typed, Compared
  <2>4. SourceDataSacred'
    BY <2>1, <2>2 DEF IInv, SourceDataSacred, Kept
  <2> QED
    BY <2>3, <2>4 DEF IInv
<1>3. CASE Crash
  <2>1. /\ at' = [c \in Calls |-> IF c \in InFlight THEN "over" ELSE at[c]]
        /\ UNCHANGED <<sent, way, service, seen, current, records, edge>>
    BY <1>3 DEF Crash, dbVars
  <2> QED
    BY <2>1 DEF IInv, Typed, Compared, SourceDataSacred, Kept
<1>4. CASE UNCHANGED vars
  BY <1>4 DEF vars, callVars, dbVars, IInv, Typed, Compared, SourceDataSacred, Kept
<1> QED
  BY <1>1, <1>2, <1>3, <1>4 DEF Next

\* What reached the tables or Edge is of a batch that is one preview as a
\* whole, changed only where the source was missing, enriched or doubtful
\* (EditValidator.validate between HeartBeatClient.get_preview and
\* RecordCreator.commit_batch).
THEOREM SourceSurvives == ASSUME LegalConstants PROVE Spec => []SourceDataSacred
<1>1. Init => IInv
  BY InitHolds
<1>2. IInv /\ [Next]_vars => IInv'
  BY StepKeeps
<1>3. IInv => SourceDataSacred
  BY DEF IInv
<1> QED
  BY <1>1, <1>2, <1>3, PTL DEF Spec

-----------------------------------------------------------------------------
(***************************************************************************)
(* What is told is true.                                                   *)
(***************************************************************************)

\* An invoice that was previewed, with the number and date it had there, and
\* the IRN that is made of them and of the service of its call.
Genuine(o) ==
    /\ o.irn = Irn(o.row, service[o.by]) /\ o.irn # NoIrn
    /\ \E v \in 1..Len(Shown) : \E i \in 1..Len(Shown[v]) :
          /\ Id(Shown[v][i]) = Id(o.row)
          /\ Shown[v][i].f["invoice_number"] = o.row.f["invoice_number"]
          /\ Shown[v][i].f["issue_date"] = o.row.f["issue_date"]

\* A batch that may be committed has genuine invoices, each once.
Sound(c) == /\ \A o \in Made(c) : Genuine(o)
            /\ \A o, p \in Made(c) : Id(o.row) = Id(p.row) => o = p

\* What was found legal is sound; what committed has its invoices in the
\* tables; the tables and Edge hold what committed calls made; and Edge has
\* the batch of a call that was answered with success, if there is an Edge,
\* and nothing of one that was refused.
Accounted ==
    /\ answer \in [Calls -> {"none", "ok", "unknown_batch", "refused", "raised", "lost"}]
    /\ \A c \in Calls : at[c] \in {"commit", "edge"} => Sound(c)
    /\ \A c \in Calls : at[c] = "edge" => c \in committed
    /\ \A c \in committed : /\ c \in Calls /\ at[c] \in {"edge", "over"}
                            /\ Sound(c) /\ Ids(Made(c)) \subseteq Ids(records)
    /\ \A o \in records \cup edge : o.by \in committed /\ o \in Made(o.by)
    /\ \A o \in edge : at[o.by] = "over" /\ answer[o.by] \in {"ok", "raised"}
    /\ \A c \in Calls : answer[c] = "ok" =>
          at[c] = "over" /\ c \in committed /\ (edgeClient => Made(c) \subseteq edge)

ToldInv == IInv /\ Accounted /\ OneRecordPerInvoice

\* What the calls that have committed keep keeps the account, if none of
\* them is answered otherwise.
LEMMA StillAccounted ==
    ASSUME ToldInv, UNCHANGED <<records, committed, edge, edgeClient>>,
           answer' \in [Calls -> {"none", "ok", "unknown_batch", "refused", "raised", "lost"}],
           \A c \in committed : /\ sent'[c] = sent[c] /\ service'[c] = service[c]
                                /\ at'[c] = at[c] \/ (at[c] = "edge" /\ at'[c] = "over"),
           \A c \in Calls : at'[c] \in {"commit", "edge"} => Sound(c)',
           \A c \in Calls : at'[c] = "edge" => at[c] = "edge",
           \A c \in Calls : at[c] = "over" => answer'[c] = answer[c],
           \A c \in Calls : answer'[c] = "ok" =>
              \/ answer[c] = "ok"
              \/ c \in committed /\ at'[c] = "over" /\ (edgeClient => Made(c) \subseteq edge)
    PROVE  Accounted' /\ OneRecordPerInvoice'
<1> USE DEF ToldInv
<1>1. \A c \in committed : Made(c)' = Made(c) /\ (Sound(c) => Sound(c)')
  <2>1. ASSUME NEW c \in committed PROVE Made(c)' = Made(c)
    BY DEF Made
  <2>2. ASSUME NEW c \in committed, Sound(c) PROVE Sound(c)'
    <3>1. \A o \in Made(c) : o.by = c
      BY DEF Made
    <3>2. \A o \in Made(c) : Genuine(o)'
      BY <2>2, <3>1 DEF Sound, Genuine
    <3> QED
      BY <2>1, <2>2, <3>2 DEF Sound
  <2> QED
    BY <2>1, <2>2
<1>2. \A c \in committed : c \in Calls
  BY DEF Accounted
<1>3. \A c \in Calls : at'[c] = "edge" => c \in committed'
  BY DEF Accounted
<1>4. \A c \in committed' : /\ c \in Calls /\ at'[c] \in {"edge", "over"}
                            /\ Sound(c)' /\ Ids(Made(c))' \subseteq Ids(records)'
  <2> SUFFICES ASSUME NEW c \in committed
               PROVE  /\ c \in Calls /\ at'[c] \in {"edge", "over"}
                      /\ Sound(c)' /\ Ids(Made(c))' \subseteq Ids(records)'
    OBVIOUS
  <2>1. c \in Calls /\ at[c] \in {"edge", "over"} /\ Sound(c) /\ Ids(Made(c)) \subseteq Ids(records)
    BY DEF Accounted
  <2>2. Ids(Made(c))' = Ids(Made(c)) /\ Ids(records)' = Ids(records)
    BY <1>1 DEF Ids
  <2> QED
    BY <1>1, <2>1, <2>2
<1>5. \A o \in records' \cup edge' : o.by \in committed' /\ o \in Made(o.by)'
  BY <1>1 DEF Accounted
<1>6. \A o \in edge' : at'[o.by] = "over" /\ answer'[o.by] \in {"ok", "raised"}
  <2> SUFFICES ASSUME NEW o \in edge
               PROVE  at'[o.by] = "over" /\ answer'[o.by] \in {"ok", "raised"}
    OBVIOUS
  <2>1. o.by \in committed /\ at[o.by] = "over" /\ answer[o.by] \in {"ok", "raised"}
    BY DEF Accounted
  <2> QED
    BY <1>2, <2>1
<1>7. \A c \in Calls : answer'[c] = "ok" =>
         at'[c] = "over" /\ c \in committed' /\ (edgeClient' => Made(c)' \subseteq edge')
  <2> SUFFICES ASSUME NEW c \in Calls, answer'[c] = "ok"
               PROVE  at'[c] = "over" /\ c \in committed /\ (edgeClient => Made(c)' \subseteq edge)
    OBVIOUS
  <2>1. CASE answer[c] = "ok"
    BY <1>1, <2>1 DEF Accounted
  <2>2. CASE answer[c] # "ok"
    BY <1>1, <2>2
  <2> QED
    BY <2>1, <2>2
<1>8. Accounted'
  BY <1>3, <1>4, <1>5, <1>6, <1>7 DEF Accounted
<1>9. OneRecordPerInvoice'
  BY DEF OneRecordPerInvoice
<1> QED
  BY <1>8, <1>9

\* One invoice finalized under one service has one IRN.
LEMMA GenuineAgree ==
    ASSUME LegalConstants, NEW o, NEW p, Genuine(o), Genuine(p), Id(o.row) = Id(p.row),
           service[o.by] = service[p.by]
    PROVE  o.irn = p.irn
<1> DEFINE Shows(x, v, i) == /\ Id(Shown[v][i]) = Id(x.row)
                             /\ Shown[v][i].f["invoice_number"] = x.row.f["invoice_number"]
                             /\ Shown[v][i].f["issue_date"] = x.row.f["issue_date"]
<1>1. PICK v \in 1..Len(Shown) : \E i \in 1..Len(Shown[v]) : Shows(o, v, i)
  BY DEF Genuine
<1>1a. PICK i \in 1..Len(Shown[v]) : Shows(o, v, i)
  BY <1>1
<1>2. PICK w \in 1..Len(Shown) : \E j \in 1..Len(Shown[w]) : Shows(p, w, j)
  BY DEF Genuine
<1>2a. PICK j \in 1..Len(Shown[w]) : Shows(p, w, j)
  BY <1>2
<1>3. Id(Shown[v][i]) = Id(Shown[w][j])
  BY <1>1a, <1>2a, Zenon
<1>4. /\ Shown[v][i].f["invoice_number"] = Shown[w][j].f["invoice_number"]
      /\ Shown[v][i].f["issue_date"] = Shown[w][j].f["issue_date"]
  <2>1. \A x, y \in 1..Len(Shown) : \A k \in 1..Len(Shown[x]), l \in 1..Len(Shown[y]) :
          Id(Shown[x][k]) = Id(Shown[y][l])
             => /\ Shown[x][k].f["invoice_number"] = Shown[y][l].f["invoice_number"]
                /\ Shown[x][k].f["issue_date"] = Shown[y][l].f["issue_date"]
    BY Zenon DEF LegalConstants
  <2>2. v \in 1..Len(Shown) /\ w \in 1..Len(Shown) /\ i \in 1..Len(Shown[v]) /\ j \in 1..Len(Shown[w])
    OBVIOUS
  <2> QED
    BY <1>3, <2>1, <2>2, Zenon
<1>5. o.row.f["invoice_number"] = p.row.f["invoice_number"] /\ o.row.f["issue_date"] = p.row.f["issue_date"]
  BY <1>1a, <1>2a, <1>4, Zenon
<1>6. Parts(o.row, service[o.by]) = Parts(p.row, service[p.by])
  BY <1>5, Zenon DEF Parts
<1>7. Irn(o.row, service[o.by]) = Irn(p.row, service[p.by])
  BY <1>6, Zenon DEF Irn
<1> QED
  BY <1>7, Zenon DEF Genuine

\* What a legal row gives to its IRN, if one can be made, is that of the preview.
LEMMA LegalRowKeepsParts ==
    ASSUME LegalConstants, NEW r, NEW p, NEW d, LegalRow(r, p, d), NEW s, Irn(r, s) # NoIrn
    PROVE  /\ p.f["invoice_number"] = r.f["invoice_number"]
           /\ p.f["issue_date"] = r.f["issue_date"]
<1> DEFINE a(x) == r.f[x]
           b(x) == p.f[x]
<1>1. Same(a("invoice_number"), b("invoice_number")) /\ Same(a("issue_date"), b("issue_date"))
  BY DEF LegalRow, LegalFields, MayChange, Fields, Never
<1>2. a("invoice_number") \notin {"", "absent"} /\ a("issue_date") \notin {"", "absent"}
  <2>1. <<a("invoice_number"), s, a("issue_date")>> \in DOMAIN IrnOf
    BY Zenon DEF Irn, Parts
  <2>2. \A t \in DOMAIN IrnOf : {t[1], t[3]} \cap {"", "absent"} = {}
    BY Zenon DEF LegalConstants
  <2> HIDE DEF a, b
  <2> QED
    BY <2>1, <2>2
<1> QED
  BY <1>1, <1>2 DEF Same, Normal

LEMMA AcceptedIsSound ==
    ASSUME LegalConstants, IInv, NEW c \in Calls, at[c] = "check", Verdict(c) = "accept"
    PROVE  Sound(c)
<1> DEFINE v == seen[c]
<1>1. v \in 1..current /\ v \in 1..Len(Shown)
  BY SeenWasShown
<1>1a. LegalBatch(sent[c], Shown[v], way[c]) /\ Numbered(c)
  BY DEF Verdict
<1> HIDE DEF v
<1>3. ASSUME NEW r \in RowsOf(sent[c])
      PROVE  \E i \in 1..Len(Shown[v]) : i \in 1..Len(sent[c]) /\ r = sent[c][i] /\ LegalRow(r, Shown[v][i], way[c])
  BY <1>1a DEF RowsOf, LegalBatch
<1>4. ASSUME NEW i \in 1..Len(Shown[v]), NEW r, LegalRow(r, Shown[v][i], way[c])
      PROVE  Id(Shown[v][i]) = Id(r)
  <2>1. Id(Shown[v][i]) \notin {"", "absent"}
    BY <1>1, Zenon DEF LegalConstants
  <2> QED
    BY <1>4, <2>1, LegalRowKeepsSource
<1>5. ASSUME NEW o \in Made(c)
      PROVE  o.row \in RowsOf(sent[c]) /\ o.irn = Irn(o.row, service[c]) /\ o.by = c
  BY DEF Made
<1>6. ASSUME NEW o \in Made(c) PROVE Genuine(o)
  <2>1. PICK i \in 1..Len(Shown[v]) : LegalRow(o.row, Shown[v][i], way[c])
    BY <1>3, <1>5
  <2>2. o.irn # NoIrn /\ Irn(o.row, service[c]) # NoIrn
    BY <1>1a, <1>5 DEF Numbered
  <2>3. Id(Shown[v][i]) = Id(o.row)
    BY <1>4, <2>1
  <2>4. /\ Shown[v][i].f["invoice_number"] = o.row.f["invoice_number"]
        /\ Shown[v][i].f["issue_date"] = o.row.f["issue_date"]
    BY <2>1, <2>2, LegalRowKeepsParts
  <2> QED
    BY <1>1, <1>5, <2>2, <2>3, <2>4, Zenon DEF Genuine
<1>7. ASSUME NEW r \in RowsOf(sent[c]), NEW s \in RowsOf(sent[c]), Id(r) = Id(s) PROVE r = s
  <2>1. PICK i \in 1..Len(Shown[v]) : r = sent[c][i] /\ LegalRow(r, Shown[v][i], way[c])
    BY <1>3
  <2>2. PICK j \in 1..Len(Shown[v]) : s = sent[c][j] /\ LegalRow(s, Shown[v][j], way[c])
    BY <1>3
  <2>3. Id(Shown[v][i]) = Id(Shown[v][j])
    BY <1>4, <1>7, <2>1, <2>2
  <2>4. i = j
    BY <1>1, <2>3, Zenon DEF LegalConstants
  <2> QED
    BY <2>1, <2>2, <2>4
<1>8. \A o, p \in Made(c) : Id(o.row) = Id(p.row) => o = p
  <2> SUFFICES ASSUME NEW o \in Made(c), NEW p \in Made(c), Id(o.row) = Id(p.row) PROVE o = p
    OBVIOUS
  <2>1. o.row = p.row
    BY <1>5, <1>7
  <2> QED
    BY <2>1 DEF Made
<1> QED
  BY <1>6, <1>8 DEF Sound

\* Steps of a call before its commit, and a commit that is rolled back.
LEMMA CheckingAccounts ==
    ASSUME LegalConstants, ToldInv, NEW c \in Calls,
           \/ Arrive(c) \/ FetchPreview(c) \/ NoPreview(c) \/ Refuse(c) \/ QrRaises(c) \/ Accept(c)
           \/ CommitFails(c)
    PROVE  Accounted' /\ OneRecordPerInvoice'
<1> USE DEF ToldInv
<1> DEFINE A == {"none", "ok", "unknown_batch", "refused", "raised", "lost"}
<1>0. /\ UNCHANGED <<records, committed, edge, edgeClient>> /\ at[c] \in {"new", "fetch", "check", "commit"}
      /\ answer \in [Calls -> A] /\ Typed
  BY DEF Arrive, FetchPreview, NoPreview, Refuse, QrRaises, Accept, CommitFails, dbVars, Accounted, IInv
<1>1. c \notin committed /\ (\A d \in committed : d \in Calls /\ d # c)
  BY <1>0 DEF Accounted
<1>2. /\ \A d \in Calls : d # c => /\ sent'[d] = sent[d] /\ service'[d] = service[d]
                                   /\ at'[d] = at[d] /\ answer'[d] = answer[d]
      /\ answer' \in [Calls -> A] /\ answer'[c] \in {answer[c], "unknown_batch", "refused", "raised"}
      /\ at'[c] \in {"fetch", "check", "commit", "over"}
      /\ at'[c] = "commit" => /\ at[c] = "check" /\ Verdict(c) = "accept"
                              /\ sent'[c] = sent[c] /\ service'[c] = service[c]
  <2>1. CASE Arrive(c)
    BY <1>0, <2>1 DEF Arrive, Typed
  <2>2. CASE FetchPreview(c) \/ Accept(c)
    BY <1>0, <2>2 DEF FetchPreview, Accept, Goto, Typed
  <2>3. CASE NoPreview(c) \/ Refuse(c) \/ QrRaises(c) \/ CommitFails(c)
    <3>1. /\ UNCHANGED <<sent, service>> /\ at' = [at EXCEPT ![c] = "over"]
          /\ \E a \in {"unknown_batch", "refused", "raised"} : answer' = [answer EXCEPT ![c] = a]
      BY <2>3 DEF NoPreview, Refuse, QrRaises, CommitFails, Answer
    <3> HIDE <2>3
    <3>2. /\ answer'[c] \in {answer[c], "unknown_batch", "refused", "raised"}
          /\ \A d \in Calls : d # c => answer'[d] = answer[d]
          /\ answer' \in [Calls -> A]
      BY <1>0, <3>1
    <3>3. at'[c] = "over" /\ \A d \in Calls : d # c => at'[d] = at[d]
      BY <1>0, <3>1 DEF Typed
    <3> QED
      BY <3>1, <3>2, <3>3
  <2> QED
    BY <2>1, <2>2, <2>3
<1>3. ASSUME NEW d \in Calls, at'[d] \in {"commit", "edge"} PROVE Sound(d)'
  <2>1. Sound(d) /\ sent'[d] = sent[d] /\ service'[d] = service[d]
    <3>1. CASE d = c
      BY <1>2, <1>3, <3>1, AcceptedIsSound
    <3>2. CASE d # c
      BY <1>2, <1>3, <3>2 DEF Accounted
    <3> QED
      BY <3>1, <3>2
  <2>2. Made(d)' = Made(d)
    BY <2>1 DEF Made
  <2>3. \A o \in Made(d) : Genuine(o)'
    BY <2>1 DEF Sound, Genuine, Made
  <2> QED
    BY <2>1, <2>2, <2>3 DEF Sound
<1>4. \A d \in Calls : at[d] = "over" => answer'[d] = answer[d]
  BY <1>0, <1>2
<1>5. \A d \in Calls : at'[d] = "edge" => at[d] = "edge"
  BY <1>2
<1>6. \A d \in Calls : answer'[d] = "ok" => answer[d] = "ok"
  BY <1>2
<1>7. \A d \in committed : sent'[d] = sent[d] /\ service'[d] = service[d] /\ at'[d] = at[d]
  BY <1>1, <1>2
<1> QED
  BY <1>0, <1>2, <1>3, <1>4, <1>5, <1>6, <1>7, StillAccounted

\* A commit without a clash adds invoices and numbers that are not there.
LEMMA CommitAccounts ==
    ASSUME LegalConstants, ToldInv, NEW c \in Calls, Commit(c) \/ CommitUnheard(c)
    PROVE  Accounted' /\ OneRecordPerInvoice'
<1> USE DEF ToldInv
<1> DEFINE A == {"none", "ok", "unknown_batch", "refused", "raised", "lost"}
<1>0. /\ at[c] = "commit" /\ ~Clash(c) /\ records' = records \cup Inserted(c)
      /\ committed' = committed \cup {c} /\ UNCHANGED <<sent, service, edge, edgeClient>>
      /\ at'[c] \in {"edge", "over"} /\ \A d \in Calls : d # c => at'[d] = at[d] /\ answer'[d] = answer[d]
      /\ answer'[c] \in {answer[c], "refused"} /\ answer' \in [Calls -> A]
  <2>1. answer \in [Calls -> A] /\ Typed
    BY DEF Accounted, IInv
  <2>2. CASE Commit(c)
    BY <2>1, <2>2 DEF Commit, Written, Goto, Typed
  <2>3. CASE CommitUnheard(c)
    BY <2>1, <2>3 DEF CommitUnheard, Written, Answer, Typed
  <2> QED
    BY <2>2, <2>3
<1>1. Sound(c) /\ c \notin committed
  BY <1>0 DEF Accounted
<1>1a. \A d : Made(d)' = Made(d) /\ (Sound(d) => Sound(d)')
  <2>1. \A d : Made(d)' = Made(d)
    BY <1>0 DEF Made
  <2>2. \A o : Genuine(o) => Genuine(o)'
    BY <1>0 DEF Genuine
  <2> QED
    BY <2>1, <2>2 DEF Sound
<1>2. Ids(Made(c)) \subseteq Ids(records') /\ Ids(records) \subseteq Ids(records')
  BY <1>0 DEF Inserted, Ids
<1>3. \A o \in Inserted(c) : o \in Made(c) /\ o.by = c /\ Id(o.row) \notin Ids(records)
  BY DEF Inserted, Made
<1>4. \A o \in edge : o.by # c
  BY <1>1 DEF Accounted
<1>5. Accounted'
  <2>1. \A d \in Calls : at'[d] \in {"commit", "edge"} => Sound(d)'
    BY <1>0, <1>1, <1>1a DEF Accounted
  <2>2. \A d \in Calls : at'[d] = "edge" => d \in committed'
    BY <1>0 DEF Accounted
  <2>3. \A d \in committed' : /\ d \in Calls /\ at'[d] \in {"edge", "over"}
                              /\ Sound(d)' /\ Ids(Made(d))' \subseteq Ids(records)'
    <3> SUFFICES ASSUME NEW d \in committed'
                 PROVE  /\ d \in Calls /\ at'[d] \in {"edge", "over"}
                        /\ Sound(d)' /\ Ids(Made(d))' \subseteq Ids(records)'
      OBVIOUS
    <3>1. d \in Calls /\ Sound(d) /\ at'[d] \in {"edge", "over"} /\ Ids(Made(d)) \subseteq Ids(records')
      BY <1>0, <1>1, <1>2 DEF Accounted
    <3>2. Ids(Made(d))' = Ids(Made(d)) /\ Ids(records)' = Ids(records')
      BY <1>1a DEF Ids
    <3> QED
      BY <1>1a, <3>1, <3>2
  <2>4. \A o \in records' \cup edge' : o.by \in committed' /\ o \in Made(o.by)'
    BY <1>0, <1>1a, <1>3 DEF Accounted
  <2>5. \A o \in edge' : at'[o.by] = "over" /\ answer'[o.by] \in {"ok", "raised"}
    BY <1>0, <1>4 DEF Accounted
  <2>6. \A d \in Calls : answer'[d] = "ok" =>
          at'[d] = "over" /\ d \in committed' /\ (edgeClient' => Made(d)' \subseteq edge')
    BY <1>0, <1>1a DEF Accounted
  <2> QED
    BY <1>0, <2>1, <2>2, <2>3, <2>4, <2>5, <2>6 DEF Accounted
<1>6. ASSUME NEW o \in Inserted(c), NEW p \in records \cup Inserted(c),
             Id(o.row) = Id(p.row) \/ o.irn = p.irn
      PROVE  o = p
  <2>1. Id(o.row) = Id(p.row)
    BY <1>0, <1>6 DEF Clash
  <2>2. p \notin records
    BY <1>3, <2>1 DEF Ids
  <2> QED
    BY <1>1, <1>3, <2>1, <2>2 DEF Sound
<1>7. OneRecordPerInvoice'
  BY <1>0, <1>6 DEF OneRecordPerInvoice
<1> QED
  BY <1>5, <1>7

LEMMA NoEdgeAccounts ==
    ASSUME ToldInv, NEW c \in Calls, NoEdge(c)
    PROVE  Accounted' /\ OneRecordPerInvoice'
<1> USE DEF ToldInv
<1>0. /\ at[c] = "edge" /\ ~edgeClient /\ UNCHANGED <<sent, service, records, committed, edge, edgeClient>>
      /\ at' = [at EXCEPT ![c] = "over"] /\ answer' = [answer EXCEPT ![c] = "ok"]
  BY DEF NoEdge, Answer, dbVars
<1>1. at'[c] = "over" /\ c \in committed /\ \A d \in Calls : d # c => at'[d] = at[d]
  BY <1>0 DEF Accounted, IInv, Typed
<1>2. /\ \A d \in Calls : d # c => answer'[d] = answer[d]
      /\ answer' \in [Calls -> {"none", "ok", "unknown_batch", "refused", "raised", "lost"}]
  BY <1>0 DEF Accounted
<1>3. \A d \in Calls : at'[d] \in {"commit", "edge"} => Sound(d)'
  <2>1. \A d \in Calls : at'[d] \in {"commit", "edge"} => Sound(d)
    BY <1>1 DEF Accounted
  <2>2. \A d : Made(d)' = Made(d)
    BY <1>0 DEF Made
  <2>3. \A o : Genuine(o) => Genuine(o)'
    BY <1>0 DEF Genuine
  <2> QED
    BY <2>1, <2>2, <2>3 DEF Sound
<1>4. \A d \in committed : sent'[d] = sent[d] /\ service'[d] = service[d]
                           /\ (at'[d] = at[d] \/ (at[d] = "edge" /\ at'[d] = "over"))
  BY <1>0, <1>1 DEF Accounted
<1>5. \A d \in Calls : at'[d] = "edge" => at[d] = "edge"
  BY <1>1
<1>6. \A d \in Calls : at[d] = "over" => answer'[d] = answer[d]
  BY <1>0, <1>2
<1>7. \A d \in Calls : answer'[d] = "ok" =>
         \/ answer[d] = "ok"
         \/ d \in committed /\ at'[d] = "over" /\ (edgeClient => Made(d) \subseteq edge)
  BY <1>0, <1>1, <1>2
<1> QED
  BY <1>0, <1>2, <1>3, <1>4, <1>5, <1>6, <1>7, StillAccounted

LEMMA EdgeAccounts ==
    ASSUME ToldInv, NEW c \in Calls, EdgeAccepts(c) \/ EdgeFails(c)
    PROVE  Accounted' /\ OneRecordPerInvoice'
<1> USE DEF ToldInv
<1>0. /\ at[c] = "edge" /\ UNCHANGED <<sent, service, records, committed, edgeClient>>
      /\ at' = [at EXCEPT ![c] = "over"]
      /\ edge \subseteq edge' /\ edge' \subseteq edge \cup Made(c)
      /\ \/ answer' = [answer EXCEPT ![c] = "raised"]
         \/ answer' = [answer EXCEPT ![c] = "ok"] /\ Made(c) \subseteq edge'
  BY DEF EdgeAccepts, EdgeFails, Answer, dbVars
<1>1. at'[c] = "over" /\ c \in committed /\ \A d \in Calls : d # c => at'[d] = at[d]
  BY <1>0 DEF Accounted, IInv, Typed
<1>2. /\ answer'[c] = "raised" \/ (answer'[c] = "ok" /\ Made(c) \subseteq edge')
      /\ \A d \in Calls : d # c => answer'[d] = answer[d]
      /\ answer' \in [Calls -> {"none", "ok", "unknown_batch", "refused", "raised", "lost"}]
  BY <1>0 DEF Accounted
<1>2a. \A d : Made(d)' = Made(d) /\ (Sound(d) => Sound(d)')
  <2>1. \A d : Made(d)' = Made(d)
    BY <1>0 DEF Made
  <2>2. \A o : Genuine(o) => Genuine(o)'
    BY <1>0 DEF Genuine
  <2> QED
    BY <2>1, <2>2 DEF Sound
<1>2b. \A o \in Made(c) : o.by = c
  BY DEF Made
<1>3. \A d \in Calls : answer'[d] = "ok" =>
          at'[d] = "over" /\ d \in committed' /\ (edgeClient' => Made(d)' \subseteq edge')
  BY <1>0, <1>1, <1>2, <1>2a DEF Accounted
<1>4. \A o \in records' \cup edge' : o.by \in committed' /\ o \in Made(o.by)'
  BY <1>0, <1>1, <1>2a, <1>2b DEF Accounted
<1>4a. \A o \in edge' : at'[o.by] = "over" /\ answer'[o.by] \in {"ok", "raised"}
  <2> SUFFICES ASSUME NEW o \in edge' PROVE at'[o.by] = "over" /\ answer'[o.by] \in {"ok", "raised"}
    OBVIOUS
  <2>1. CASE o.by = c
    BY <1>1, <1>2, <2>1
  <2>2. CASE o.by # c
    <3>1. o \in edge /\ o.by \in Calls
      BY <1>0, <1>2b, <2>2 DEF Accounted
    <3> QED
      BY <1>1, <1>2, <2>2, <3>1 DEF Accounted
  <2> QED
    BY <2>1, <2>2
<1>5. \A d \in committed' : /\ d \in Calls /\ at'[d] \in {"edge", "over"}
                            /\ Sound(d)' /\ Ids(Made(d))' \subseteq Ids(records)'
  <2> SUFFICES ASSUME NEW d \in committed'
               PROVE  /\ d \in Calls /\ at'[d] \in {"edge", "over"}
                      /\ Sound(d)' /\ Ids(Made(d))' \subseteq Ids(records)'
    OBVIOUS
  <2>1. d \in Calls /\ Sound(d) /\ at'[d] \in {"edge", "over"} /\ Ids(Made(d)) \subseteq Ids(records)
    BY <1>0, <1>1 DEF Accounted
  <2>2. Ids(Made(d))' = Ids(Made(d)) /\ Ids(records)' = Ids(records)
    BY <1>0, <1>2a DEF Ids
  <2> QED
    BY <1>2a, <2>1, <2>2
<1>6. \A d \in Calls : /\ at'[d] \in {"commit", "edge"} => Sound(d)'
                       /\ at'[d] = "edge" => d \in committed'
  BY <1>0, <1>1, <1>2a DEF Accounted
<1>7. Accounted'
  BY <1>2, <1>3, <1>4, <1>4a, <1>5, <1>6 DEF Accounted
<1>8. OneRecordPerInvoice'
  BY <1>0 DEF OneRecordPerInvoice
<1> QED
  BY <1>7, <1>8

LEMMA ToldStep == ASSUME LegalConstants PROVE ToldInv /\ [Next]_vars => ToldInv'
<1> SUFFICES ASSUME ToldInv, [Next]_vars PROVE Accounted' /\ OneRecordPerInvoice'
  BY StepKeeps DEF ToldInv
<1>1. ASSUME NEW c \in Calls, Step(c) PROVE Accounted' /\ OneRecordPerInvoice'
  BY <1>1, CheckingAccounts, CommitAccounts, NoEdgeAccounts, EdgeAccounts DEF Step
<1>2. CASE Crash \/ Reprocess \/ UNCHANGED vars
  <2>1. /\ UNCHANGED <<sent, service, records, committed, edge, edgeClient>>
        /\ \A c \in Calls : /\ at'[c] = at[c] \/ (c \in InFlight /\ at'[c] = "over")
                            /\ answer'[c] = answer[c] \/ (c \in InFlight /\ answer'[c] = "lost")
        /\ answer' \in [Calls -> {"none", "ok", "unknown_batch", "refused", "raised", "lost"}]
    BY <1>2 DEF Crash, Reprocess, vars, callVars, dbVars, ToldInv, Accounted
  <2>2. \A c \in committed : c \in Calls /\ at[c] \in {"edge", "over"}
    BY DEF ToldInv, Accounted
  <2>3. \A d \in Calls : at'[d] \in {"commit", "edge"} => Sound(d)'
    <3>1. \A d \in Calls : at'[d] \in {"commit", "edge"} => Sound(d)
      BY <2>1 DEF ToldInv, Accounted
    <3>2. \A d : Made(d)' = Made(d)
      BY <2>1 DEF Made
    <3>3. \A o : Genuine(o) => Genuine(o)'
      BY <2>1 DEF Genuine
    <3> QED
      BY <3>1, <3>2, <3>3 DEF Sound
  <2>4. \A c \in Calls : at[c] = "over" => answer'[c] = answer[c]
    BY <2>1 DEF InFlight
  <2>5. \A c \in Calls : answer'[c] = "ok" => answer[c] = "ok"
    BY <2>1
  <2>6. \A c \in Calls : at'[c] = "edge" => at[c] = "edge"
    BY <2>1
  <2>7. \A c \in committed : sent'[c] = sent[c] /\ service'[c] = service[c]
                             /\ (at'[c] = at[c] \/ (at[c] = "edge" /\ at'[c] = "over"))
    BY <2>1, <2>2 DEF InFlight
  <2> QED
    BY <2>1, <2>3, <2>4, <2>5, <2>6, <2>7, StillAccounted
<1> QED
  BY <1>1, <1>2 DEF Next

\* Edge holds nothing that the tables do not, the two agree unless a repeat
\* changed what its batch says, an invoice has one record, a 200 means that
\* the tables and Edge have the batch, and after a 422 Edge has nothing of it:
\* through repeats under other services, clashes, crashes, a commit whose
\* answer is lost and a preview that is replaced
\* (FinalizePipeline.finalize, RecordCreator, EdgeClient).
THEOREM ToldOfABatch == ASSUME LegalConstants PROVE Spec => []ToldIsTrue
<1>1. Init => ToldInv
  <2> SUFFICES ASSUME Init PROVE ToldInv
    OBVIOUS
  <2>1. Accounted /\ OneRecordPerInvoice
    BY DEF Init, Accounted, OneRecordPerInvoice
  <2> QED
    BY <2>1, InitHolds DEF ToldInv
<1>2. ToldInv /\ [Next]_vars => ToldInv'
  BY ToldStep
<1>3. ASSUME ToldInv PROVE ToldIsTrue
  <2> USE <1>3 DEF ToldInv
  <2>1. ASSUME NEW s \in edge
        PROVE  \E r \in records : /\ Id(r.row) = Id(s.row)
                                  /\ r.by = s.by => r = s
                                  /\ service[r.by] = service[s.by] => r.irn = s.irn
    <3>1. s.by \in committed /\ s \in Made(s.by)
      BY DEF Accounted
    <3>2. Sound(s.by) /\ Ids(Made(s.by)) \subseteq Ids(records)
      BY <3>1 DEF Accounted
    <3>3. PICK r \in records : Id(r.row) = Id(s.row)
      BY <3>1, <3>2 DEF Ids
    <3>4. r.by \in committed /\ r \in Made(r.by) /\ Sound(r.by)
      BY DEF Accounted
    <3>5. r.by = s.by => r = s
      BY <3>1, <3>2, <3>3, <3>4 DEF Sound
    <3>6. Genuine(r) /\ Genuine(s)
      BY <3>1, <3>2, <3>4 DEF Sound
    <3> QED
      BY <3>3, <3>5, <3>6, GenuineAgree
  <2>2. AnswersTruthful
    <3> SUFFICES ASSUME NEW c \in Calls
        PROVE  /\ answer[c] = "ok" =>
                  /\ \A o \in Made(c) : o \in records \/ \E p \in records : Id(p.row) = Id(o.row) /\ p.by # c
                  /\ edgeClient => Made(c) \subseteq edge
               /\ (\E o \in records : o.by = c) => Ids(Made(c)) \subseteq Ids(records)
               /\ answer[c] \in {"refused", "unknown_batch"} => \A o \in edge : o.by # c
      BY DEF AnswersTruthful
    <3>1. ASSUME answer[c] = "ok", NEW o \in Made(c), o \notin records
          PROVE  \E p \in records : Id(p.row) = Id(o.row) /\ p.by # c
      <4>1. Sound(c) /\ Ids(Made(c)) \subseteq Ids(records)
        BY <3>1 DEF Accounted
      <4>2. PICK p \in records : Id(p.row) = Id(o.row)
        BY <4>1 DEF Ids
      <4>3. p \in Made(p.by)
        BY DEF Accounted
      <4> QED
        BY <3>1, <4>1, <4>2, <4>3 DEF Sound
    <3>2. answer[c] = "ok" => (edgeClient => Made(c) \subseteq edge)
      BY DEF Accounted
    <3>3. (\E o \in records : o.by = c) => Ids(Made(c)) \subseteq Ids(records)
      BY DEF Accounted
    <3>4. answer[c] \in {"refused", "unknown_batch"} => \A o \in edge : o.by # c
      BY DEF Accounted
    <3> QED
      BY <3>1, <3>2, <3>3, <3>4
  <2> QED
    BY <2>1, <2>2 DEF ToldIsTrue, EdgeOnlyCommitted
<1> QED
  BY <1>1, <1>2, <1>3, PTL DEF Spec

-----------------------------------------------------------------------------
(***************************************************************************)
(* Types.                                                                  *)
(***************************************************************************)

\* What the types say beyond the arguments above: a customer is a party of
\* a committed row, and products are counted.
Recorded ==
    /\ customers \subseteq UNION {Tins(c) : c \in committed}
    /\ \A h \in DOMAIN invoiced : invoiced[h] \in Nat
    /\ seen \in [Calls -> 0..Len(Shown)]
    /\ edgeClient \in BOOLEAN
    /\ crashes \in 0..MaxCrashes

TypeInv == ToldInv /\ Recorded

\* On how many rows of a batch a product is; on one at least, if it is named.
LEMMA CountsAreNumbers ==
    ASSUME NEW c \in Calls, sent \in [Calls -> Submissions \cup {<<>>}], NEW h
    PROVE  LET n == Cardinality({i \in 1..Len(sent[c]) : h \in Products(sent[c][i])})
           IN  /\ n \in Nat
               /\ h \in UNION {Products(r) : r \in RowsOf(sent[c])} => n - 1 \in Nat
<1> DEFINE S == {i \in 1..Len(sent[c]) : h \in Products(sent[c][i])}
<1>1. Len(sent[c]) \in Nat
  <2>1. sent[c] \in Submissions \/ sent[c] = <<>>
    OBVIOUS
  <2>2. \A b \in Submissions : Len(b) \in Nat
    BY FinalizeConstants
  <2> QED
    BY <2>1, <2>2
<1>2. IsFiniteSet(1..Len(sent[c]))
  BY <1>1, FS_Interval
<1>3. IsFiniteSet(S)
  BY <1>2, FS_Subset
<1>4. Cardinality(S) \in Nat
  BY <1>3, FS_CardinalityType
<1>5. h \in UNION {Products(r) : r \in RowsOf(sent[c])} => S # {}
  BY DEF RowsOf
<1>6. S # {} => Cardinality(S) # 0
  BY <1>3, FS_EmptySet
<1> HIDE DEF S
<1>7. h \in UNION {Products(r) : r \in RowsOf(sent[c])} => Cardinality(S) - 1 \in Nat
  BY <1>4, <1>5, <1>6
<1> QED
  BY <1>4, <1>7, Zenon DEF S

LEMMA CommitRecords ==
    ASSUME TypeInv, NEW c \in Calls, Commit(c) \/ CommitUnheard(c) PROVE Recorded'
<1>1. /\ customers' = customers \cup Counterparties(sent[c]) /\ committed' = committed \cup {c}
      /\ invoiced' = Counted(sent[c]) /\ UNCHANGED <<sent, seen, crashes, edgeClient>>
  BY DEF Commit, CommitUnheard, Written, Goto, Answer
<1>2. customers' \subseteq UNION {Tins(d)' : d \in committed'}
  <2>1. Counterparties(sent[c]) \subseteq Tins(c)
    BY DEF Counterparties, Tins
  <2>2. \A d : Tins(d)' = Tins(d)
    BY <1>1 DEF Tins
  <2> QED
    BY <1>1, <2>1, <2>2 DEF TypeInv, Recorded
<1>3. ASSUME NEW h \in DOMAIN invoiced' PROVE invoiced'[h] \in Nat
  <2> DEFINE n == Cardinality({i \in 1..Len(sent[c]) : h \in Products(sent[c][i])})
             named == UNION {Products(r) : r \in RowsOf(sent[c])}
  <2>1. n \in Nat /\ (h \in named => n - 1 \in Nat)
    BY CountsAreNumbers DEF TypeInv, ToldInv, IInv, Typed
  <2>2. h \in DOMAIN invoiced => invoiced[h] \in Nat
    BY DEF TypeInv, Recorded
  <2>3. /\ h \in DOMAIN invoiced \cup named
        /\ invoiced'[h] = IF h \notin named THEN invoiced[h]
                          ELSE IF h \in DOMAIN invoiced THEN invoiced[h] + n ELSE n - 1
    BY <1>1, <1>3, Zenon DEF Counted
  <2> HIDE DEF n, named
  <2> QED
    BY <2>1, <2>2, <2>3
<1> QED
  BY <1>1, <1>2, <1>3 DEF TypeInv, Recorded

LEMMA OthersRecord ==
    ASSUME LegalConstants, TypeInv, NEW c \in Calls, Step(c), ~Commit(c), ~CommitUnheard(c)
    PROVE  Recorded'
<1> USE DEF TypeInv, ToldInv, IInv
<1>1. UNCHANGED <<customers, invoiced, committed, current, crashes, edgeClient>>
  BY DEF Step, Arrive, FetchPreview, NoPreview, Refuse, QrRaises, Accept, CommitFails, NoEdge,
         EdgeAccepts, EdgeFails, dbVars
<1>2. \A d \in committed : sent'[d] = sent[d]
  <2>1. CASE Arrive(c)
    BY <2>1 DEF Arrive, Accounted, Typed
  <2>2. CASE ~Arrive(c)
    BY <2>2 DEF Step, FetchPreview, NoPreview, Refuse, QrRaises, Accept, CommitFails, NoEdge,
                EdgeAccepts, EdgeFails, Goto, Answer
  <2> QED
    BY <2>1, <2>2
<1>3. customers' \subseteq UNION {Tins(d)' : d \in committed'}
  <2>1. \A d \in committed : Tins(d)' = Tins(d)
    BY <1>2 DEF Tins
  <2> QED
    BY <1>1, <2>1 DEF Recorded
<1>4. seen' \in [Calls -> 0..Len(Shown)]
  <2>1. UNCHANGED seen \/ seen' = [seen EXCEPT ![c] = current]
    BY DEF Step, Arrive, FetchPreview, NoPreview, Refuse, QrRaises, Accept, CommitFails, NoEdge,
           EdgeAccepts, EdgeFails
  <2>2. PICK n \in Nat : n # 0 /\ n = Len(Shown)
    BY SomeShown
  <2>3. current \in 1..n
    BY <2>2, Zenon DEF Typed
  <2>4. current \in 0..n
    BY <2>2, <2>3
  <2>5. current \in 0..Len(Shown)
    BY <2>2, <2>4, Zenon
  <2> QED
    BY <2>1, <2>5, Zenon DEF Recorded
<1> QED
  BY <1>1, <1>3, <1>4 DEF Recorded

LEMMA StepRecords == ASSUME LegalConstants PROVE TypeInv /\ [Next]_vars => TypeInv'
<1> SUFFICES ASSUME TypeInv, [Next]_vars PROVE Recorded'
  BY StepKeeps, ToldStep DEF TypeInv, ToldInv
<1>1. ASSUME NEW c \in Calls, Step(c) PROVE Recorded'
  BY <1>1, CommitRecords, OthersRecord
<1>2. CASE Crash
  BY <1>2, FinalizeConstants DEF Crash, dbVars, TypeInv, Recorded, Tins
<1>3. CASE Reprocess \/ UNCHANGED vars
  BY <1>3 DEF Reprocess, vars, callVars, dbVars, TypeInv, Recorded, Tins
<1> QED
  BY <1>1, <1>2, <1>3 DEF Next

\* Every call, answer, customer and count of finalization has its type
\* (FinalizePipeline, RecordCreator).
THEOREM FinalizeTypes == ASSUME LegalConstants PROVE Spec => []TypeOK
<1>1. Init => TypeInv
  <2> SUFFICES ASSUME Init PROVE TypeInv
    OBVIOUS
  <2>1. Accounted /\ OneRecordPerInvoice
    BY DEF Init, Accounted, OneRecordPerInvoice
  <2>2. PICK n \in Nat : n # 0 /\ n = Len(Shown)
    BY SomeShown
  <2>3. 0 \in 0..n
    BY <2>2
  <2>4. seen \in [Calls -> 0..Len(Shown)]
    BY <2>2, <2>3, Zenon DEF Init
  <2>5. Recorded
    <3>1. customers = {} /\ DOMAIN invoiced = {} /\ crashes = 0
      BY DEF Init
    <3>2. crashes \in 0..MaxCrashes
      <4>1. MaxCrashes \in Nat
        BY FinalizeConstants, Zenon
      <4> QED
        BY <3>1, <4>1
    <3>3. \A h \in DOMAIN invoiced : invoiced[h] \in Nat
      BY <3>1
    <3>4. customers \subseteq UNION {Tins(c) : c \in committed} /\ edgeClient \in BOOLEAN
      BY <3>1 DEF Init
    <3> QED
      BY <2>4, <3>2, <3>3, <3>4 DEF Recorded
  <2> QED
    BY <2>1, <2>5, InitHolds DEF TypeInv, ToldInv
<1>2. TypeInv /\ [Next]_vars => TypeInv'
  BY StepRecords
<1>3. ASSUME TypeInv PROVE TypeOK
  BY <1>3 DEF TypeInv, ToldInv, IInv, Typed, Accounted, Recorded, TypeOK
<1> QED
  BY <1>1, <1>2, <1>3, PTL DEF Spec
=============================================================================
