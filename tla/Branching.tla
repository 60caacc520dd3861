----------------------------- MODULE Branching ------------------------------
(***************************************************************************)
(* From the rows of a parsed file to the sheets of a preview: Transformer, *)
(* the red flags, and PreviewGenerator's choice of a sheet per invoice.    *)
(*                                                                         *)
(* A row is [object, late, free, b2b]: it is a mapping, issued more than   *)
(* 48 hours ago, worth at most 0.01, or a consumer's with a buyer TIN.     *)
(* A flag is [at, severity, kind]: "at" counts invoices from 1, 0 is none. *)
(***************************************************************************)
EXTENDS Naturals, Sequences

Flag(i, severity, kind) == [at |-> i, severity |-> severity, kind |-> kind]

Blocking(flags) == {g \in flags : g.severity = "error"}

\* Parse flags keep their severity; the row they were raised at is dropped.
Unplaced(flags) == {Flag(0, g.severity, g.kind) : g \in flags}

-----------------------------------------------------------------------------
(* Transformer.                                                            *)

\* _transform_default: rows that are no mapping make no invoice.
DefaultInvoices(rows) == SelectSeq(rows, LAMBDA r : r.object)

\* The flag counts rows, where the preview will count invoices.
DefaultFlags(rows) ==
    {Flag(i, "warning", "zero_amount") : i \in {j \in 1..Len(rows) : rows[j].object /\ rows[j].free}}

\* The company's script makes an invoice of each row and judges it; what it
\* says of a row comes with the file.
Invoices(file) ==
    IF file.hlm THEN <<>> ELSE IF file.script THEN file.rows ELSE DefaultInvoices(file.rows)

\* For .hlm the pipeline does not call the transformer: nothing is raised.
Raised(file) ==
    IF file.hlm THEN {}
    ELSE Unplaced(file.parsed) \cup IF file.script THEN file.judged ELSE DefaultFlags(file.rows)

-----------------------------------------------------------------------------
(* PreviewGenerator.                                                       *)

DuplicateKinds == {"duplicate_irn", "duplicate_hash", "duplicate_suspected"}
UnusualKinds   == {"unusual_amount", "unusual_pattern"}

\* The reasons for a sheet other than "submission", the first one decides.
Priority == <<"failed", "duplicate", "late", "foc", "unusual", "possible_b2b">>

Applies(sheet, inv, flags) ==
    CASE sheet = "failed"       -> Blocking(flags) # {}
      [] sheet = "duplicate"    -> \E g \in flags : g.kind \in DuplicateKinds
      [] sheet = "late"         -> inv.late
      [] sheet = "foc"          -> inv.free
      [] sheet = "unusual"      -> \E g \in flags : g.kind \in UnusualKinds
      [] sheet = "possible_b2b" -> inv.b2b

Sheet(inv, flags) ==
    LET hit == {i \in 1..Len(Priority) : Applies(Priority[i], inv, flags)}
    IN  IF hit = {} THEN "submission"
        ELSE Priority[CHOOSE i \in hit : \A j \in hit : i <= j]

Sheets == {Priority[i] : i \in 1..Len(Priority)} \cup {"submission"}

\* The places of the invoices on each sheet.
Branch(invoices, flags) ==
    [s \in Sheets |-> {i \in 1..Len(invoices) : Sheet(invoices[i], {g \in flags : g.at = i}) = s}]
=============================================================================
