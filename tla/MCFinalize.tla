----------------------------- MODULE MCFinalize -----------------------------
(***************************************************************************)
(* A batch of two invoices, previewed twice with different totals, and     *)
(* submissions that differ from the preview in a field, an item field or   *)
(* the number of rows, the second row being one of low confidence; what    *)
(* was sent for one preview may be compared with the other, from which it  *)
(* differs in an id and a total.                                           *)
(***************************************************************************)
EXTENDS Finalize, TLC

Line(q, h, v, prov, conf) ==
    [f |-> [quantity |-> q, product_id |-> "p1", hsn_code |-> h, vat_treatment |-> v],
     prov |-> [quantity |-> "ORIGINAL", product_id |-> "DERIVED", hsn_code |-> prov,
               vat_treatment |-> "DERIVED"],
     conf |-> conf]

Row(id, number, total, dir, buyer, due, prov, conf, lines) ==
    [f |-> [invoice_id |-> id, invoice_number |-> number, issue_date |-> "d0",
            total_amount |-> total, direction |-> dir,
            category |-> "", transaction_type |-> "B2C", seller_tin |-> "t0",
            buyer_tin |-> buyer, due_date |-> due],
     prov |-> [invoice_id |-> "DERIVED", invoice_number |-> "ORIGINAL", issue_date |-> "ORIGINAL",
               total_amount |-> "ORIGINAL", direction |-> "TENANT", category |-> "MISSING",
               transaction_type |-> "DERIVED", seller_tin |-> "TENANT",
               buyer_tin |-> "HIS", due_date |-> prov],
     conf |-> conf, items |-> lines]

Previewed(id, total) ==
    << Row(id, "n1", total, "OUTBOUND", "", "d1", "ORIGINAL", "high", <<Line("1", "h1", "v", "HIS", "high")>>),
       Row("i2", "n2", "10", "INBOUND", "t2", "d2", "ORIGINAL", "low", <<Line("1", "h1", "v", "ORIGINAL", "high")>>) >>

\* Processed again, the first invoice gets another id and another total.
MCShown == <<Previewed("i1", "10"), Previewed("j1", "20")>>

Bare(batch) == [i \in 1..Len(batch) |->
    [f |-> batch[i].f, items |-> [j \in 1..Len(batch[i].items) |-> [f |-> batch[i].items[j].f]]]]

Changed(batch, i, x) == [batch EXCEPT ![i].f[x] = "new"]
Relined(batch, i, x) == [batch EXCEPT ![i].items[1].f[x] = "new"]

\* The first is legal if the seller sends it, the next two are not, and of
\* the two made together both are.
Edits(batch) ==
    {Changed(batch, 1, "buyer_tin"), Changed(batch, 1, "due_date"), Relined(batch, 1, "quantity"),
     Relined(Changed(batch, 2, "due_date"), 1, "hsn_code")}
Shapes(batch) == {batch, Append(batch, [batch[2] EXCEPT !.f["invoice_id"] = "new"])}

MCSubmissions ==
    Edits(Bare(MCShown[1])) \cup Shapes(Bare(MCShown[1])) \cup {Bare(MCShown[2])}

\* An IRN has the number, the service and the date in it.
MCIrnOf == [t \in {"n1", "n2"} \X {"s1", "s2"} \X {"d0"} |-> t[1] \o t[2] \o t[3]]

MCSymmetry == Permutations(Calls)
=============================================================================
