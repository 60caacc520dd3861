--------------------------- MODULE MCCoreServices ---------------------------
(***************************************************************************)
(* Small instances of the components of CoreServices.  CoreServices is     *)
(* instantiated under its own names; Finalize is the batch of MCFinalize.  *)
(***************************************************************************)
EXTENDS CoreServices, MCFinalize

\* Three rows: one late, worth nothing and with the TIN of a business, one
\* that is no mapping.  The files differ in what decides the pipeline's way.
FileRow(o, l, f, b) == [object |-> o, late |-> l, free |-> f, b2b |-> b]
Sheet1 == [rows |-> <<FileRow(TRUE, FALSE, FALSE, FALSE), FileRow(FALSE, FALSE, FALSE, FALSE),
                      FileRow(TRUE, TRUE, TRUE, TRUE)>>,
           hlm |-> FALSE, script |-> FALSE, parsed |-> {}, judged |-> {}, known |-> FALSE, immediate |-> FALSE]
Kind(i, severity, kind) == [at |-> i, severity |-> severity, kind |-> kind]
MCFiles ==
    {[Sheet1 EXCEPT !.hlm = TRUE, !.immediate = TRUE],
     [Sheet1 EXCEPT !.known = TRUE, !.parsed = {Kind(2, "error", "cell")}],
     [Sheet1 EXCEPT !.script = TRUE, !.immediate = TRUE,
                    !.judged = {Kind(1, "error", "duplicate_irn"), Kind(3, "warning", "unusual_amount")}]}

\* Three names of which two are alike, and a variant of one customer.
Name(core, suffix) == [core |-> core, suffix |-> suffix]
MCNames   == {Name("ACME", "LTD"), Name("ACNE", ""), Name("ZENITH", "")}
MCAlike   == [pair \in {<<a.core, b.core>> : a, b \in MCNames} |->
                 IF "ZENITH" \in {pair[1], pair[2]} THEN 10 ELSE 90]
Variant(c, name) == <<[who |-> c, form |-> [case |-> "upper", core |-> name.core, suffix |-> ""]]>>
Named(k1, k2, n) == [keys |-> <<k1, k2>>, name |-> n]
MCBuyers ==
    {<<Named("", "", n), Named("t1", "", n)>> : n \in MCNames}
    \cup {<<Named("t9", "r2", Name("ACME", "LTD")), Named("", "", Name("", ""))>>}

MCKeysOf  == [c1 |-> <<"t1", "">>, c2 |-> <<"", "r2">>]
MCAliases == Variant("c2", Name("ACNE", ""))

\* The lines of an invoice, of which one names the SKUs of two products.
MCProductKeysOf  == [p1 |-> <<"h1", "s1">>, p2 |-> <<"h2", "">>]
MCProductAliases == Variant("p1", Name("ZENITH", ""))
MCLines          == {<<Named("h2", "s1", Name("ACNE", "")), Named("", "s1", Name("", "")),
                       Named("", "", Name("ZENITH", ""))>>}

MCBodies == {[name |-> "b"], [name |-> "a", note |-> "b"], [note |-> "a", id |-> "b"]}

\* A file whose invoices have items of each kind, and one of short invoices
\* that is longer than the slots.
Item(h, x, t) == [hs |-> h, text |-> x, type |-> t]
Bill(lines, known2) == [items |-> lines, seller |-> known2, buyer |-> known2]
MCUploads ==
    {<<Bill(<<Item("", TRUE, ""), Item("h", FALSE, "GOODS")>>, FALSE), Bill(<<Item("h", TRUE, "SERVICE")>>, TRUE)>>,
     <<Bill(<<Item("h", TRUE, "")>>, FALSE), Bill(<<Item("", TRUE, "")>>, FALSE), Bill(<<Item("", TRUE, "")>>, FALSE)>>}

\* Invoices of two companies, one overdue from the second day on; what is
\* asked: today's, and dates that are given, which are the same on the first
\* day, of one company.
NoDue == 9
Invoice(c, d, w, t, p, u) ==
    [company |-> c, day |-> d, gone |-> FALSE, workflow |-> w, transmission |-> t, payment |-> p, due |-> u]
MCInvoiceRows == {Invoice("o1", 0, "COMMITTED", "NOT_REQUIRED", "UNPAID", 0),
                  Invoice("o2", 1, "TRANSMITTED", "ACCEPTED", "PAID", NoDue)}
MCAtFirst == {[invoices |-> [i \in InvoiceIds |-> Invoice("o1", 0, "COMMITTED", "NOT_REQUIRED", "UNPAID", 0)],
               products |-> {}]}
Question(p, d, c) == [period |-> p, dates |-> d, company |-> c]
MCQuestions == {Question("today", <<>>, "all"), Question("today", <<0, 0>>, "o1")}

\* The slots of requests are alike, whatever component they are of.
CoreSymmetry == Permutations(Requests)
=============================================================================
