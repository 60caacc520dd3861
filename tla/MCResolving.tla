---------------------------- MODULE MCResolving -----------------------------
(***************************************************************************)
(* Two customers, three names of which two are alike, and a variant of one *)
(* of the customers.                                                       *)
(***************************************************************************)
EXTENDS Resolving

Name(core, suffix) == [core |-> core, suffix |-> suffix]
MCNames   == {Name("ACME", "LTD"), Name("ACNE", ""), Name("ZENITH", "")}
MCAliases == <<[who |-> "c2", form |-> ResolverForm(Name("ZENITH", "PLC"))]>>
MCKeysOf  == [c1 |-> <<"t1", "">>, c2 |-> <<"", "r2">>]
MCAlike   == [p \in {<<a.core, b.core>> : a, b \in MCNames} |->
                 IF "ZENITH" \in {p[1], p[2]} THEN 10 ELSE 90]

Buyer(t, r, n) == [keys |-> <<t, r>>, name |-> n]
MCBatches ==
    {<<Buyer("", "", n), Buyer("t1", "", n)>> : n \in MCNames}
    \cup {<<Buyer("t9", "r2", Name("ACME", "LTD")), Buyer("", "", Name("ZENITH", ""))>>,
           <<Buyer("", "", Nameless), Buyer("t1", "", Nameless)>>}
=============================================================================
