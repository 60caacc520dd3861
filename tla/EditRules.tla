----------------------------- MODULE EditRules -----------------------------
(***************************************************************************)
(* What a user may change between the preview of a batch and the batch     *)
(* that is finalized: EditValidator and the tables of provenance.py.       *)
(*                                                                         *)
(* One field stands for all the fields the tables treat alike; a row is    *)
(* [f, prov, conf, items], where only a preview row's prov and conf count. *)
(* "absent" is a key that is missing or None, which equals "".             *)
(***************************************************************************)
EXTENDS Naturals, Sequences

Never  == {"invoice_id", "invoice_number", "issue_date", "total_amount", "direction"}
Always == {"category", "transaction_type"}
Seller == {"seller_tin"}
Buyer  == {"buyer_tin"}
Fields == Never \cup Always \cup Seller \cup Buyer \cup {"due_date"}

ItemNever          == {"quantity", "product_id"}
ItemClassification == {"hsn_code"}
ItemFields         == ItemNever \cup ItemClassification \cup {"vat_treatment"}

EditableProvenance == {"MISSING", "HIS", "MANUAL"}
SourceProvenance   == {"ORIGINAL", "DERIVED", "TENANT"}
Unmarked           == "unmarked"      \* no entry in __provenance__

Normal(v)  == IF v = "absent" THEN "" ELSE v
Same(a, b) == Normal(a) = Normal(b)

\* Any other direction protects neither party.
TenantFields(direction) ==
    CASE direction = "OUTBOUND" -> Seller
      [] direction = "INBOUND"  -> Buyer
      [] OTHER                  -> {}

Counterparty(direction) ==
    IF direction = "OUTBOUND" THEN "buyer_tin" ELSE "seller_tin"

\* Seeded fault for Editable: low confidence is taken for high.
EditableUnlessLow(prov, conf) ==
    prov = Unmarked \/ prov \in EditableProvenance \/ conf # "low"

\* Without provenance everything is editable ("graceful degradation").
Editable(prov, conf) ==
    prov = Unmarked \/ prov \in EditableProvenance \/ conf = "low"

MayChange(field, shown, direction) ==
    /\ field \notin Never \cup TenantFields(direction)
    /\ field \in Always \/ Editable(shown.prov[field], shown.conf)

MayChangeItem(field, shown) ==
    field \in ItemClassification /\ Editable(shown.prov[field], shown.conf)

LegalFields(sub, shown, direction) ==
    \A x \in Fields : Same(sub.f[x], shown.f[x]) \/ MayChange(x, shown, direction)

\* Items are compared position by position.
LegalItems(sub, shown) ==
    /\ Len(sub.items) = Len(shown.items)
    /\ \A i \in 1..Len(sub.items) : \A x \in ItemFields :
          \/ Same(sub.items[i].f[x], shown.items[i].f[x])
          \/ MayChangeItem(x, shown.items[i])

\* A consumer becomes a business only with the details of the other party.
LegalType(sub, shown, direction) ==
    (shown.f["transaction_type"] = "B2C" /\ sub.f["transaction_type"] \in {"B2B", "B2G"})
       => Normal(sub.f[Counterparty(direction)]) # ""

LegalRow(sub, shown, direction) ==
    /\ LegalFields(sub, shown, direction)
    /\ LegalItems(sub, shown)
    /\ LegalType(sub, shown, direction)

\* EditValidator.validate: no violations.
LegalBatch(sub, shown, direction) ==
    /\ Len(sub) = Len(shown)
    /\ \A i \in 1..Len(sub) : LegalRow(sub[i], shown[i], direction)
=============================================================================
