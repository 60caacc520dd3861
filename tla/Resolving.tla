----------------------------- MODULE Resolving ------------------------------
(***************************************************************************)
(* Resolver: which customer an invoice names.  The tables are read once    *)
(* per run, then each invoice is resolved against what was read, while the *)
(* entity API goes on writing customers.                                   *)
(*                                                                         *)
(* A customer is also found by the normalized form of its name, and each   *)
(* writer has a form of its own.  A name is [core, suffix]; a form is      *)
(* [case, core, suffix].  Keys are TIN and RC number, for a product the    *)
(* two SKUs: products are resolved in the same way, from tables read in    *)
(* the same transaction: this module with other constants.                 *)
(***************************************************************************)
EXTENDS Naturals, FiniteSets, SequencesExt

CONSTANTS
    Customers,
    Names,
    Aliases,       \* customer_name_variants, in the order read: [who, form]
    Batches,       \* the buyers of the invoices of a run: [keys, name]
    KeysOf,        \* customer -> its two keys, "" for none
    Alike,         \* <<core, core>> -> ratio, in percent
    SuffixRatio,   \* ratio of a name with and without its suffix
    MaxWrites      \* bound on writes to the table

Threshold == 85

VARIABLES
    table,         \* customer -> [state, name, form]
    known,         \* what the run has read: customer -> form, in order
    aliases,
    buyers, next, resolved,
    at,
    writes

vars == <<table, known, aliases, buyers, next, resolved, at, writes>>
job  == <<known, aliases, buyers, next, resolved, at>>

-----------------------------------------------------------------------------
(* The forms of a name.                                                    *)

\* normalize_name: upper case, without the legal suffix.
ResolverForm(n) == [case |-> "upper", core |-> n.core, suffix |-> ""]

\* _normalize_name of the entity repositories.
EntityForm(n)   == [case |-> "lower", core |-> n.core, suffix |-> n.suffix]

\* levenshtein_ratio, or difflib's: letters of different case are different.
Ratio(a, b) ==
    IF a = b THEN 100
    ELSE IF a.case # b.case THEN 0
    ELSE IF a.core = b.core THEN SuffixRatio
    ELSE Alike[<<a.core, b.core>>]

NoOne == "no one"

\* A buyer without a name, a line without a description.
Nameless == [core |-> "", suffix |-> ""]

Cores == {n.core : n \in Names}
Forms == [case : {"upper", "lower"}, core : Cores, suffix : {""} \cup {n.suffix : n \in Names}]

\* What the proofs assume of the constants: ratios are percentages, variants
\* are of customers, and buyers have names or none.
LegalConstants ==
    /\ IsFiniteSet(Customers) /\ NoOne \notin Customers /\ MaxWrites \in Nat
    /\ SuffixRatio \in 0..100 /\ Alike \in [Cores \X Cores -> 0..100]
    /\ Aliases \in Seq([who : Customers, form : Forms])
    /\ \A b \in Batches : /\ Len(b) \in Nat
                          /\ \A i \in 1..Len(b) : b[i].name \in Names \cup {Nameless}

TypeOK ==
    /\ \A c \in Customers : table[c].state \in {"live", "deleted"} /\ table[c].name \in Names
    /\ at \in {"idle", "variants", "resolving", "done", "failed"}
    /\ Len(resolved) = next - 1
    /\ \A i \in 1..Len(resolved) :
          /\ resolved[i].by \in {"key", "name", "new"}
          /\ resolved[i].by = "new" <=> resolved[i].who = NoOne
          /\ resolved[i].score \in 0..100
    /\ writes \in 0..MaxWrites

\* Customers that came out of the pipeline have the resolver's form.
Init ==
    /\ \E names \in [Customers -> Names] :
          table = [c \in Customers |-> [state |-> "live", name |-> names[c], form |-> ResolverForm(names[c])]]
    /\ known = <<>> /\ aliases = <<>> /\ buyers \in Batches /\ next = 1 /\ resolved = <<>>
    /\ at = "idle" /\ writes = 0

-----------------------------------------------------------------------------
(* The writers of the table.                                               *)

Writes(c, row) ==
    /\ writes < MaxWrites /\ writes' = writes + 1
    /\ table' = [table EXCEPT ![c] = row]
    /\ UNCHANGED job

\* PUT /entity/customer: a deleted one too.
Rename(c) ==
    \E n \in Names \ {table[c].name} :
        Writes(c, [table[c] EXCEPT !.name = n, !.form = EntityForm(n)])

Delete(c)  == table[c].state = "live"    /\ Writes(c, [table[c] EXCEPT !.state = "deleted"])
Recover(c) == table[c].state = "deleted" /\ Writes(c, [table[c] EXCEPT !.state = "live"])

-----------------------------------------------------------------------------
(* A run.                                                                  *)

Live == {c \in Customers : table[c].state = "live"}

\* Rows come in no particular order; deleted ones are left out.
LoadCustomers ==
    /\ at = "idle"
    /\ \E order \in SetToSeqs(Live) :
          known' = [i \in 1..Len(order) |-> [who |-> order[i], form |-> table[order[i]].form]]
    /\ at' = "variants"
    /\ UNCHANGED <<table, aliases, buyers, next, resolved, writes>>

\* All the variants, those of deleted customers too.
LoadVariants ==
    /\ at = "variants"
    /\ aliases' = Aliases
    /\ at' = "resolving"
    /\ UNCHANGED <<table, known, buyers, next, resolved, writes>>

\* The pipeline goes on without resolution.
LoadFails ==
    /\ at \in {"idle", "variants"}
    /\ at' = "failed"
    /\ UNCHANGED <<table, known, aliases, buyers, next, resolved, writes>>

Known == {known[i].who : i \in 1..Len(known)}

\* The first customer with the first key that is given and known.
ByKey(buyer) ==
    LET has(i, j) == buyer.keys[i] # "" /\ KeysOf[known[j].who][i] = buyer.keys[i]
        hits(i) == {j \in 1..Len(known) : has(i, j)}
        first == IF hits(1) # {} THEN hits(1) ELSE hits(2)
    IN  IF first = {} THEN NoOne ELSE known[CHOOSE j \in first : \A l \in first : j <= l].who

\* The rows in the order they are compared with a name: names, then variants.
Entries == known \o aliases

\* Entry j is nearer to the form than every entry before it.
Better(j, form) ==
    /\ Ratio(form, Entries[j].form) > 0
    /\ \A i \in 1..(j - 1) : Ratio(form, Entries[i].form) < Ratio(form, Entries[j].form)

\* Seeded fault for Owned: the owner of a variant is not looked up.
OwnedByRow(better) == {j \in better : j <= Len(known)}

\* Seeded fault for Owned: a better form of a customer that was not read
\* displaces the best one so far.
OwnedIfBestIs(better) ==
    {j \in better : Entries[j].who \in Known /\ Entries[Max(better)].who \in Known}

\* Those whose customer is among those read.
Owned(better) == {j \in better : Entries[j].who \in Known}

\* A better form counts even if its customer is not among those read, in
\* which case the best customer so far stays.
ByName(buyer) ==
    LET form   == ResolverForm(buyer.name)
        better == {j \in 1..Len(Entries) : Better(j, form)}
    IN  IF buyer.name = Nameless THEN [score |-> 0, who |-> NoOne]
        ELSE [score |-> IF better = {} THEN 0 ELSE Ratio(form, Entries[Max(better)].form),
              who   |-> IF Owned(better) = {} THEN NoOne ELSE Entries[Max(Owned(better))].who]

\* A key, a similar name, or a new customer or product; which is not added
\* to what was read, so that the next invoice makes another one.
Resolve(buyer) ==
    LET key == ByKey(buyer)  name == ByName(buyer)
    IN  IF key # NoOne THEN [by |-> "key", who |-> key, score |-> 100]
        ELSE IF name.who # NoOne /\ name.score >= Threshold
        THEN [by |-> "name", who |-> name.who, score |-> name.score]
        ELSE [by |-> "new", who |-> NoOne, score |-> 0]

ResolveNext ==
    /\ at = "resolving" /\ next <= Len(buyers)
    /\ resolved' = Append(resolved, Resolve(buyers[next]))
    /\ next' = next + 1
    /\ UNCHANGED <<table, known, aliases, buyers, at, writes>>

\* The rows of the customers sheet: each customer with its invoices, each
\* new one with the invoice it was made for.
CustomersSheet ==
    LET who(i) == IF resolved[i].by = "new" THEN <<"new", i>> ELSE <<"known", resolved[i].who>>
    IN  [c \in {who(i) : i \in 1..Len(resolved)} |-> {i \in 1..Len(resolved) : who(i) = c}]

Finish ==
    /\ at = "resolving" /\ next > Len(buyers)
    /\ at' = "done"
    /\ UNCHANGED <<table, known, aliases, buyers, next, resolved, writes>>

Next ==
    \/ \E c \in Customers : Rename(c) \/ Delete(c) \/ Recover(c)
    \/ LoadCustomers \/ LoadVariants \/ LoadFails \/ ResolveNext \/ Finish

Spec == Init /\ [][Next]_vars

-----------------------------------------------------------------------------
(***************************************************************************)
(* Properties.                                                             *)
(***************************************************************************)

OwnForms(c) == {known[i].form : i \in {j \in 1..Len(known) : known[j].who = c}}
               \cup {aliases[i].form : i \in {j \in 1..Len(aliases) : aliases[j].who = c}}

\* A customer is chosen for what it is itself, unless a variant was read
\* whose customer was not: a match by name has the score of a name or variant
\* of the customer chosen, and a customer is made only for a buyer whom
\* nobody that was read comes near to.  Each invoice is on the sheet once.
MatchedOnMerit ==
    LET orphan == \E i \in 1..Len(aliases) : aliases[i].who \notin Known
    IN  /\ ~orphan => \A i \in 1..Len(resolved) :
              LET r == resolved[i]  ratios(c) == {Ratio(ResolverForm(buyers[i].name), g) : g \in OwnForms(c)}
              IN  /\ r.by = "name" => r.score \in ratios(r.who)
                  /\ (r.by = "new" /\ buyers[i].name # Nameless) => \A c \in Known : \A s \in ratios(c) : s < Threshold
        /\ at = "done" => \A i \in 1..Len(buyers) :
              Cardinality({c \in DOMAIN CustomersSheet : i \in CustomersSheet[c]}) = 1

\* Nobody is made anew for a buyer that the name of a customer read comes
\* near to, not even when a variant without its customer comes nearer.
NearNamesFound ==
    \A i \in 1..Len(resolved) : (resolved[i].by = "new" /\ buyers[i].name # Nameless) =>
        \A k \in 1..Len(known) : Ratio(ResolverForm(buyers[i].name), known[k].form) < Threshold

\* "Lowercased/trimmed for fuzzy matching + dedup": an invoice that gives the
\* name of a customer as it stood in the table is that customer's.
NamesakeFound ==
    [][\A i \in 1..Len(resolved') : (i > Len(resolved) /\ resolved'[i].by = "new") =>
          \A c \in Known : (table[c].state = "live" /\ \E k \in 1..Len(known) :
              known[k].who = c /\ known[k].form = table[c].form) => table[c].name # buyers[i].name]_vars
=============================================================================
