----------------------------- MODULE Statistics -----------------------------
(***************************************************************************)
(* GET /api/v1/statistics: the figures of a section over a period, from a  *)
(* cache of five minutes or from a series of SELECTs, each of which sees   *)
(* the invoices as they are by then.                                       *)
(*                                                                         *)
(* An invoice is [company, day, gone, workflow, transmission, payment,     *)
(* due]; without a due date, due is a day that never comes.  Of the        *)
(* products, which have no period, each company has one of each type or    *)
(* none.  A unit of time is one change of the data.  Days turn for the     *)
(* process and for the database at once.                                   *)
(***************************************************************************)
EXTENDS Naturals, Sequences, FiniteSets, TLC

CONSTANTS
    Requests, Invoices,
    Rows,          \* what an invoice may be
    ProductTypes,
    Companies,
    Questions,     \* what may be asked: [period, dates, company]
    AtFirst,       \* bound on what the tables may hold at first
    TTL,           \* CACHE_TTL_SECONDS
    Flight,        \* bound on the time a series of SELECTs takes
    DayLength,
    MaxTime        \* bound on time

VARIABLES
    past,          \* at each time up to now: [invoices, products]
    cache,         \* key -> [at, figures], as a set of [key, at, figures]
    request        \* per request: [at, section, scope, since, figures, until]

vars == <<past, cache, request>>

Sections == {"overview", "invoices", "customers", "inventory", "compliance"}
Periods  == {"today", "all"}
Now      == Len(past)
Day(t)   == t \div DayLength

Products == Companies \X ProductTypes
Tables   == [invoices : [Invoices -> Rows], products : SUBSET Products]

\* What figures are of: the dates are first and last day, company "all" is
\* a question that names none.
Scopes == [period : Periods, from : Nat, to : Nat, company : Companies \cup {"all"}]

\* What the proofs assume of the constants.
LegalConstants ==
    /\ TTL \in Nat /\ Flight \in Nat /\ AtFirst \subseteq Tables
    /\ DayLength \in Nat \ {0} /\ MaxTime \in Nat \ {0}
    /\ \A q \in Questions : /\ q.period \in Periods /\ q.company \in Companies \cup {"all"}
                            /\ q.dates = <<>> \/ q.dates \in Nat \X Nat

Idle == [at |-> "idle", section |-> "none", scope |-> "none", since |-> 0, figures |-> <<>>, until |-> 0]

TypeOK ==
    /\ Now \in 1..MaxTime /\ \A t \in 1..Now : past[t] \in Tables
    /\ \A e \in cache : e.at \in 1..Now
    /\ \A e, g \in cache : e.key = g.key => e = g
    /\ \A r \in Requests :
          /\ request[r].at \in {"idle", "reading", "answered", "error"}
          /\ request[r].at \in {"reading", "answered"} => request[r].section \in Sections

Init ==
    /\ \E db \in AtFirst : past = <<db>>
    /\ cache = {}
    /\ request = [r \in Requests |-> Idle]

-----------------------------------------------------------------------------
(* The sections.                                                           *)

\* resolve_period: dates that are given go before the period, which ends
\* with the day of the request.
Resolved(question, today) ==
    [period |-> question.period, company |-> question.company,
     from |-> IF question.dates # <<>> THEN question.dates[1]
              ELSE IF question.period = "today" THEN today ELSE 0,
     to |-> IF question.dates # <<>> THEN question.dates[2] ELSE today]

Of(scope, company) == scope.company \in {"all", company}

InScope(row, scope) ==
    ~row.gone /\ scope.from <= row.day /\ row.day <= scope.to /\ Of(scope, row.company)

\* The invoices of the scope; each figure counts some of them.
Counted(db, scope) ==
    {db.invoices[i] @@ [id |-> i] : i \in {j \in Invoices : InScope(db.invoices[j], scope)}}

Sent(row)     == row.transmission \in {"TRANSMITTED", "ACCEPTED"}
Accepted(row) == row.transmission = "ACCEPTED"
Rejected(row) == row.transmission \in {"FAILED_RETRYABLE", "FAILED_TERMINAL"}
Overdue(row, today) == row.payment = "UNPAID" /\ row.due < today
Rate(part, whole) == IF whole > 0 THEN (100 * part) \div whole ELSE 0

Overview(db, scope, today) ==
    LET rows == Counted(db, scope)
        sent == Cardinality({r \in rows : Sent(r)})
        accepted == Cardinality({r \in rows : Accepted(r)})
    IN  [total |-> Cardinality(rows), transmitted |-> sent, accepted |-> accepted,
         rejected |-> Cardinality({r \in rows : Rejected(r)}),
         pending |-> Cardinality({r \in rows : r.workflow = "COMMITTED"}),
         overdue |-> Cardinality({r \in rows : Overdue(r, today)}), rate |-> Rate(accepted, sent)]

\* GROUP BY a column of the row.
Grouped(db, scope, column) ==
    LET rows == Counted(db, scope)
    IN  [g \in {r[column] : r \in rows} |-> Cardinality({r \in rows : r[column] = g})]

Payments(db, scope, today) ==
    LET rows == Counted(db, scope)
    IN  [unpaid  |-> Cardinality({r \in rows : r.payment = "UNPAID"}),
         paid    |-> Cardinality({r \in rows : r.payment = "PAID"}),
         overdue |-> Cardinality({r \in rows : Overdue(r, today)})]

Stock(db, scope) ==
    LET have == {x \in db.products : Of(scope, x[1])}
    IN  [total |-> Cardinality(have), types |-> {x[2] : x \in have}]

\* The SELECTs of a section: direction, type, transaction and day are grouped
\* as the status is, customers are counted as products are.  The sections on
\* customers and compliance name columns that no schema of the repository has.
Selects(section) == CASE section = "overview"   -> <<"totals", "products">>
                      [] section = "invoices"   -> <<"status", "payment">>
                      [] section = "customers"  -> <<"no such column">>
                      [] section = "inventory"  -> <<"products", "products">>
                      [] section = "compliance" -> <<"totals", "no such column">>

\* A figure of the tables, on the database's CURRENT_DATE.
Figure(query, db, scope, today) ==
    CASE query = "totals"   -> Overview(db, scope, today)
      [] query = "status"   -> Grouped(db, scope, "workflow")
      [] query = "payment"  -> Payments(db, scope, today)
      [] query = "products" -> Stock(db, scope)

-----------------------------------------------------------------------------
(* The cache and the requests.                                             *)

KeyOf(section, scope) == <<section, scope>>

Key(r) == KeyOf(request[r].section, request[r].scope)

Entries(key) == {e \in cache : e.key = key}

\* Seeded fault for Valid: an entry is kept one unit too long.
ValidLonger(e) == Now - e.at <= TTL + 1

\* StatisticsCache.get: an entry that is too old is removed.
Valid(e) == Now - e.at <= TTL

Begin(r) ==
    /\ request[r].at = "idle"
    /\ \E s \in Sections, q \in Questions :
          LET scope == Resolved(q, Day(Now))
              key   == KeyOf(s, scope)
              asked == [at |-> "reading", section |-> s, scope |-> scope, since |-> Now,
                        figures |-> <<>>, until |-> Now]
          IN  \/ \E e \in Entries(key) :
                    /\ Valid(e)
                    /\ request' = [request EXCEPT ![r] = [asked EXCEPT !.at = "answered", !.figures = e.figures]]
                    /\ UNCHANGED cache
              \/ /\ \A e \in Entries(key) : ~Valid(e)
                 /\ request' = [request EXCEPT ![r] = asked]
                 /\ cache' = cache \ Entries(key)
    /\ UNCHANGED past

\* The next SELECT of the section.
Select(r) ==
    LET queries == Selects(request[r].section)  n == Len(request[r].figures) + 1
    IN  /\ request[r].at = "reading" /\ n <= Len(queries)
        /\ request' = IF queries[n] = "no such column" THEN [request EXCEPT ![r].at = "error"]
                      ELSE [request EXCEPT ![r].figures =
                              Append(@, Figure(queries[n], past[Now], request[r].scope, Day(Now)))]
        /\ UNCHANGED <<past, cache>>

\* The figures are kept from now on, in place of any that came meanwhile.
Store(r) ==
    /\ request[r].at = "reading" /\ Len(request[r].figures) = Len(Selects(request[r].section))
    /\ cache' = (cache \ Entries(Key(r))) \cup {[key |-> Key(r), at |-> Now, figures |-> request[r].figures]}
    /\ request' = [request EXCEPT ![r].at = "answered", ![r].until = Now]
    /\ UNCHANGED past

\* An invoice or product is made, changed or deleted, or nothing happens
\* for a while.
Change ==
    /\ Now < MaxTime
    /\ \A r \in Requests : request[r].at = "reading" => Now < request[r].since + Flight
    /\ \/ \E i \in Invoices, row \in Rows : past' = Append(past, [past[Now] EXCEPT !.invoices[i] = row])
       \/ \E have \in SUBSET Products : past' = Append(past, [past[Now] EXCEPT !.products = have])
    /\ UNCHANGED <<cache, request>>

Next == Change \/ \E r \in Requests : Begin(r) \/ Select(r) \/ Store(r)

Spec == Init /\ [][Next]_vars

-----------------------------------------------------------------------------
(***************************************************************************)
(* Properties.                                                             *)
(***************************************************************************)

\* Each figure that is answered was true of the dates and the company asked
\* for, at some time no longer ago than an entry is kept and a series of
\* SELECTs takes: never of another company, day or section, though two
\* figures of one answer need not have been true together, and what was
\* overdue on one day may be answered early on the next.
FiguresWereTrue ==
    \A r \in Requests : request[r].at = "answered" =>
        \A n \in 1..Len(request[r].figures) :
            \E t \in 1..request[r].until :
                /\ t + TTL + Flight >= request[r].until
                /\ request[r].figures[n] =
                      Figure(Selects(request[r].section)[n], past[t], request[r].scope, Day(t))
=============================================================================
