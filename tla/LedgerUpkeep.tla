---------------------------- MODULE LedgerUpkeep ----------------------------
(***************************************************************************)
(* EventLedger beside the stream: the watermark of one company, from a     *)
(* cache of thirty seconds, and the prune of the ledger every six hours,   *)
(* while rows are written.  Time counts what the cache does; a row's       *)
(* timestamp is taken just before it is written.                           *)
(***************************************************************************)
EXTENDS Naturals, FiniteSets

CONSTANTS
    Writes,        \* the rows of the company, each written once
    Polls,         \* calls of GET /api/sse/watermark
    TTL,           \* WATERMARK_CACHE_TTL
    Retention,     \* retention_hours
    BatchSize,     \* batch_size of prune
    MaxTime        \* bound on time

VARIABLES
    time,
    write,         \* per row: "new", "inserted", "committed", "over"
    number,        \* its sequence, 0 before
    stamp, since,  \* its timestamp, and when its transaction committed
    gone,          \* the rows pruned
    wrongly,       \* those of them that were not old enough
    held,          \* the cache: a set of at most one [at, latest, oldest]
    poll,          \* per call: [at, asked, latest, oldest]
    prune          \* [at, cutoff]

vars == <<time, write, number, stamp, since, gone, wrongly, held, poll, prune>>

\* What the proofs assume of the constants.
LegalConstants ==
    /\ IsFiniteSet(Writes) /\ TTL \in Nat \ {0}
    /\ Retention \in Nat /\ MaxTime \in Nat

Unasked == [at |-> "new", asked |-> 0, latest |-> 0, oldest |-> 0]

TypeOK ==
    /\ time \in 0..MaxTime
    /\ \A w \in Writes : write[w] = "new" <=> number[w] = 0
    /\ \A v, w \in Writes : (number[v] = number[w] /\ number[v] > 0) => v = w
    /\ gone \subseteq {w \in Writes : write[w] \in {"committed", "over"}}
    /\ Cardinality(held) <= 1
    /\ \A p \in Polls : poll[p].at \in {"new", "read", "store", "over"} /\ poll[p].oldest <= poll[p].latest
    /\ prune.at \in {"idle", "running"} /\ prune.cutoff \in 0..MaxTime

Init ==
    /\ time = 0
    /\ write = [w \in Writes |-> "new"] /\ number = [w \in Writes |-> 0]
    /\ stamp = [w \in Writes |-> 0] /\ since = [w \in Writes |-> 0]
    /\ gone = {} /\ wrongly = {} /\ held = {}
    /\ poll = [p \in Polls |-> Unasked]
    /\ prune = [at |-> "idle", cutoff |-> 0]

-----------------------------------------------------------------------------
(* write                                                                   *)

Drawn == Cardinality({w \in Writes : write[w] # "new"})

Insert(w) ==
    /\ write[w] = "new"
    /\ write' = [write EXCEPT ![w] = "inserted"]
    /\ number' = [number EXCEPT ![w] = Drawn + 1]
    /\ stamp' = [stamp EXCEPT ![w] = time]
    /\ UNCHANGED <<time, since, gone, wrongly, held, poll, prune>>

Commit(w) ==
    /\ write[w] = "inserted"
    /\ write' = [write EXCEPT ![w] = "committed"]
    /\ since' = [since EXCEPT ![w] = time]
    /\ UNCHANGED <<time, number, stamp, gone, wrongly, held, poll, prune>>

\* The cache forgets the company when write is back from the commit.
Invalidate(w) ==
    /\ write[w] = "committed"
    /\ write' = [write EXCEPT ![w] = "over"]
    /\ held' = {}
    /\ UNCHANGED <<time, number, stamp, since, gone, wrongly, poll, prune>>

-----------------------------------------------------------------------------
(* watermark                                                               *)

Rows   == {w \in Writes : write[w] \in {"committed", "over"}} \ gone
Lowest(S)  == IF S = {} THEN 0 ELSE CHOOSE n \in S : \A m \in S : n <= m
Highest(S) == IF S = {} THEN 0 ELSE CHOOSE n \in S : \A m \in S : m <= n
Numbers(S) == {number[w] : w \in S}

Poll(p) ==
    /\ poll[p].at = "new"
    /\ poll' = [poll EXCEPT ![p] =
          IF \E e \in held : time - e.at < TTL
          THEN LET e == CHOOSE x \in held : TRUE
               IN  [at |-> "over", asked |-> time, latest |-> e.latest, oldest |-> e.oldest]
          ELSE [Unasked EXCEPT !.at = "read", !.asked = time]]
    /\ UNCHANGED <<time, write, number, stamp, since, gone, wrongly, held, prune>>

\* MIN and MAX of one SELECT; the counts of the entities follow.
ReadBounds(p) ==
    /\ poll[p].at = "read"
    /\ poll' = [poll EXCEPT ![p].at = "store", ![p].latest = Highest(Numbers(Rows)),
                            ![p].oldest = Lowest(Numbers(Rows))]
    /\ UNCHANGED <<time, write, number, stamp, since, gone, wrongly, held, prune>>

\* Seeded fault for Entry: the time of the entry is when it is stored.
EntryOfNow(p) == [at |-> time, latest |-> poll[p].latest, oldest |-> poll[p].oldest]

\* The time of the entry is that of the call.
Entry(p) == [at |-> poll[p].asked, latest |-> poll[p].latest, oldest |-> poll[p].oldest]

\* Whatever was written since, and whatever else was stored.
Store(p) ==
    /\ poll[p].at = "store"
    /\ held' = {Entry(p)}
    /\ poll' = [poll EXCEPT ![p].at = "over"]
    /\ UNCHANGED <<time, write, number, stamp, since, gone, wrongly, prune>>

-----------------------------------------------------------------------------
(* prune                                                                   *)

BeginPrune ==
    /\ prune.at = "idle" /\ time > Retention
    /\ prune' = [at |-> "running", cutoff |-> time - Retention]
    /\ UNCHANGED <<time, write, number, stamp, since, gone, wrongly, held, poll>>

Old == {w \in Rows : stamp[w] < prune.cutoff}

\* A batch in no particular order, committed; the last one is not full.
DeleteBatch ==
    /\ prune.at = "running"
    /\ \E B \in SUBSET Old :
          /\ Cardinality(B) = BatchSize \/ (Cardinality(B) < BatchSize /\ B = Old)
          /\ gone' = gone \cup B
          /\ wrongly' = wrongly \cup {w \in B : time - stamp[w] <= Retention}
          /\ prune' = [prune EXCEPT !.at = IF Cardinality(B) < BatchSize THEN "idle" ELSE "running"]
    /\ UNCHANGED <<time, write, number, stamp, since, held, poll>>

Tick ==
    /\ time < MaxTime
    /\ time' = time + 1
    /\ UNCHANGED <<write, number, stamp, since, gone, wrongly, held, poll, prune>>

Next ==
    \/ BeginPrune \/ DeleteBatch \/ Tick
    \/ \E w \in Writes : Insert(w) \/ Commit(w) \/ Invalidate(w)
    \/ \E p \in Polls : Poll(p) \/ ReadBounds(p) \/ Store(p)

Spec == Init /\ [][Next]_vars

-----------------------------------------------------------------------------
(***************************************************************************)
(* Properties.                                                             *)
(***************************************************************************)

\* A watermark is never further behind than the cache keeps it, whatever
\* writes, fills and prunes overlap with the read: a row that was committed
\* TTL before the call, and has not been pruned, lies within its bounds.  No
\* row is pruned before its time.
WatermarkCovers ==
    /\ \A p \in Polls : poll[p].at = "over" =>
          \A w \in Rows : since[w] + TTL <= poll[p].asked =>
              number[w] \in poll[p].oldest..poll[p].latest
    /\ wrongly = {}
=============================================================================
