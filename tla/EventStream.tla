---------------------------- MODULE EventStream ----------------------------
(***************************************************************************)
(* The event stream of the Core service: SSEConnectionManager.publish and  *)
(* its ring buffer, the event_ledger table behind it, the stream and       *)
(* catch-up endpoints, and the clients that follow them.                   *)
(*                                                                         *)
(* Publications run on one event loop: a step ends where publish awaits    *)
(* the ledger.  BIGSERIAL draws a sequence number when a row is inserted   *)
(* and the row is seen when its transaction commits, so two publications   *)
(* may commit in the other order.                                          *)
(***************************************************************************)
EXTENDS Naturals, Sequences, FiniteSets

CONSTANTS
    Events,         \* what is published, once each
    Clients,        \* browsers and services that follow the stream
    Companies,
    NoCompany,      \* an event published without company_id
    CompanyOf,      \* the company of each event, or NoCompany
    ClientCompany,  \* the company in the token of each client
    RingSize,       \* buffer_size of the ring buffer
    PageSize,       \* limit of a catch-up page
    MaxConnects,    \* bound on (re)connections
    MaxRestarts     \* bound on restarts of the Core process

ASSUME StreamConstants ==
    /\ IsFiniteSet(Events)
    /\ NoCompany \notin Companies
    /\ CompanyOf \in [Events -> Companies \cup {NoCompany}]
    /\ ClientCompany \in [Clients -> Companies]
    /\ RingSize \in Nat \ {0} /\ PageSize \in Nat \ {0}
    /\ MaxConnects \in Nat /\ MaxRestarts \in Nat

VARIABLES
    pub,       \* how far the publication of each event is
    seq,       \* the sequence number its INSERT drew, 0 if none
    drawn,     \* the last number the database sequence gave out
    rows,      \* the events whose ledger row is committed
    counter,   \* _sequence, the in-memory counter
    ident,     \* event.id
    from,      \* where the id came from: "ledger" or "counter"
    turn,      \* its place in the order of dispatch, 0 before
    ring,      \* _ring_buffer
    synced,    \* did sync_sequence_from_ledger succeed at startup?
    link,      \* what each client is doing
    queue,     \* SSEClient.queue of its connection, in the order of dispatch
    got,       \* the events it has received
    cursor,    \* the last id it has seen
    connects, restarts,
    orderly    \* so far every id came from the ledger and no two ledger
               \* writes overlapped

ledgerVars == <<seq, drawn, rows>>
memVars    == <<counter, ident, from, turn, ring>>
clientVars == <<link, queue, got, cursor>>
boundVars  == <<connects, restarts>>
vars       == <<pub, seq, drawn, rows, counter, ident, from, turn, ring, synced, link, queue,
                got, cursor, connects, restarts, orderly>>

Scoped(e)     == CompanyOf[e] # NoCompany
InFlight      == {e \in Events : pub[e] \in {"inserted", "committed"}}
SeqOf(S)      == {seq[e] : e \in S}
Highest(n, S) == n \in S /\ \A m \in S : m <= n

TypeOK ==
    /\ pub \in [Events -> {"new", "inserted", "committed", "announced", "lost"}]
    /\ seq \in [Events -> Nat] /\ drawn \in Nat
    /\ rows \subseteq Events
    /\ counter \in Nat /\ ident \in [Events -> Nat]
    /\ from \in [Events -> {"none", "ledger", "counter"}]
    /\ turn \in [Events -> Nat]
    /\ ring \in Seq(Events) /\ Len(ring) <= RingSize
    /\ synced \in BOOLEAN
    /\ link \in [Clients -> {"off", "catching", "live"}]
    /\ queue \in [Clients -> SUBSET Events]
    /\ got \in [Clients -> SUBSET Events]
    /\ cursor \in [Clients -> Nat]
    /\ connects \in 0..MaxConnects /\ restarts \in 0..MaxRestarts
    /\ orderly \in BOOLEAN

Init ==
    /\ pub = [e \in Events |-> "new"]
    /\ seq = [e \in Events |-> 0] /\ drawn = 0 /\ rows = {}
    /\ counter = 0 /\ ident = [e \in Events |-> 0]
    /\ from = [e \in Events |-> "none"] /\ turn = [e \in Events |-> 0]
    /\ ring = <<>> /\ synced = TRUE
    /\ link = [c \in Clients |-> "off"]
    /\ queue = [c \in Clients |-> {}]
    /\ got = [c \in Clients |-> {}]
    /\ cursor = [c \in Clients |-> 0]
    /\ connects = 0 /\ restarts = 0
    /\ orderly = TRUE

-----------------------------------------------------------------------------
(***************************************************************************)
(* SSEConnectionManager.publish.                                           *)
(***************************************************************************)

\* Seeded fault for Matches: the company is not compared.
AnyClientMatches(c, e) == c \in Clients /\ e \in Events

\* _client_matches; the data_uuid and pattern filters are left out.
Matches(c, e) == Scoped(e) => CompanyOf[e] = ClientCompany[c]

\* The row of e is one the catch-up endpoint shows to c.
Visible(c, e) == CompanyOf[e] = ClientCompany[c]

\* Seeded fault for Remember: the deque has no maxlen.
RememberAll(r, e) == Append(r, e)

\* deque(maxlen=RingSize).append
Remember(r, e) ==
    LET longer == Append(r, e)
    IN  IF Len(longer) > RingSize THEN Tail(longer) ELSE longer

\* The event gets its id, and in the same step enters the ring and the
\* queues of the matching connections, which have no bound.
Dispatch(e, n, src) ==
    /\ ident' = [ident EXCEPT ![e] = n]
    /\ from' = [from EXCEPT ![e] = src]
    /\ turn' = [turn EXCEPT ![e] = Cardinality({f \in Events : turn[f] # 0}) + 1]
    /\ ring' = Remember(ring, e)
    /\ queue' = [c \in Clients |-> IF link[c] # "off" /\ Matches(c, e)
                                   THEN queue[c] \cup {e} ELSE queue[c]]
    /\ pub' = [pub EXCEPT ![e] = "announced"]

FromCounter(e) ==
    /\ counter' = counter + 1
    /\ Dispatch(e, counter + 1, "counter")
    /\ orderly' = FALSE

\* An event without company_id skips the ledger.
PublishUnscoped(e) ==
    /\ pub[e] = "new" /\ ~ Scoped(e)
    /\ FromCounter(e)
    /\ UNCHANGED <<ledgerVars, synced, link, got, cursor, boundVars>>

LedgerInsert(e) ==
    /\ pub[e] = "new" /\ Scoped(e)
    /\ drawn' = drawn + 1
    /\ seq' = [seq EXCEPT ![e] = drawn + 1]
    /\ pub' = [pub EXCEPT ![e] = "inserted"]
    /\ orderly' = (orderly /\ InFlight = {})
    /\ UNCHANGED <<rows, memVars, synced, clientVars, boundVars>>

LedgerCommit(e) ==
    /\ pub[e] = "inserted"
    /\ rows' = rows \cup {e}
    /\ pub' = [pub EXCEPT ![e] = "committed"]
    /\ UNCHANGED <<seq, drawn, memVars, synced, clientVars, boundVars, orderly>>

\* The write raised, before or after it drew a number, or after a commit
\* whose answer was lost: the event is sent with an id of the counter, and
\* in the last case has a row with another number.
LedgerFails(e) ==
    /\ Scoped(e) /\ pub[e] \in {"new", "inserted", "committed"}
    /\ FromCounter(e)
    /\ UNCHANGED <<ledgerVars, synced, link, got, cursor, boundVars>>

\* Seeded fault for Announce: the counter does not keep up with the ledger.
AnnounceOnly(e) ==
    /\ pub[e] = "committed"
    /\ Dispatch(e, seq[e], "ledger")
    /\ UNCHANGED <<counter, ledgerVars, synced, link, got, cursor, boundVars, orderly>>

\* ledger.write has returned the sequence number.
Announce(e) ==
    /\ pub[e] = "committed"
    /\ counter' = IF seq[e] > counter THEN seq[e] ELSE counter
    /\ Dispatch(e, seq[e], "ledger")
    /\ UNCHANGED <<ledgerVars, synced, link, got, cursor, boundVars, orderly>>

-----------------------------------------------------------------------------
(***************************************************************************)
(* The endpoints and the clients.  A client catches up from its last id    *)
(* whenever it has opened the stream, then reads the stream.               *)
(***************************************************************************)

\* GET /api/sse/stream: subscribe, and with a Last-Event-ID replay from the
\* ring, in one step.
Connect(c) ==
    LET held == {ring[i] : i \in DOMAIN ring}
        missed == {e \in held : ident[e] > cursor[c] /\ Matches(c, e)}
    IN
    /\ link[c] = "off" /\ connects < MaxConnects
    /\ link' = [link EXCEPT ![c] = "catching"]
    /\ queue' = [queue EXCEPT ![c] = IF cursor[c] = 0 THEN {} ELSE missed]
    /\ connects' = connects + 1
    /\ UNCHANGED <<pub, ledgerVars, memVars, synced, got, cursor, restarts, orderly>>

\* The rows a catch-up after n returns: the first PageSize of those above n.
Above(c, n) == {e \in rows : Visible(c, e) /\ seq[e] > n}
Page(c, n)  == {e \in Above(c, n) :
                  Cardinality({f \in Above(c, n) : seq[f] < seq[e]}) < PageSize}

\* Seeded fault for CatchUp: the cursor is taken from the rows fetched to
\* see whether there is more, not from the page.
CatchUpSkips(c) ==
    LET page    == Page(c, cursor[c])
        fetched == {e \in Above(c, cursor[c]) :
                      Cardinality({f \in Above(c, cursor[c]) : seq[f] < seq[e]}) <= PageSize}
    IN
    /\ link[c] = "catching"
    /\ got' = [got EXCEPT ![c] = @ \cup page]
    /\ \E n \in SeqOf(fetched) \cup {cursor[c]} :
          /\ Highest(n, SeqOf(fetched) \cup {cursor[c]})
          /\ cursor' = [cursor EXCEPT ![c] = n]
    /\ link' = [link EXCEPT ![c] = IF fetched = page THEN "live" ELSE @]
    /\ UNCHANGED <<pub, ledgerVars, memVars, synced, queue, boundVars, orderly>>

\* GET /api/sse/catchup with the client's cursor, again while has_more.
CatchUp(c) ==
    LET page == Page(c, cursor[c]) IN
    /\ link[c] = "catching"
    /\ got' = [got EXCEPT ![c] = @ \cup page]
    /\ \E n \in SeqOf(page) \cup {cursor[c]} :
          /\ Highest(n, SeqOf(page) \cup {cursor[c]})
          /\ cursor' = [cursor EXCEPT ![c] = n]
    /\ link' = [link EXCEPT ![c] = IF page = Above(c, cursor[c]) THEN "live" ELSE @]
    /\ UNCHANGED <<pub, ledgerVars, memVars, synced, queue, boundVars, orderly>>

\* event_generator takes an event from the queue and sends it with its id.
Receive(c) ==
    /\ link[c] = "live"
    /\ \E e \in queue[c] :
         /\ \A f \in queue[c] : turn[e] <= turn[f]
         /\ got' = [got EXCEPT ![c] = @ \cup {e}]
         /\ cursor' = [cursor EXCEPT ![c] = ident[e]]
         /\ queue' = [queue EXCEPT ![c] = @ \ {e}]
    /\ UNCHANGED <<pub, ledgerVars, memVars, synced, link, boundVars, orderly>>

\* The connection drops or the token expires: unsubscribe.
Disconnect(c) ==
    /\ link[c] # "off"
    /\ link' = [link EXCEPT ![c] = "off"]
    /\ queue' = [queue EXCEPT ![c] = {}]
    /\ UNCHANGED <<pub, ledgerVars, memVars, synced, got, cursor, boundVars, orderly>>

-----------------------------------------------------------------------------
Down ==
    /\ restarts < MaxRestarts
    /\ restarts' = restarts + 1
    /\ pub' = [e \in Events |-> IF e \in InFlight THEN "lost" ELSE pub[e]]
    /\ ring' = <<>>
    /\ link' = [c \in Clients |-> "off"]
    /\ queue' = [c \in Clients |-> {}]
    /\ UNCHANGED <<ledgerVars, ident, from, turn, got, cursor, connects, orderly>>

\* Seeded fault for Restart: the counter starts again from zero.
RestartFromZero == Down /\ counter' = 0 /\ synced' = TRUE

\* The process stops or dies and starts again.  The counter is set from the
\* ledger; if that raises the service starts all the same.
Restart ==
    /\ Down
    /\ \/ \E n \in SeqOf(rows) \cup {0} :
             Highest(n, SeqOf(rows) \cup {0}) /\ counter' = n /\ synced' = TRUE
       \/ counter' = 0 /\ synced' = FALSE

Publish(e) == \/ PublishUnscoped(e) \/ LedgerInsert(e) \/ LedgerCommit(e)
              \/ LedgerFails(e) \/ Announce(e)
Follow(c)  == Connect(c) \/ CatchUp(c) \/ Receive(c) \/ Disconnect(c)

Next == \/ \E e \in Events : Publish(e)
        \/ \E c \in Clients : Follow(c)
        \/ Restart

Spec == Init /\ [][Next]_vars

-----------------------------------------------------------------------------
(***************************************************************************)
(* Properties.                                                             *)
(***************************************************************************)

(* An event of a company reaches the clients of that company only, live,   *)
(* replayed from the ring or read back from the ledger.                    *)
CompaniesApart ==
    \A c \in Clients : \A e \in got[c] \cup queue[c] :
        Scoped(e) => CompanyOf[e] = ClientCompany[c]

(* The ids are not unique, because two number generators give them out     *)
(* (counter and BIGSERIAL).  What holds is that a number of the counter is *)
(* fresh when it is given: two events of the ring with the same id are a   *)
(* counter one followed by a ledger one.                                   *)
SharedIdsAreLedgerLate ==
    \A i, j \in DOMAIN ring :
        i < j /\ ident[ring[i]] = ident[ring[j]] =>
            from[ring[i]] = "counter" /\ from[ring[j]] = "ledger"

(* sync_sequence_from_ledger and publish keep the counter at or above each *)
(* row of the ledger but those whose number publish has not heard, because *)
(* the write has not returned or its answer was lost, so the counter does  *)
(* not hand out an old row's number after a restart.                       *)
CounterCovers ==
    synced => \A e \in rows :
        pub[e] = "committed" \/ from[e] = "counter" \/ seq[e] <= counter

\* A row that client c can never receive any more: it is off, and both the
\* replay and the catch-up start above its cursor.
Lost(c, e) ==
    /\ link[c] = "off" /\ e \in rows /\ Visible(c, e)
    /\ seq[e] <= cursor[c] /\ e \notin got[c]

(* Catch-up and replay together lose no row of the ledger, wherever the    *)
(* connection breaks, the pages are cut or the process restarts, as long   *)
(* as every id came from the ledger and its writes did not overlap.        *)
NothingLostWhenOrderly == orderly => \A c \in Clients, e \in Events : ~ Lost(c, e)

(* The same without the condition, which is what the numbering is relied   *)
(* upon for: the counter and overlapping writes break it.                  *)
NothingLost == \A c \in Clients, e \in Events : ~ Lost(c, e)

=============================================================================
