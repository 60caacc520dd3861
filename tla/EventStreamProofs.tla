-------------------------- MODULE EventStreamProofs --------------------------
(***************************************************************************)
(* Proofs about EventStream, for any number of events, clients, companies, *)
(* connections and restarts, and any ring and page size.                   *)
(***************************************************************************)
EXTENDS EventStream, FiniteSetTheorems, TLAPS

\* Every step is one of the actions of publish, of a client or of the process.
LEMMA StepCases ==
  ASSUME Next
  PROVE  \/ \E e \in Events : \/ PublishUnscoped(e) \/ LedgerInsert(e) \/ LedgerCommit(e)
                              \/ LedgerFails(e) \/ Announce(e)
         \/ \E c \in Clients : Connect(c) \/ CatchUp(c) \/ Receive(c) \/ Disconnect(c)
         \/ Restart
BY DEF Next, Publish, Follow

\* What a dispatch does, whatever the id and its source.
LEMMA Dispatches ==
  ASSUME NEW e \in Events,
         PublishUnscoped(e) \/ LedgerFails(e) \/ Announce(e)
  PROVE  \E n \in {counter + 1, seq[e]}, src \in {"counter", "ledger"} :
            /\ Dispatch(e, n, src)
            /\ src = "counter" => n = counter + 1 /\ counter' = counter + 1 /\ orderly' = FALSE
            /\ src = "ledger" => /\ Announce(e) /\ n = seq[e] /\ orderly' = orderly
                                 /\ counter' = IF seq[e] > counter THEN seq[e] ELSE counter
            /\ UNCHANGED <<seq, drawn, rows, synced, link, got, cursor, connects, restarts>>
BY DEF PublishUnscoped, LedgerFails, Announce, FromCounter, ledgerVars, boundVars

-----------------------------------------------------------------------------
(***************************************************************************)
(* Types.                                                                  *)
(***************************************************************************)

\* The order of dispatch is counted from one, each place given once.
Dispatched == {f \in Events : turn[f] # 0}

LEMMA DispatchedCount == IsFiniteSet(Dispatched) /\ Cardinality(Dispatched) \in Nat
<1>1. Dispatched \subseteq Events
  BY DEF Dispatched
<1> QED
  BY <1>1, StreamConstants, FS_Subset, FS_CardinalityType

LEMMA RememberType ==
  ASSUME NEW r \in Seq(Events), Len(r) <= RingSize, NEW e \in Events
  PROVE  Remember(r, e) \in Seq(Events) /\ Len(Remember(r, e)) <= RingSize
<1> DEFINE longer == Append(r, e)
<1>1. longer \in Seq(Events) /\ Len(longer) = Len(r) + 1 /\ RingSize \in Nat /\ Len(r) \in Nat
  BY StreamConstants
<1>2. Tail(longer) \in Seq(Events) /\ Len(Tail(longer)) = Len(longer) - 1
  BY <1>1
<1> QED
  BY <1>1, <1>2 DEF Remember

LEMMA DispatchType ==
  ASSUME TypeOK, NEW e \in Events, NEW n \in Nat, NEW src \in {"ledger", "counter"},
         Dispatch(e, n, src)
  PROVE  /\ ident' \in [Events -> Nat] /\ from' \in [Events -> {"none", "ledger", "counter"}]
         /\ turn' \in [Events -> Nat] /\ turn' = [turn EXCEPT ![e] = Cardinality(Dispatched) + 1]
         /\ ring' \in Seq(Events) /\ Len(ring') <= RingSize
         /\ queue' \in [Clients -> SUBSET Events]
         /\ pub' \in [Events -> {"new", "inserted", "committed", "announced", "lost"}]
<1>1. Cardinality(Dispatched) + 1 \in Nat /\ turn' = [turn EXCEPT ![e] = Cardinality(Dispatched) + 1]
  BY DispatchedCount DEF Dispatch, Dispatched
<1>2. ring' \in Seq(Events) /\ Len(ring') <= RingSize
  BY RememberType DEF Dispatch, TypeOK
<1>3. queue' \in [Clients -> SUBSET Events]
  BY DEF Dispatch, TypeOK
<1>4. /\ ident' \in [Events -> Nat] /\ from' \in [Events -> {"none", "ledger", "counter"}]
      /\ pub' \in [Events -> {"new", "inserted", "committed", "announced", "lost"}]
  BY DEF Dispatch, TypeOK
<1>5. turn' \in [Events -> Nat]
  BY <1>1 DEF TypeOK
<1> QED
  BY <1>1, <1>2, <1>3, <1>4, <1>5

LEMMA TypeInit == Init => TypeOK
BY StreamConstants DEF Init, TypeOK

LEMMA TypeStep == TypeOK /\ [Next]_vars => TypeOK'
<1> SUFFICES ASSUME TypeOK, [Next]_vars PROVE TypeOK'
  OBVIOUS
<1>1. ASSUME NEW e \in Events, PublishUnscoped(e) \/ LedgerFails(e) \/ Announce(e)
      PROVE  TypeOK'
  <2>1. PICK n \in {counter + 1, seq[e]}, src \in {"counter", "ledger"} :
            /\ Dispatch(e, n, src)
            /\ src = "counter" => n = counter + 1 /\ counter' = counter + 1 /\ orderly' = FALSE
            /\ src = "ledger" => /\ Announce(e) /\ n = seq[e] /\ orderly' = orderly
                                 /\ counter' = IF seq[e] > counter THEN seq[e] ELSE counter
            /\ UNCHANGED <<seq, drawn, rows, synced, link, got, cursor, connects, restarts>>
    BY <1>1, Dispatches
  <2>2. CASE src = "counter"
    <3>1. n \in Nat /\ counter' \in Nat
      BY <2>1, <2>2 DEF TypeOK
    <3>2. orderly' \in BOOLEAN
      BY <2>1, <2>2
    <3> QED
      BY <2>1, <3>1, <3>2, DispatchType DEF TypeOK
  <2>3. CASE src = "ledger"
    <3>1. n \in Nat /\ counter' \in Nat
      BY <2>1, <2>3 DEF TypeOK
    <3>2. orderly' \in BOOLEAN
      BY <2>1, <2>3 DEF TypeOK
    <3> QED
      BY <2>1, <3>1, <3>2, DispatchType DEF TypeOK
  <2> QED
    BY <2>2, <2>3
<1>2. ASSUME NEW e \in Events, LedgerInsert(e) \/ LedgerCommit(e) PROVE TypeOK'
  <2>1. UNCHANGED <<memVars, synced, clientVars, boundVars>>
    BY <1>2 DEF LedgerInsert, LedgerCommit
  <2>2. /\ pub' \in [Events -> {"new", "inserted", "committed", "announced", "lost"}]
        /\ seq' \in [Events -> Nat] /\ drawn' \in Nat /\ rows' \subseteq Events
    <3>1. CASE LedgerInsert(e)
      <4>1. seq' = [seq EXCEPT ![e] = drawn + 1] /\ drawn' = drawn + 1 /\ rows' = rows
            /\ pub' = [pub EXCEPT ![e] = "inserted"]
        BY <3>1 DEF LedgerInsert
      <4> QED
        BY <4>1 DEF TypeOK
    <3>2. CASE LedgerCommit(e)
      <4>1. seq' = seq /\ drawn' = drawn /\ rows' = rows \cup {e}
            /\ pub' = [pub EXCEPT ![e] = "committed"]
        BY <3>2 DEF LedgerCommit
      <4> QED
        BY <4>1 DEF TypeOK
    <3> QED
      BY <1>2, <3>1, <3>2
  <2>3. orderly' \in BOOLEAN
    BY <1>2 DEF LedgerInsert, LedgerCommit, TypeOK
  <2> QED
    BY <2>1, <2>2, <2>3 DEF TypeOK, memVars, clientVars, boundVars
<1>3. ASSUME NEW c \in Clients, Connect(c) PROVE TypeOK'
  <2>1. \A i \in DOMAIN ring : ring[i] \in Events
    BY DEF TypeOK
  <2>2. queue' \in [Clients -> SUBSET Events]
    BY <1>3, <2>1 DEF Connect, TypeOK
  <2> QED
    BY <1>3, <2>2, StreamConstants DEF Connect, TypeOK, ledgerVars, memVars
<1>4. ASSUME NEW c \in Clients, CatchUp(c) PROVE TypeOK'
  <2>1. Page(c, cursor[c]) \subseteq rows
    BY DEF Page, Above
  <2>2. \A n \in SeqOf(Page(c, cursor[c])) \cup {cursor[c]} : n \in Nat
    BY <2>1 DEF SeqOf, TypeOK
  <2>3. cursor' \in [Clients -> Nat]
    BY <1>4, <2>2 DEF CatchUp, TypeOK
  <2>4. got' \in [Clients -> SUBSET Events]
    BY <1>4, <2>1 DEF CatchUp, TypeOK
  <2>5. link' \in [Clients -> {"off", "catching", "live"}]
    BY <1>4 DEF CatchUp, TypeOK
  <2> QED
    BY <1>4, <2>3, <2>4, <2>5 DEF CatchUp, TypeOK, ledgerVars, memVars, boundVars
<1>5. ASSUME NEW c \in Clients, Receive(c) PROVE TypeOK'
  <2>1. PICK e \in queue[c] :
            /\ got' = [got EXCEPT ![c] = got[c] \cup {e}] /\ cursor' = [cursor EXCEPT ![c] = ident[e]]
            /\ queue' = [queue EXCEPT ![c] = queue[c] \ {e}]
    BY <1>5 DEF Receive, TypeOK
  <2>2. e \in Events
    BY DEF TypeOK
  <2>3. /\ got' \in [Clients -> SUBSET Events] /\ cursor' \in [Clients -> Nat]
        /\ queue' \in [Clients -> SUBSET Events]
    BY <2>1, <2>2 DEF TypeOK
  <2> QED
    BY <1>5, <2>3 DEF Receive, TypeOK, ledgerVars, memVars, boundVars
<1>8. ASSUME NEW c \in Clients, Disconnect(c) PROVE TypeOK'
  BY <1>8 DEF Disconnect, TypeOK, ledgerVars, memVars, boundVars
<1>6. CASE Restart
  <2>1. \A n \in SeqOf(rows) \cup {0} : n \in Nat
    BY DEF SeqOf, TypeOK
  <2>2. counter' \in Nat /\ synced' \in BOOLEAN
    BY <1>6, <2>1 DEF Restart
  <2>3. /\ pub' \in [Events -> {"new", "inserted", "committed", "announced", "lost"}]
        /\ ring' \in Seq(Events) /\ Len(ring') <= RingSize
        /\ link' \in [Clients -> {"off", "catching", "live"}] /\ queue' \in [Clients -> SUBSET Events]
    BY <1>6, StreamConstants DEF Restart, Down, TypeOK
  <2> QED
    BY <1>6, <2>2, <2>3, StreamConstants DEF Restart, Down, TypeOK, ledgerVars
<1>7. CASE UNCHANGED vars
  BY <1>7 DEF vars, TypeOK, boundVars, ledgerVars, memVars, clientVars
<1> QED
  BY <1>1, <1>2, <1>3, <1>4, <1>5, <1>6, <1>7, <1>8, StepCases

\* The stream keeps its types; the ring never holds more than it may.
THEOREM StreamTyped == Spec => []TypeOK
BY TypeInit, TypeStep, PTL DEF Spec

-----------------------------------------------------------------------------
(***************************************************************************)
(* Companies.                                                              *)
(***************************************************************************)

LEMMA CompaniesStep == TypeOK /\ CompaniesApart /\ [Next]_vars => CompaniesApart'
<1> SUFFICES ASSUME TypeOK, CompaniesApart, [Next]_vars PROVE CompaniesApart'
  OBVIOUS
<1>1. ASSUME NEW e \in Events, PublishUnscoped(e) \/ LedgerFails(e) \/ Announce(e)
      PROVE  CompaniesApart'
  <2>1. got' = got /\ \E n, src : Dispatch(e, n, src)
    BY <1>1, Dispatches
  <2>2. \A c \in Clients : queue'[c] \subseteq queue[c] \cup (IF Matches(c, e) THEN {e} ELSE {})
    BY <2>1 DEF Dispatch
  <2> QED
    BY <2>1, <2>2 DEF CompaniesApart, Matches
<1>2. ASSUME NEW e \in Events, LedgerInsert(e) \/ LedgerCommit(e) PROVE CompaniesApart'
  BY <1>2 DEF LedgerInsert, LedgerCommit, CompaniesApart, clientVars
<1>3. ASSUME NEW c \in Clients, Connect(c) PROVE CompaniesApart'
  <2>1. got' = got /\ \A d \in Clients : \A e \in queue'[d] : e \in queue[d] \/ Matches(d, e)
    BY <1>3 DEF Connect, TypeOK
  <2> QED
    BY <2>1 DEF CompaniesApart, Matches
<1>4. ASSUME NEW c \in Clients, CatchUp(c) PROVE CompaniesApart'
  <2>1. queue' = queue /\ \A d \in Clients : \A e \in got'[d] : e \in got[d] \/ Visible(d, e)
    BY <1>4 DEF CatchUp, Page, Above, TypeOK
  <2> QED
    BY <2>1 DEF CompaniesApart, Visible
<1>5. ASSUME NEW c \in Clients, Receive(c) \/ Disconnect(c) PROVE CompaniesApart'
  <2>1. \A d \in Clients : \A e \in got'[d] \cup queue'[d] : e \in got[d] \cup queue[d]
    <3>1. CASE Receive(c)
      BY <3>1 DEF Receive, TypeOK
    <3>2. CASE Disconnect(c)
      BY <3>2 DEF Disconnect, TypeOK
    <3> QED
      BY <1>5, <3>1, <3>2
  <2> QED
    BY <2>1 DEF CompaniesApart
<1>6. CASE Restart \/ UNCHANGED vars
  BY <1>6 DEF Restart, Down, CompaniesApart, vars
<1> QED
  BY <1>1, <1>2, <1>3, <1>4, <1>5, <1>6, StepCases

\* A company's event never reaches a client of another one: not live, not
\* from the ring, not from the ledger.
THEOREM CompaniesStayApart == Spec => []CompaniesApart
<1>1. Init => TypeOK /\ CompaniesApart
  BY TypeInit DEF Init, CompaniesApart
<1>2. TypeOK /\ CompaniesApart /\ [Next]_vars => TypeOK' /\ CompaniesApart'
  BY TypeStep, CompaniesStep
<1> QED
  BY <1>1, <1>2, PTL DEF Spec

-----------------------------------------------------------------------------
(***************************************************************************)
(* The numbers of the ledger.                                              *)
(***************************************************************************)

\* BIGSERIAL gives a number out once, and a row has one; an event is
\* dispatched once, and only its publication adds its row.
Numbered ==
    /\ \A e \in Events : seq[e] <= drawn
    /\ \A e, f \in Events : e # f /\ seq[e] = seq[f] => seq[e] = 0
    /\ \A e \in Events :
         /\ pub[e] = "new" => seq[e] = 0
         /\ pub[e] \in {"inserted", "committed"} => seq[e] # 0
         /\ pub[e] = "committed" => e \in rows
         /\ e \in rows => seq[e] # 0 /\ pub[e] \in {"committed", "announced", "lost"}
         /\ pub[e] = "announced" <=> turn[e] # 0

\* An id taken from the ledger is the number of the row.
LedgerIds ==
    \A e \in Events :
        /\ turn[e] # 0 => from[e] \in {"ledger", "counter"}
        /\ from[e] = "ledger" => ident[e] = seq[e] /\ seq[e] # 0

\* The counter is at or above each id in the ring, so the number it gives
\* next is above all of them.
RingBelowCounter ==
    /\ \A i \in DOMAIN ring : turn[ring[i]] # 0 /\ ident[ring[i]] <= counter
    /\ \A i, j \in DOMAIN ring :
         i < j => /\ ring[i] # ring[j]
                  /\ from[ring[j]] = "counter" => ident[ring[i]] < ident[ring[j]]

\* While the ids come from the ledger one at a time, the write in flight has
\* the highest number, and the order of dispatch is that of the numbers.
InLedgerOrder ==
    orderly =>
        /\ \A e \in InFlight : seq[e] = drawn
        /\ \A e \in Events : turn[e] # 0 => from[e] = "ledger" /\ e \in rows
        /\ \A e, f \in Events :
             e # f /\ turn[e] # 0 /\ turn[f] # 0 /\ turn[e] <= turn[f] => seq[e] < seq[f]

\* A place in the order of dispatch is never above the number of dispatches.
TurnsCounted == \A e \in Events : turn[e] <= Cardinality(Dispatched)

\* A client has all it could read up to its cursor, which is the number of a
\* row; once live, what it does not have is queued for it or not yet sent.
ClientsKeepUp ==
    orderly =>
        \A c \in Clients :
            /\ cursor[c] # 0 => \E f \in rows : seq[f] = cursor[c]
            /\ \A e \in queue[c] : turn[e] # 0
            /\ \A e \in rows : Visible(c, e) /\ seq[e] <= cursor[c] => e \in got[c]
            /\ link[c] = "live" =>
                  \A e \in rows : Visible(c, e) =>
                      e \in got[c] \cup queue[c] \/ pub[e] = "committed"

-----------------------------------------------------------------------------
\* One dispatch of e under the id n.
Sent(e, n, src) ==
    /\ pub' = [pub EXCEPT ![e] = "announced"]
    /\ ident' = [ident EXCEPT ![e] = n] /\ from' = [from EXCEPT ![e] = src]
    /\ turn' = [turn EXCEPT ![e] = Cardinality(Dispatched) + 1]
    /\ ring' = Remember(ring, e)
    /\ queue' = [c \in Clients |-> IF link[c] # "off" /\ Matches(c, e)
                                   THEN queue[c] \cup {e} ELSE queue[c]]
    /\ seq' = seq /\ drawn' = drawn /\ rows' = rows /\ synced' = synced
    /\ link' = link /\ got' = got /\ cursor' = cursor
    /\ src = "counter" => /\ pub[e] \in {"new", "inserted", "committed"} /\ orderly' = FALSE
                          /\ n = counter + 1 /\ counter' = counter + 1
    /\ src = "ledger" => /\ pub[e] = "committed" /\ orderly' = orderly /\ n = seq[e]
                         /\ counter' = IF seq[e] > counter THEN seq[e] ELSE counter

LEMMA Sends ==
  ASSUME NEW e \in Events, PublishUnscoped(e) \/ LedgerFails(e) \/ Announce(e)
  PROVE  \E n, src : src \in {"counter", "ledger"} /\ Sent(e, n, src)
<1>1. CASE PublishUnscoped(e)
  BY <1>1 DEF PublishUnscoped, FromCounter, Dispatch, Dispatched, Sent, ledgerVars
<1>2. CASE LedgerFails(e)
  BY <1>2 DEF LedgerFails, FromCounter, Dispatch, Dispatched, Sent, ledgerVars
<1>3. CASE Announce(e)
  BY <1>3 DEF Announce, Dispatch, Dispatched, Sent, ledgerVars
<1> QED
  BY <1>1, <1>2, <1>3

LEMMA NumberedStep == TypeOK /\ Numbered /\ [Next]_vars => Numbered'
<1> SUFFICES ASSUME TypeOK, Numbered, [Next]_vars PROVE Numbered'
  OBVIOUS
<1>1. ASSUME NEW e \in Events, PublishUnscoped(e) \/ LedgerFails(e) \/ Announce(e)
      PROVE  Numbered'
  <2>1. PICK n, src : src \in {"counter", "ledger"} /\ Sent(e, n, src)
    BY <1>1, Sends
  <2>2. seq' = seq /\ drawn' = drawn /\ rows' = rows
    BY <2>1 DEF Sent
  <2>3. /\ pub[e] \in {"new", "inserted", "committed"}
        /\ pub' = [pub EXCEPT ![e] = "announced"]
        /\ turn' = [turn EXCEPT ![e] = Cardinality(Dispatched) + 1]
    BY <2>1 DEF Sent
  <2>4. Cardinality(Dispatched) + 1 # 0
    BY DispatchedCount
  <2>5. \A f \in Events : f # e => pub'[f] = pub[f] /\ turn'[f] = turn[f]
    BY <2>3 DEF TypeOK
  <2>6. pub'[e] = "announced" /\ turn'[e] # 0
    BY <2>3, <2>4 DEF TypeOK
  <2>7. e \in rows => seq[e] # 0
    BY DEF Numbered
  <2> QED
    BY <2>2, <2>5, <2>6, <2>7 DEF Numbered
<1>2. ASSUME NEW e \in Events, LedgerInsert(e) PROVE Numbered'
  <2>1. /\ pub[e] = "new" /\ drawn' = drawn + 1 /\ seq' = [seq EXCEPT ![e] = drawn + 1]
        /\ pub' = [pub EXCEPT ![e] = "inserted"] /\ rows' = rows /\ turn' = turn
    BY <1>2 DEF LedgerInsert, memVars
  <2>2. seq[e] = 0 /\ e \notin rows /\ turn[e] = 0
    BY <2>1 DEF Numbered
  <2>3. /\ seq'[e] = drawn + 1 /\ pub'[e] = "inserted"
        /\ \A f \in Events : f # e => pub'[f] = pub[f] /\ seq'[f] = seq[f]
    BY <2>1 DEF TypeOK
  <2>4. drawn \in Nat /\ \A f \in Events : seq[f] \in Nat
    BY DEF TypeOK
  <2>5. \A f \in Events : seq'[f] <= drawn'
    BY <2>1, <2>3, <2>4 DEF Numbered
  <2>6. \A f, g \in Events : f # g /\ seq'[f] = seq'[g] => seq'[f] = 0
    BY <2>3, <2>4 DEF Numbered
  <2>7. \A f \in Events :
         /\ pub'[f] = "new" => seq'[f] = 0
         /\ pub'[f] \in {"inserted", "committed"} => seq'[f] # 0
         /\ pub'[f] = "committed" => f \in rows
         /\ f \in rows => seq'[f] # 0 /\ pub'[f] \in {"committed", "announced", "lost"}
         /\ pub'[f] = "announced" <=> turn[f] # 0
    BY <2>2, <2>3, <2>4 DEF Numbered
  <2> QED
    BY <2>1, <2>5, <2>6, <2>7 DEF Numbered
<1>3. ASSUME NEW e \in Events, LedgerCommit(e) PROVE Numbered'
  <2>1. /\ pub[e] = "inserted" /\ rows' = rows \cup {e} /\ seq' = seq /\ drawn' = drawn
        /\ pub' = [pub EXCEPT ![e] = "committed"] /\ turn' = turn
    BY <1>3 DEF LedgerCommit, memVars
  <2>2. pub'[e] = "committed" /\ \A f \in Events : f # e => pub'[f] = pub[f]
    BY <2>1 DEF TypeOK
  <2> QED
    BY <2>1, <2>2 DEF Numbered
<1>4. CASE Restart
  <2>1. /\ \A f \in Events : pub'[f] = IF f \in InFlight THEN "lost" ELSE pub[f]
        /\ seq' = seq /\ drawn' = drawn /\ rows' = rows /\ turn' = turn
    BY <1>4 DEF Restart, Down, ledgerVars
  <2> QED
    BY <2>1 DEF Numbered, InFlight
<1>5. CASE \/ \E c \in Clients : Connect(c) \/ CatchUp(c) \/ Receive(c) \/ Disconnect(c)
           \/ UNCHANGED vars
  <2>1. UNCHANGED <<pub, seq, drawn, rows, turn>>
    BY <1>5 DEF Connect, CatchUp, Receive, Disconnect, ledgerVars, memVars, vars
  <2> QED
    BY <2>1 DEF Numbered
<1> QED
  BY <1>1, <1>2, <1>3, <1>4, <1>5, StepCases

\* What the steps of the clients leave alone.
LEMMA ClientsOnlyRead ==
  ASSUME \/ \E c \in Clients : Connect(c) \/ CatchUp(c) \/ Receive(c) \/ Disconnect(c)
         \/ UNCHANGED vars
  PROVE  UNCHANGED <<pub, seq, drawn, rows, counter, ident, from, turn, ring, synced, orderly>>
BY DEF Connect, CatchUp, Receive, Disconnect, ledgerVars, memVars, vars

LEMMA LedgerIdsStep == TypeOK /\ Numbered /\ LedgerIds /\ [Next]_vars => LedgerIds'
<1> SUFFICES ASSUME TypeOK, Numbered, LedgerIds, [Next]_vars PROVE LedgerIds'
  OBVIOUS
<1>1. ASSUME NEW e \in Events, PublishUnscoped(e) \/ LedgerFails(e) \/ Announce(e)
      PROVE  LedgerIds'
  <2>1. PICK n, src : src \in {"counter", "ledger"} /\ Sent(e, n, src)
    BY <1>1, Sends
  <2>2. \A f \in Events : f # e => ident'[f] = ident[f] /\ from'[f] = from[f] /\ turn'[f] = turn[f]
    BY <2>1 DEF Sent, TypeOK
  <2>3. from'[e] = src /\ (src = "ledger" => ident'[e] = seq[e] /\ pub[e] = "committed") /\ seq' = seq
    BY <2>1 DEF Sent, TypeOK
  <2>4. from'[e] = "ledger" => ident'[e] = seq[e] /\ seq[e] # 0
    BY <2>3 DEF Numbered
  <2> QED
    BY <2>1, <2>2, <2>3, <2>4 DEF LedgerIds
<1>2. ASSUME NEW e \in Events, LedgerInsert(e) PROVE LedgerIds'
  <2>1. UNCHANGED <<ident, from, turn>> /\ \A f \in Events : f # e => seq'[f] = seq[f]
    BY <1>2 DEF LedgerInsert, memVars, TypeOK
  <2>2. seq[e] = 0
    BY <1>2 DEF LedgerInsert, Numbered
  <2>3. from[e] # "ledger"
    BY <2>2 DEF LedgerIds
  <2> QED
    BY <2>1, <2>3 DEF LedgerIds
<1>3. CASE \/ \E e \in Events : LedgerCommit(e)
           \/ \E c \in Clients : Connect(c) \/ CatchUp(c) \/ Receive(c) \/ Disconnect(c)
           \/ Restart \/ UNCHANGED vars
  <2>1. UNCHANGED <<ident, from, turn, seq>>
    BY <1>3, ClientsOnlyRead DEF LedgerCommit, Restart, Down, ledgerVars, memVars
  <2> QED
    BY <2>1 DEF LedgerIds
<1> QED
  BY <1>1, <1>2, <1>3, StepCases

-----------------------------------------------------------------------------
(***************************************************************************)
(* The ring and the counter.                                               *)
(***************************************************************************)

\* Remembering an event adds it behind those that stay, in their order.
LEMMA RememberKeepsOrder ==
  ASSUME NEW r \in Seq(Events), NEW e \in Events
  PROVE  /\ \A j \in DOMAIN Remember(r, e) :
                \/ Remember(r, e)[j] = e
                \/ \E l \in DOMAIN r : Remember(r, e)[j] = r[l]
         /\ \A i, j \in DOMAIN Remember(r, e) :
                i < j => \E k \in DOMAIN r :
                            /\ Remember(r, e)[i] = r[k]
                            /\ \/ Remember(r, e)[j] = e
                               \/ \E l \in DOMAIN r : k < l /\ Remember(r, e)[j] = r[l]
<1> DEFINE longer == Append(r, e)
           m == Remember(r, e)
<1>1. PICK d \in {0, 1} : \A j \in DOMAIN m : j + d \in DOMAIN longer /\ m[j] = longer[j + d]
  <2>1. longer \in Seq(Events) /\ Len(longer) = Len(r) + 1 /\ Len(r) \in Nat
    OBVIOUS
  <2>2. CASE Len(longer) > RingSize
    <3>1. m = Tail(longer)
      BY <2>2 DEF Remember
    <3>2. /\ Len(Tail(longer)) = Len(r)
          /\ \A j \in 1..Len(r) : Tail(longer)[j] = longer[j + 1]
      BY <2>1
    <3>3. \A j \in DOMAIN m : j + 1 \in DOMAIN longer /\ m[j] = longer[j + 1]
      BY <2>1, <3>1, <3>2
    <3> QED
      BY <3>3
  <2>3. CASE ~ (Len(longer) > RingSize)
    <3>1. m = longer
      BY <2>3 DEF Remember
    <3>2. \A j \in DOMAIN m : j + 0 = j
      BY <2>1, <3>1
    <3> QED
      BY <3>1, <3>2
  <2> QED
    BY <2>2, <2>3
<1>2. /\ DOMAIN longer = 1..(Len(r) + 1) /\ DOMAIN r = 1..Len(r) /\ Len(r) \in Nat
      /\ \A k \in DOMAIN longer : longer[k] = IF k = Len(r) + 1 THEN e ELSE r[k]
  OBVIOUS
<1>3. m \in Seq(Events)
  <2>1. longer \in Seq(Events) /\ Len(longer) = Len(r) + 1 /\ Len(r) \in Nat
    OBVIOUS
  <2>2. Tail(longer) \in Seq(Events)
    BY <2>1
  <2> QED
    BY <2>1, <2>2 DEF Remember
<1>4. DOMAIN m = 1..Len(m) /\ Len(m) \in Nat
  BY <1>3
<1> HIDE DEF m, longer
<1>5. \A j \in DOMAIN m : m[j] = e \/ \E l \in DOMAIN r : m[j] = r[l]
  <2> TAKE j \in DOMAIN m
  <2>1. j + d \in DOMAIN longer /\ m[j] = longer[j + d]
    BY <1>1
  <2>2. CASE j + d = Len(r) + 1
    BY <1>2, <2>1, <2>2
  <2>3. CASE j + d # Len(r) + 1
    <3>1. j + d \in DOMAIN r /\ m[j] = r[j + d]
      BY <1>2, <2>1, <2>3
    <3> QED
      BY <3>1
  <2> QED
    BY <2>2, <2>3
<1>6. \A i, j \in DOMAIN m :
         i < j => \E k \in DOMAIN r :
                     /\ m[i] = r[k]
                     /\ m[j] = e \/ \E l \in DOMAIN r : k < l /\ m[j] = r[l]
  <2> SUFFICES ASSUME NEW i \in DOMAIN m, NEW j \in DOMAIN m, i < j
               PROVE  \E k \in DOMAIN r :
                         /\ m[i] = r[k]
                         /\ m[j] = e \/ \E l \in DOMAIN r : k < l /\ m[j] = r[l]
    OBVIOUS
  <2>1. i + d \in DOMAIN longer /\ m[i] = longer[i + d] /\ j + d \in DOMAIN longer
        /\ m[j] = longer[j + d]
    BY <1>1
  <2>2. i + d < j + d /\ i + d \in DOMAIN r /\ m[i] = r[i + d]
    BY <1>2, <1>4, <2>1
  <2>3. CASE j + d = Len(r) + 1
    <3>1. m[j] = e
      BY <1>2, <2>1, <2>3
    <3> QED
      BY <2>2, <3>1
  <2>4. CASE j + d # Len(r) + 1
    <3>1. j + d \in DOMAIN r /\ m[j] = r[j + d]
      BY <1>2, <2>1, <2>4
    <3> QED
      BY <2>2, <3>1
  <2> QED
    BY <2>3, <2>4
<1> QED
  BY <1>5, <1>6 DEF m

LEMMA RingStep ==
  TypeOK /\ Numbered /\ RingBelowCounter /\ [Next]_vars => RingBelowCounter'
<1> SUFFICES ASSUME TypeOK, Numbered, RingBelowCounter, [Next]_vars PROVE RingBelowCounter'
  OBVIOUS
<1>0. ring \in Seq(Events) /\ counter \in Nat /\ \A i \in DOMAIN ring : ring[i] \in Events
  BY DEF TypeOK
<1>1. ASSUME NEW e \in Events, PublishUnscoped(e) \/ LedgerFails(e) \/ Announce(e)
      PROVE  RingBelowCounter'
  <2>1. PICK n, src : src \in {"counter", "ledger"} /\ Sent(e, n, src)
    BY <1>1, Sends
  <2>2. turn[e] = 0
    BY <2>1 DEF Sent, Numbered
  <2>3. \A i \in DOMAIN ring : ring[i] # e
    BY <2>2 DEF RingBelowCounter
  <2>4. turn'[e] # 0
    BY <2>1, DispatchedCount DEF Sent, TypeOK
  <2>5. ident'[e] = n /\ from'[e] = src /\ ring' = Remember(ring, e)
    BY <2>1 DEF Sent, TypeOK
  <2>6. \A i \in DOMAIN ring : /\ ident'[ring[i]] = ident[ring[i]] /\ from'[ring[i]] = from[ring[i]]
                               /\ turn'[ring[i]] = turn[ring[i]] /\ ident[ring[i]] \in Nat
    BY <1>0, <2>1, <2>3 DEF Sent, TypeOK
  <2>7. n <= counter' /\ counter <= counter' /\ counter' \in Nat /\ n \in Nat
    <3>1. seq[e] \in Nat
      BY DEF TypeOK
    <3> QED
      BY <1>0, <2>1, <3>1 DEF Sent
  <2>8. src = "counter" => n = counter + 1
    BY <2>1 DEF Sent
  <2>9. \A j \in DOMAIN ring' : turn'[ring'[j]] # 0 /\ ident'[ring'[j]] <= counter'
    <3> TAKE j \in DOMAIN ring'
    <3>1. CASE ring'[j] = e
      BY <2>4, <2>5, <2>7, <3>1
    <3>2. ASSUME NEW l \in DOMAIN ring, ring'[j] = ring[l]
          PROVE  turn'[ring'[j]] # 0 /\ ident'[ring'[j]] <= counter'
      BY <1>0, <2>6, <2>7, <3>2 DEF RingBelowCounter
    <3> QED
      BY <1>0, <2>5, <3>1, <3>2, RememberKeepsOrder
  <2>10. ASSUME NEW i \in DOMAIN ring', NEW j \in DOMAIN ring', i < j
         PROVE  /\ ring'[i] # ring'[j]
                /\ from'[ring'[j]] = "counter" => ident'[ring'[i]] < ident'[ring'[j]]
    <3>1. PICK k \in DOMAIN ring :
              /\ ring'[i] = ring[k]
              /\ ring'[j] = e \/ \E l \in DOMAIN ring : k < l /\ ring'[j] = ring[l]
      BY <1>0, <2>5, <2>10, RememberKeepsOrder
    <3>2. CASE ring'[j] = e
      <4>1. ring[k] # e /\ ident'[ring[k]] <= counter /\ ident'[ring[k]] \in Nat
        BY <2>3, <2>6 DEF RingBelowCounter
      <4> QED
        BY <1>0, <2>5, <2>8, <3>1, <3>2, <4>1
    <3>3. ASSUME NEW l \in DOMAIN ring, k < l, ring'[j] = ring[l]
          PROVE  /\ ring'[i] # ring'[j]
                 /\ from'[ring'[j]] = "counter" => ident'[ring'[i]] < ident'[ring'[j]]
      BY <2>6, <3>1, <3>3 DEF RingBelowCounter
    <3> QED
      BY <3>1, <3>2, <3>3
  <2> QED
    BY <2>9, <2>10 DEF RingBelowCounter
<1>2. CASE Restart
  <2>1. ring' = <<>>
    BY <1>2 DEF Restart, Down
  <2> QED
    BY <2>1 DEF RingBelowCounter
<1>3. CASE \/ \E e \in Events : LedgerInsert(e) \/ LedgerCommit(e)
           \/ \E c \in Clients : Connect(c) \/ CatchUp(c) \/ Receive(c) \/ Disconnect(c)
           \/ UNCHANGED vars
  <2>1. UNCHANGED <<ring, ident, from, turn, counter>>
    BY <1>3, ClientsOnlyRead DEF LedgerInsert, LedgerCommit, memVars
  <2> QED
    BY <2>1 DEF RingBelowCounter
<1> QED
  BY <1>1, <1>2, <1>3, StepCases

LEMMA CoversStep ==
  TypeOK /\ Numbered /\ CounterCovers /\ [Next]_vars => CounterCovers'
<1> SUFFICES ASSUME TypeOK, Numbered, CounterCovers, [Next]_vars PROVE CounterCovers'
  OBVIOUS
<1>0. counter \in Nat /\ \A e \in Events : seq[e] \in Nat
  BY DEF TypeOK
<1>1. ASSUME NEW e \in Events, PublishUnscoped(e) \/ LedgerFails(e) \/ Announce(e)
      PROVE  CounterCovers'
  <2>1. PICK n, src : src \in {"counter", "ledger"} /\ Sent(e, n, src)
    BY <1>1, Sends
  <2>2. rows' = rows /\ seq' = seq /\ synced' = synced
        /\ \A f \in Events : f # e => pub'[f] = pub[f]
    BY <2>1 DEF Sent, TypeOK
  <2>3. counter' \in Nat /\ counter <= counter'
    BY <1>0, <2>1 DEF Sent
  <2>4. from'[e] = src /\ (src = "ledger" => seq[e] <= counter')
    BY <1>0, <2>1 DEF Sent, TypeOK
  <2>4a. \A f \in Events : f # e => from'[f] = from[f]
    BY <2>1 DEF Sent, TypeOK
  <2>5. ASSUME synced, NEW f \in rows
        PROVE  pub'[f] = "committed" \/ from'[f] = "counter" \/ seq[f] <= counter'
    <3>1. f \in Events /\ (pub[f] = "committed" \/ from[f] = "counter" \/ seq[f] <= counter)
      BY <2>5 DEF CounterCovers, TypeOK
    <3> QED
      BY <1>0, <2>1, <2>2, <2>3, <2>4, <2>4a, <3>1
  <2> QED
    BY <2>2, <2>5 DEF CounterCovers
<1>2. ASSUME NEW e \in Events, LedgerInsert(e) \/ LedgerCommit(e) PROVE CounterCovers'
  <2>1. counter' = counter /\ synced' = synced /\ from' = from
        /\ \A f \in Events : f # e => (f \in rows' <=> f \in rows) /\ seq'[f] = seq[f] /\ pub'[f] = pub[f]
    BY <1>2 DEF LedgerInsert, LedgerCommit, memVars, TypeOK
  <2>2. e \in rows' => pub'[e] = "committed"
    <3>1. CASE LedgerInsert(e)
      BY <3>1 DEF LedgerInsert, Numbered
    <3>2. CASE LedgerCommit(e)
      BY <3>2 DEF LedgerCommit, TypeOK
    <3> QED
      BY <1>2, <3>1, <3>2
  <2>3. rows' \subseteq Events
    BY <1>2 DEF LedgerInsert, LedgerCommit, TypeOK
  <2> QED
    BY <2>1, <2>2, <2>3 DEF CounterCovers
<1>3. CASE Restart
  <2>1. seq' = seq /\ rows' = rows
    BY <1>3 DEF Restart, Down, ledgerVars
  <2>2. \/ synced' = FALSE
        \/ Highest(counter', SeqOf(rows) \cup {0})
    BY <1>3 DEF Restart
  <2> QED
    BY <2>1, <2>2 DEF CounterCovers, Highest, SeqOf
<1>4. CASE \/ \E c \in Clients : Connect(c) \/ CatchUp(c) \/ Receive(c) \/ Disconnect(c)
           \/ UNCHANGED vars
  <2>1. UNCHANGED <<synced, rows, pub, seq, counter, from>>
    BY <1>4, ClientsOnlyRead
  <2> QED
    BY <2>1 DEF CounterCovers
<1> QED
  BY <1>1, <1>2, <1>3, <1>4, StepCases

LEMMA NumbersInit == Init => Numbered /\ LedgerIds /\ RingBelowCounter /\ CounterCovers
BY DEF Init, Numbered, LedgerIds, RingBelowCounter, CounterCovers

\* A number the counter gives is above every id still in the ring, so two
\* events of the ring that share an id are a counter one and a later ledger
\* one: the ledger may catch up with the counter, never the other way round.
THEOREM CounterNumbersAreFresh == Spec => []SharedIdsAreLedgerLate
<1> DEFINE Inv == TypeOK /\ Numbered /\ LedgerIds /\ RingBelowCounter
<1>1. Init => Inv
  BY TypeInit, NumbersInit
<1>2. Inv /\ [Next]_vars => Inv'
  BY TypeStep, NumberedStep, LedgerIdsStep, RingStep
<1>3. Inv => SharedIdsAreLedgerLate
  <2> SUFFICES ASSUME Inv, NEW i \in DOMAIN ring, NEW j \in DOMAIN ring, i < j,
                      ident[ring[i]] = ident[ring[j]]
               PROVE  from[ring[i]] = "counter" /\ from[ring[j]] = "ledger"
    BY DEF SharedIdsAreLedgerLate
  <2>1. ring[i] \in Events /\ ring[j] \in Events
    BY DEF TypeOK
  <2>2. ident[ring[i]] \in Nat /\ ident[ring[j]] \in Nat
    BY <2>1 DEF TypeOK
  <2>3. from[ring[j]] # "counter" /\ ring[i] # ring[j]
    BY <2>2 DEF RingBelowCounter
  <2>4. from[ring[j]] = "ledger" /\ from[ring[i]] \in {"counter", "ledger"}
    BY <2>1, <2>3 DEF LedgerIds, RingBelowCounter
  <2>5. from[ring[i]] # "ledger"
    BY <2>1, <2>3, <2>4 DEF LedgerIds, Numbered
  <2> QED
    BY <2>4, <2>5
<1> QED
  BY <1>1, <1>2, <1>3, PTL DEF Spec

\* Once the counter has been set from the ledger at startup it never falls
\* behind a row whose publication has returned.
THEOREM CounterKeepsUp == Spec => []CounterCovers
<1> DEFINE Inv == TypeOK /\ Numbered /\ CounterCovers
<1>1. Init => Inv
  BY TypeInit, NumbersInit
<1>2. Inv /\ [Next]_vars => Inv'
  BY TypeStep, NumberedStep, CoversStep
<1> QED
  BY <1>1, <1>2, PTL DEF Spec

-----------------------------------------------------------------------------
(***************************************************************************)
(* Nothing is lost while the ids come from the ledger in order.            *)
(***************************************************************************)

LEMMA TurnsStep == TypeOK /\ Numbered /\ TurnsCounted /\ [Next]_vars => TurnsCounted'
<1> SUFFICES ASSUME TypeOK, Numbered, TurnsCounted, [Next]_vars PROVE TurnsCounted'
  OBVIOUS
<1>1. ASSUME NEW e \in Events, PublishUnscoped(e) \/ LedgerFails(e) \/ Announce(e)
      PROVE  TurnsCounted'
  <2>1. PICK n, src : src \in {"counter", "ledger"} /\ Sent(e, n, src)
    BY <1>1, Sends
  <2>2. e \notin Dispatched
    BY <2>1 DEF Sent, Numbered, Dispatched
  <2>3. /\ turn'[e] = Cardinality(Dispatched) + 1
        /\ \A f \in Events : f # e => turn'[f] = turn[f]
    BY <2>1 DEF Sent, TypeOK
  <2>4. Dispatched' = Dispatched \cup {e}
    BY <2>3, DispatchedCount DEF Dispatched
  <2>5. Cardinality(Dispatched') = Cardinality(Dispatched) + 1
    BY <2>2, <2>4, DispatchedCount, FS_AddElement
  <2>6. \A f \in Events : turn[f] \in Nat /\ turn[f] <= Cardinality(Dispatched)
    BY DEF TypeOK, TurnsCounted
  <2>7. \A f \in Events : turn'[f] <= Cardinality(Dispatched')
    BY <2>3, <2>5, <2>6, DispatchedCount
  <2> QED
    BY <2>7 DEF TurnsCounted
<1>2. CASE \/ \E e \in Events : LedgerInsert(e) \/ LedgerCommit(e)
           \/ \E c \in Clients : Connect(c) \/ CatchUp(c) \/ Receive(c) \/ Disconnect(c)
           \/ Restart \/ UNCHANGED vars
  <2>1. turn' = turn
    BY <1>2, ClientsOnlyRead DEF LedgerInsert, LedgerCommit, Restart, Down, memVars
  <2> QED
    BY <2>1 DEF TurnsCounted, Dispatched
<1> QED
  BY <1>1, <1>2, StepCases

LEMMA OrderStep ==
  /\ TypeOK /\ Numbered /\ TurnsCounted /\ InLedgerOrder /\ [Next]_vars
  => InLedgerOrder'
<1> SUFFICES ASSUME TypeOK, Numbered, TurnsCounted, InLedgerOrder, [Next]_vars, orderly'
             PROVE  InLedgerOrder'
  BY DEF InLedgerOrder
<1>0. /\ drawn \in Nat
      /\ \A e \in Events : seq[e] \in Nat /\ turn[e] \in Nat /\ seq[e] <= drawn
  BY DEF TypeOK, Numbered
<1>1. ASSUME NEW e \in Events, PublishUnscoped(e) \/ LedgerFails(e) \/ Announce(e)
      PROVE  InLedgerOrder'
  <2>1. PICK n, src : src \in {"counter", "ledger"} /\ Sent(e, n, src)
    BY <1>1, Sends
  <2>2. src = "ledger" /\ orderly /\ pub[e] = "committed"
    BY <2>1 DEF Sent
  <2>3. seq' = seq /\ rows' = rows /\ drawn' = drawn
    BY <2>1 DEF Sent
  <2>4. /\ turn'[e] = Cardinality(Dispatched) + 1 /\ from'[e] = "ledger" /\ pub'[e] = "announced"
        /\ \A f \in Events : f # e => turn'[f] = turn[f] /\ from'[f] = from[f] /\ pub'[f] = pub[f]
    BY <2>1, <2>2 DEF Sent, TypeOK
  <2>5. e \in rows /\ seq[e] = drawn /\ turn[e] = 0 /\ seq[e] # 0
    BY <2>2 DEF InLedgerOrder, InFlight, Numbered
  <2>6. \A f \in Events : f # e => seq[f] < seq[e]
    BY <1>0, <2>5 DEF Numbered
  <2>7. \A f \in Events : turn[f] < turn'[e]
    BY <1>0, <2>4, DispatchedCount DEF TurnsCounted
  <2>8. \A f \in InFlight' : seq'[f] = drawn'
    BY <2>2, <2>3, <2>4 DEF InLedgerOrder, InFlight
  <2>9. \A f \in Events : turn'[f] # 0 => from'[f] = "ledger" /\ f \in rows'
    BY <2>2, <2>3, <2>4, <2>5 DEF InLedgerOrder
  <2>10. ASSUME NEW f \in Events, NEW g \in Events, f # g, turn'[f] # 0, turn'[g] # 0,
                turn'[f] <= turn'[g]
         PROVE  seq'[f] < seq'[g]
    <3>1. CASE f = e
      <4>1. turn'[g] < turn'[e] /\ turn'[g] \in Nat /\ turn'[e] \in Nat
        BY <1>0, <2>4, <2>7, <2>10, <3>1, DispatchedCount
      <4> QED
        BY <2>10, <3>1, <4>1
    <3>2. CASE g = e
      BY <2>3, <2>6, <2>10, <3>2
    <3>3. CASE f # e /\ g # e
      BY <2>2, <2>3, <2>4, <2>10, <3>3 DEF InLedgerOrder
    <3> QED
      BY <3>1, <3>2, <3>3
  <2> QED
    BY <2>8, <2>9, <2>10 DEF InLedgerOrder
<1>2. ASSUME NEW e \in Events, LedgerInsert(e) PROVE InLedgerOrder'
  <2>1. orderly /\ InFlight = {}
    BY <1>2 DEF LedgerInsert
  <2>2. /\ pub[e] = "new" /\ drawn' = drawn + 1 /\ rows' = rows /\ turn' = turn /\ from' = from
        /\ seq'[e] = drawn + 1
        /\ \A f \in Events : f # e => pub'[f] = pub[f] /\ seq'[f] = seq[f]
    BY <1>2 DEF LedgerInsert, memVars, TypeOK
  <2>3. turn[e] = 0
    BY <2>2 DEF Numbered
  <2>4. \A f \in InFlight' : f = e
    BY <2>1, <2>2 DEF InFlight
  <2> QED
    BY <2>1, <2>2, <2>3, <2>4 DEF InLedgerOrder
<1>3. ASSUME NEW e \in Events, LedgerCommit(e) PROVE InLedgerOrder'
  <2>1. orderly
    BY <1>3 DEF LedgerCommit
  <2>2. /\ pub[e] = "inserted" /\ drawn' = drawn /\ rows' = rows \cup {e} /\ turn' = turn /\ from' = from
        /\ seq' = seq /\ \A f \in Events : f # e => pub'[f] = pub[f]
    BY <1>3 DEF LedgerCommit, memVars, TypeOK
  <2>3. \A f \in InFlight' : f \in InFlight
    BY <2>2 DEF InFlight
  <2> QED
    BY <2>1, <2>2, <2>3 DEF InLedgerOrder
<1>4. CASE Restart
  <2>1. /\ UNCHANGED <<seq, drawn, rows, turn, from, orderly>>
        /\ \A f \in Events : pub'[f] = IF f \in InFlight THEN "lost" ELSE pub[f]
    BY <1>4 DEF Restart, Down, ledgerVars
  <2>2. InFlight' = {}
    BY <2>1 DEF InFlight
  <2> QED
    BY <2>1, <2>2 DEF InLedgerOrder
<1>5. CASE \/ \E c \in Clients : Connect(c) \/ CatchUp(c) \/ Receive(c) \/ Disconnect(c)
           \/ UNCHANGED vars
  <2>1. UNCHANGED <<pub, seq, drawn, rows, turn, from, orderly>>
    BY <1>5, ClientsOnlyRead
  <2> QED
    BY <2>1 DEF InLedgerOrder, InFlight
<1> QED
  BY <1>1, <1>2, <1>3, <1>4, <1>5, StepCases

\* A page is the lower part of what is above the cursor: with a row it has
\* every visible row of a smaller number.
LEMMA PageIsLowerPart ==
  ASSUME TypeOK, NEW c \in Clients, NEW k, NEW p \in Page(c, k),
         NEW e \in Above(c, k), seq[e] <= seq[p]
  PROVE  e \in Page(c, k)
<1> DEFINE Below(x) == {f \in Above(c, k) : seq[f] < seq[x]}
<1>1. p \in Above(c, k) /\ Above(c, k) \subseteq Events
  BY DEF Page, Above, TypeOK
<1>2. Below(e) \subseteq Below(p) /\ Below(p) \subseteq Events
  <2>1. \A f \in Above(c, k) : seq[f] \in Nat
    BY <1>1 DEF TypeOK
  <2> QED
    BY <1>1, <2>1
<1>3. IsFiniteSet(Below(p))
  BY <1>2, StreamConstants, FS_Subset
<1>4. Cardinality(Below(e)) <= Cardinality(Below(p))
  BY <1>2, <1>3, FS_Subset
<1>5. Cardinality(Below(p)) < PageSize
  BY DEF Page
<1>6. Cardinality(Below(e)) \in Nat /\ Cardinality(Below(p)) \in Nat /\ PageSize \in Nat
  BY <1>2, <1>3, StreamConstants, FS_Subset, FS_CardinalityType
<1>7. Cardinality(Below(e)) < PageSize
  BY <1>4, <1>5, <1>6
<1> QED
  BY <1>7 DEF Page

OrderInv == /\ TypeOK /\ Numbered /\ LedgerIds /\ RingBelowCounter
            /\ InLedgerOrder /\ TurnsCounted /\ ClientsKeepUp

\* The steps of the publications keep the clients supplied.
LEMMA PublishSupplies ==
  ASSUME OrderInv, orderly', NEW e \in Events,
         \/ PublishUnscoped(e) \/ LedgerFails(e) \/ Announce(e)
         \/ LedgerInsert(e) \/ LedgerCommit(e)
  PROVE  ClientsKeepUp'
<1> USE DEF OrderInv
<1>1. CASE PublishUnscoped(e) \/ LedgerFails(e) \/ Announce(e)
  <2>1. PICK n, src : src \in {"counter", "ledger"} /\ Sent(e, n, src)
    BY <1>1, Sends
  <2>2. src = "ledger" /\ orderly
    BY <2>1 DEF Sent
  <2>3. UNCHANGED <<rows, seq, got, cursor, link>>
    BY <2>1 DEF Sent
  <2>4. turn'[e] # 0 /\ pub'[e] = "announced"
        /\ \A f \in Events : f # e => turn'[f] = turn[f] /\ pub'[f] = pub[f]
    BY <2>1, DispatchedCount DEF Sent, TypeOK
  <2>5. \A c \in Clients :
           queue'[c] = IF link[c] # "off" /\ Matches(c, e) THEN queue[c] \cup {e} ELSE queue[c]
    BY <2>1 DEF Sent
  <2>6. ASSUME NEW c \in Clients PROVE \A f \in queue'[c] : turn'[f] # 0
    <3>1. \A f \in queue[c] : f \in Events /\ turn[f] # 0
      BY <2>2 DEF ClientsKeepUp, TypeOK
    <3> QED
      BY <2>4, <2>5, <3>1
  <2>7. ASSUME NEW c \in Clients, link[c] = "live", NEW f \in rows, Visible(c, f)
        PROVE  f \in got[c] \cup queue'[c] \/ pub'[f] = "committed"
    <3>1. CASE f = e
      BY <2>5, <2>7, <3>1 DEF Visible, Matches
    <3>2. CASE f # e
      <4>1. f \in got[c] \cup queue[c] \/ pub[f] = "committed"
        BY <2>2, <2>7 DEF ClientsKeepUp
      <4>2. f \in Events
        BY DEF TypeOK
      <4> QED
        BY <2>4, <2>5, <3>2, <4>1, <4>2
    <3> QED
      BY <3>1, <3>2
  <2> QED
    BY <2>2, <2>3, <2>6, <2>7 DEF ClientsKeepUp, Visible
<1>2. CASE LedgerInsert(e)
  <2>1. orderly /\ e \notin rows
    BY <1>2 DEF LedgerInsert, Numbered
  <2>2. /\ UNCHANGED <<rows, turn, queue, got, cursor, link>>
        /\ \A f \in Events : f # e => pub'[f] = pub[f] /\ seq'[f] = seq[f]
    BY <1>2 DEF LedgerInsert, memVars, clientVars, TypeOK
  <2>3. \A f \in rows : pub'[f] = pub[f] /\ seq'[f] = seq[f]
    BY <2>1, <2>2 DEF TypeOK
  <2> QED
    BY <2>1, <2>2, <2>3 DEF ClientsKeepUp, Visible
<1>3. CASE LedgerCommit(e)
  <2>1. orderly /\ pub[e] = "inserted"
    BY <1>3 DEF LedgerCommit
  <2>2. /\ UNCHANGED <<seq, turn, queue, got, cursor, link>> /\ rows' = rows \cup {e}
        /\ pub'[e] = "committed" /\ \A f \in Events : f # e => pub'[f] = pub[f]
    BY <1>3 DEF LedgerCommit, memVars, clientVars, TypeOK
  <2>3. e \notin rows /\ seq[e] = drawn /\ seq[e] # 0
    BY <2>1 DEF InLedgerOrder, InFlight, Numbered
  <2>4. ASSUME NEW c \in Clients, seq[e] <= cursor[c] PROVE FALSE
    <3>1. seq[e] \in Nat /\ cursor[c] \in Nat
      BY DEF TypeOK
    <3>2. PICK f \in rows : seq[f] = cursor[c]
      BY <2>1, <2>3, <2>4, <3>1 DEF ClientsKeepUp
    <3>3. f \in Events /\ seq[f] <= drawn
      BY DEF TypeOK, Numbered
    <3>4. seq[f] = seq[e] /\ f # e
      BY <2>3, <2>4, <3>1, <3>2, <3>3
    <3> QED
      BY <2>3, <3>3, <3>4 DEF Numbered
  <2>5. \A f \in rows : pub'[f] = pub[f]
    BY <2>2, <2>3 DEF TypeOK
  <2> QED
    BY <2>1, <2>2, <2>4, <2>5 DEF ClientsKeepUp, Visible
<1> QED
  BY <1>1, <1>2, <1>3

\* What holds of a client, as ClientsKeepUp says it.
Supplied(c) ==
    /\ cursor[c] # 0 => \E f \in rows : seq[f] = cursor[c]
    /\ \A e \in queue[c] : turn[e] # 0
    /\ \A e \in rows : Visible(c, e) /\ seq[e] <= cursor[c] => e \in got[c]
    /\ link[c] = "live" =>
          \A e \in rows : Visible(c, e) => e \in got[c] \cup queue[c] \/ pub[e] = "committed"

LEMMA CatchUpSupplies ==
  ASSUME OrderInv, orderly, NEW c \in Clients, CatchUp(c)
  PROVE  Supplied(c)'
<1> USE DEF OrderInv
<1> DEFINE page == Page(c, cursor[c])
<1>1. PICK n \in SeqOf(page) \cup {cursor[c]} :
          Highest(n, SeqOf(page) \cup {cursor[c]}) /\ cursor' = [cursor EXCEPT ![c] = n]
  BY DEF CatchUp
<1>2. /\ UNCHANGED <<pub, seq, rows, turn, queue>> /\ cursor'[c] = n /\ got'[c] = got[c] \cup page
      /\ link'[c] = "live" => page = Above(c, cursor[c])
  BY <1>1 DEF CatchUp, TypeOK, ledgerVars, memVars
<1>3. page \subseteq rows /\ rows \subseteq Events
  BY DEF Page, Above, TypeOK
<1>4. cursor[c] \in Nat /\ n \in Nat /\ \A f \in rows : seq[f] \in Nat
  BY <1>1, <1>3 DEF SeqOf, TypeOK
<1>5. n # 0 => \E f \in rows : seq[f] = n
  BY <1>1, <1>3 DEF SeqOf, ClientsKeepUp
<1>6. ASSUME NEW e \in rows, Visible(c, e), seq[e] <= n PROVE e \in got[c] \cup page
  <2>1. CASE seq[e] <= cursor[c]
    BY <1>6, <2>1 DEF ClientsKeepUp
  <2>2. CASE ~ (seq[e] <= cursor[c])
    <3>1. n # cursor[c] /\ e \in Above(c, cursor[c])
      BY <1>4, <1>6, <2>2 DEF Above
    <3>2. PICK p \in page : seq[p] = n
      BY <1>1, <3>1 DEF SeqOf
    <3>3. e \in page
      BY <1>6, <3>1, <3>2, PageIsLowerPart
    <3> QED
      BY <3>3
  <2> QED
    BY <2>1, <2>2
<1>7. ASSUME page = Above(c, cursor[c]), NEW e \in rows, Visible(c, e)
      PROVE  e \in got[c] \cup page
  <2>1. CASE seq[e] <= cursor[c]
    BY <1>7, <2>1 DEF ClientsKeepUp
  <2>2. CASE ~ (seq[e] <= cursor[c])
    BY <1>4, <1>7, <2>2 DEF Above
  <2> QED
    BY <2>1, <2>2
<1>8. \A e \in queue[c] : turn[e] # 0
  BY DEF ClientsKeepUp
<1> HIDE DEF page
<1> QED
  BY <1>2, <1>5, <1>6, <1>7, <1>8 DEF Supplied, Visible

LEMMA ReceiveSupplies ==
  ASSUME OrderInv, orderly, NEW c \in Clients, Receive(c)
  PROVE  Supplied(c)'
<1> USE DEF OrderInv
<1>1. PICK e \in queue[c] :
          /\ \A f \in queue[c] : turn[e] <= turn[f]
          /\ got' = [got EXCEPT ![c] = got[c] \cup {e}]
          /\ cursor' = [cursor EXCEPT ![c] = ident[e]]
          /\ queue' = [queue EXCEPT ![c] = queue[c] \ {e}]
  BY DEF Receive
<1>2. /\ UNCHANGED <<pub, seq, rows, turn, link>> /\ link[c] = "live"
      /\ cursor'[c] = ident[e] /\ got'[c] = got[c] \cup {e} /\ queue'[c] = queue[c] \ {e}
  BY <1>1 DEF Receive, TypeOK, ledgerVars, memVars
<1>3. e \in Events /\ turn[e] # 0
  BY DEF ClientsKeepUp, TypeOK
<1>4. ident[e] = seq[e] /\ e \in rows /\ pub[e] = "announced"
  BY <1>3 DEF InLedgerOrder, LedgerIds, Numbered
<1>5. \A f \in rows : Visible(c, f) => f \in got[c] \cup queue[c] \/ pub[f] = "committed"
  BY <1>2 DEF ClientsKeepUp
<1>6. ASSUME NEW f \in rows, Visible(c, f), seq[f] <= seq[e], f # e PROVE f \in got[c]
  <2>1. f \in Events /\ seq[f] \in Nat /\ seq[e] \in Nat /\ drawn \in Nat /\ seq[e] <= drawn
    BY <1>3 DEF TypeOK, Numbered
  <2>2. seq[f] # seq[e]
    BY <1>3, <1>6, <2>1 DEF Numbered
  <2>3. pub[f] # "committed"
    BY <1>6, <2>1, <2>2 DEF InLedgerOrder, InFlight
  <2>4. f \notin queue[c]
    <3>1. SUFFICES ASSUME f \in queue[c] PROVE FALSE
      OBVIOUS
    <3>2. turn[f] # 0 /\ turn[e] <= turn[f]
      BY <1>1, <3>1 DEF ClientsKeepUp
    <3>3. seq[e] < seq[f]
      BY <1>3, <1>6, <2>1, <3>2 DEF InLedgerOrder
    <3> QED
      BY <1>6, <2>1, <3>3
  <2> QED
    BY <1>5, <1>6, <2>3, <2>4
<1>7. \A f \in queue[c] : turn[f] # 0
  BY DEF ClientsKeepUp
<1> QED
  BY <1>2, <1>4, <1>5, <1>6, <1>7 DEF Supplied, Visible

LEMMA ConnectSupplies ==
  ASSUME OrderInv, orderly, NEW c \in Clients, Connect(c)
  PROVE  Supplied(c)'
<1> USE DEF OrderInv
<1>1. /\ UNCHANGED <<pub, seq, rows, turn, got, cursor>> /\ link'[c] = "catching"
      /\ \A e \in queue'[c] : \E i \in DOMAIN ring : e = ring[i]
  BY DEF Connect, TypeOK, ledgerVars, memVars
<1>2. \A e \in queue'[c] : turn[e] # 0
  BY <1>1 DEF RingBelowCounter
<1> QED
  BY <1>1, <1>2 DEF Supplied, Visible, ClientsKeepUp

LEMMA ClientsStep == OrderInv /\ [Next]_vars => ClientsKeepUp'
<1> SUFFICES ASSUME OrderInv, [Next]_vars, orderly' PROVE ClientsKeepUp'
  BY DEF ClientsKeepUp
<1>1. ASSUME NEW e \in Events, \/ PublishUnscoped(e) \/ LedgerFails(e) \/ Announce(e)
                               \/ LedgerInsert(e) \/ LedgerCommit(e)
      PROVE  ClientsKeepUp'
  BY <1>1, PublishSupplies
<1>2. ASSUME NEW c \in Clients, Connect(c) \/ CatchUp(c) \/ Receive(c) \/ Disconnect(c)
      PROVE  ClientsKeepUp'
  <2>1. UNCHANGED <<pub, seq, rows, turn, orderly>>
    BY <1>2, ClientsOnlyRead
  <2>2. \A d \in Clients : d # c => /\ link'[d] = link[d] /\ queue'[d] = queue[d]
                                     /\ got'[d] = got[d] /\ cursor'[d] = cursor[d]
    <3>1. CASE Connect(c)
      BY <3>1 DEF Connect, OrderInv, TypeOK
    <3>2. CASE CatchUp(c)
      BY <3>2 DEF CatchUp, OrderInv, TypeOK
    <3>3. CASE Receive(c)
      BY <3>3 DEF Receive, OrderInv, TypeOK
    <3>4. CASE Disconnect(c)
      BY <3>4 DEF Disconnect, OrderInv, TypeOK
    <3> QED
      BY <1>2, <3>1, <3>2, <3>3, <3>4
  <2>3. Supplied(c)'
    <3>1. CASE Disconnect(c)
      <4>1. UNCHANGED <<got, cursor>> /\ link'[c] = "off" /\ queue'[c] = {}
        BY <3>1 DEF Disconnect, OrderInv, TypeOK
      <4> QED
        BY <2>1, <4>1 DEF Supplied, Visible, OrderInv, ClientsKeepUp
    <3> QED
      BY <1>2, <2>1, <3>1, ConnectSupplies, CatchUpSupplies, ReceiveSupplies
  <2> QED
    BY <2>1, <2>2, <2>3 DEF ClientsKeepUp, Supplied, OrderInv, Visible
<1>3. CASE Restart
  <2>1. /\ UNCHANGED <<seq, rows, turn, got, cursor, orderly>>
        /\ \A c \in Clients : link'[c] = "off" /\ queue'[c] = {}
    BY <1>3 DEF Restart, Down, ledgerVars
  <2> QED
    BY <2>1 DEF ClientsKeepUp, OrderInv, Visible
<1>4. CASE UNCHANGED vars
  BY <1>4 DEF vars, ClientsKeepUp, OrderInv, Visible
<1> QED
  BY <1>1, <1>2, <1>3, <1>4, StepCases

\* As long as every id came from the ledger and its writes did not overlap,
\* no client loses a row it may see, wherever its connection breaks, its
\* pages are cut or the process restarts.
THEOREM OrderlyLosesNothing == Spec => []NothingLostWhenOrderly
<1>1. Init => OrderInv
  BY TypeInit, NumbersInit, DispatchedCount
     DEF Init, OrderInv, InLedgerOrder, InFlight, TurnsCounted, ClientsKeepUp
<1>2. OrderInv /\ [Next]_vars => OrderInv'
  BY TypeStep, NumberedStep, LedgerIdsStep, RingStep, OrderStep, TurnsStep, ClientsStep DEF OrderInv
<1>3. OrderInv => NothingLostWhenOrderly
  BY DEF OrderInv, NothingLostWhenOrderly, Lost, ClientsKeepUp
<1> QED
  BY <1>1, <1>2, <1>3, PTL DEF Spec
=============================================================================
