-------------------------- MODULE MCRelayServices ---------------------------
(* A small instance of RelayServices for TLC. *)
EXTENDS RelayServices, TLC

\* Bodies that name a document, its trace, both, or nothing.
MCBodies == {[ref |-> "r1", trace |-> "t1"], [ref |-> "r1", trace |-> ""],
             [ref |-> "r2", trace |-> "t1"], [ref |-> "", trace |-> ""]}

\* Release 2 has a module that cannot be loaded; release 3 repairs it and
\* renews the key under its csid; nobody gave its module a checksum.
Mod(sum, code) == [sum |-> sum, code |-> code]
MCReleases == << [modules |-> <<Mod("a1", "a1"), Mod("b1", "b1")>>, keys |-> [csid |-> "c1", pem |-> "p1"]],
                 [modules |-> <<Mod("a2", "a2"), Mod("b2", "b2")>>, keys |-> [csid |-> "c2", pem |-> "p2"]],
                 [modules |-> <<Mod("a2", "a2"), Mod("none", "b3")>>, keys |-> [csid |-> "c1", pem |-> "p3"]] >>

Tx(id, content) == [id |-> id, content |-> content]

\* A transaction repeated with the same content; another one, a malformed
\* record, and what is no object.
MCLists == { <<Tx("t1", "x"), Tx("t1", "x")>>,
             <<Tx("t2", "y"), Tx("", ""), Tx("junk", "x")>> }

MCCredentials == [scheme : {"hmac", "service", "user"}, sound : BOOLEAN, live : BOOLEAN]

\* The slots of requests are alike, and so are two tenants, two user tokens
\* and two relays.  No component has two of these, so that exchanging them
\* all at once exchanges the ones of the component in focus.
CONSTANTS o1, o2, j1, j2, p1, p2

Pairs == {<<o1, o2>>, <<j1, j2>>, <<p1, p2>>}
Exchanges == {f \in Permutations(Tenants \cup UserTokens \cup Relays) :
                 \/ \A p \in Pairs : f[p[1]] = p[1] /\ f[p[2]] = p[2]
                 \/ \A p \in Pairs : f[p[1]] = p[2] /\ f[p[2]] = p[1]}
MCSymmetry == Permutations(Requests) \cup Exchanges
=============================================================================
