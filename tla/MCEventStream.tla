--------------------------- MODULE MCEventStream ---------------------------
(***************************************************************************)
(* A client of one company, two events of that company, one of another and *)
(* one without a company; pages of one row and a ring of two events, so    *)
(* that pages are cut and the ring forgets.                                *)
(***************************************************************************)
EXTENDS EventStream, TLC

CONSTANTS e1, e2, e3, u, c1, A, B

MCCompanyOf     == [e \in Events |-> IF e = u THEN NoCompany ELSE IF e = e3 THEN B ELSE A]
MCClientCompany == [c \in Clients |-> A]

\* The two events of the client's company are alike.
MCSymmetry == Permutations({e1, e2})
=============================================================================
