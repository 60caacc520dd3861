----------------------------- MODULE MCEntities -----------------------------
(* Two fields and what may be submitted: one of them, both, or a field that *)
(* is not editable.                                                         *)
EXTENDS Entities

MCBodies == {[name |-> "b"], [name |-> "a", note |-> "b"], [note |-> "a", id |-> "b"]}
=============================================================================
