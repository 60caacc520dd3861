--------------------------- MODULE MCRelayIngest ---------------------------
(***************************************************************************)
(* Three requests of two tenants: enough for a retry to meet a row that is *)
(* pending, in error, processed or pruned, for a request of two files to   *)
(* share its first file with a request of one, and for the rows of one     *)
(* tenant to be evicted by an ingest of the other.                         *)
(***************************************************************************)
EXTENDS RelayIngest, TLC

CONSTANTS f1, f2

MCUploads == {<<f1>>, <<f1, f2>>}

\* Two lists that share a file but not the first one.
MCOverlapping == {<<f1>>, <<f2, f1>>}

MCSymmetry == Permutations(Requests) \cup Permutations(Tenants)
=============================================================================
