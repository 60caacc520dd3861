---------------------------- MODULE MCCoreQueue ----------------------------
(* Small instances of CoreQueue for TLC. *)
EXTENDS CoreQueue, TLC

CONSTANTS b1, b2

\* b2 is urgent, so it overtakes b1 whenever both are pending.
MCPriority == [e \in Entries |-> IF e = b1 THEN 3 ELSE 5]

=============================================================================
