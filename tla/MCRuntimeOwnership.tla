-------------------------- MODULE MCRuntimeOwnership --------------------------
(* RuntimeOwnership on a small instance: the migration is of a newer version. *)
EXTENDS RuntimeOwnership

CONSTANTS Old, New      \* the programs of the older and of the newer version

MCSlot == [p \in Auxiliaries |-> "collect-feedback"]
MCBinary == [p \in Old \cup New |-> IF p \in New THEN 2 ELSE 1]
===============================================================================
