-------------------------- MODULE MCOwnershipRecovery --------------------------
(* RuntimeOwnership and Recovery, each on a small instance, one per behaviour. *)
EXTENDS MCRuntimeOwnership, Recovery

VARIABLE scenario

MCInit ==
    \/ scenario = "ownership" /\ Init /\ RecoveryInit
           /\ db.sound /\ \A m \in Messages : db.rows[m] = "none"
    \/ scenario = "recovery" /\ RecoveryInit /\ Init /\ schema = 0

MCNext ==
    /\ UNCHANGED scenario
    /\ \/ scenario = "ownership" /\ Next /\ UNCHANGED recoveryVars
       \/ scenario = "recovery" /\ RecoveryNext /\ UNCHANGED vars

MCSpec == MCInit /\ [][MCNext]_<<scenario, vars, recoveryVars>>
================================================================================
