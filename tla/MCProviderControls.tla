-------------------------- MODULE MCProviderControls --------------------------
(* ProviderControls on a small instance. *)
EXTENDS ProviderControls

CONSTANTS p1, p2

MCSettings == {[enabled |-> TRUE, hourly |-> 2, daily |-> 0, connections |-> 1]}
MCGroupSettings == {[hourly |-> 0, daily |-> 3]}

\* Two reductions.  Every message has MaxRecipients claimable recipients, so that a
\* smaller reservation is one that a limit has cut.  The samples of p2, which has no
\* health check, are never read: its attempts leave none.
MCNext ==
    /\ ControlsNext
    /\ \A a \in DOMAIN reservations' :
        /\ a \notin Ids =>
             reservations'[a].units = ClaimUnits(reservations'[a].provider, MaxRecipients)
        /\ reservations'[a].provider = p2 => reservations'[a].sample = "none"

\* The quota group is p2's alone or shared from the start; the one change attaches
\* p1, detaches a provider, or limits one or the group.
MCInit == ControlsInit /\ members \in {{p2}, {p1, p2}}

MCSpec == MCInit /\ [][MCNext]_controlsVars /\ FairRecovery
===============================================================================
