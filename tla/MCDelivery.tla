------------------------------ MODULE MCDelivery ------------------------------
(* DeliveryQueue on two small instances, one per behaviour. *)
EXTENDS MCDeliveryQueue

CONSTANTS r1, r2, w1, w2

VARIABLE scenario

\* Every race for one recipient, r2 being suppressed since ingress; or two that
\* share their attempts, for one worker.
MCInit ==
    /\ Init
    /\ \/ scenario = "one" /\ r2 \in suppressed
       \/ scenario = "pair" /\ suppressed = {}

\* Idle workers are alike: w1 is the one that claims.  The third attempt comes while
\* the retry window is open.
MCWithin ==
    /\ pc[w1] = "idle" /\ pc[w2] = "idle" => pc'[w2] = "idle"
    /\ scenario = "one" => r2 \in suppressed' /\ (claims' = 3 => windowOver' = {})
    /\ scenario = "pair" => /\ suppressed' = {} /\ windowOver' = {}
                            /\ pc'[w2] = "idle" /\ claims' <= 2
                            /\ result'[w1].class \in {"none", "FINAL_RESPONSE_ERROR"}

MCNext == Next /\ MCWithin /\ UNCHANGED scenario

MCSpec == MCInit /\ [][MCNext]_<<vars, scenario>> /\ Fairness
===============================================================================
