--------------------------- MODULE MCDeliveryQueue ---------------------------
(* DeliveryQueue on a small instance. *)
EXTENDS DeliveryQueue

\* One failure of each policy class: retried, held for an operator, permanent.
MCPreDataFailures ==
    {[stage |-> "CONNECT_ERROR", class |-> "CONNECT_REFUSED", code |-> 0],
     [stage |-> "none", class |-> "LOCAL_STORAGE_ERROR", code |-> 0],
     [stage |-> "MAIL_FROM_REJECTED", class |-> "MAIL_FROM_REJECTED", code |-> 5]}
==============================================================================
