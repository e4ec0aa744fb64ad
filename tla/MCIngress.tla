------------------------------- MODULE MCIngress -------------------------------
(* Ingress and SMTPAdmission, each on a small instance, one per behaviour. *)
EXTENDS Ingress, SMTPAdmission

CONSTANTS p1, p2, p3, i1, s1, w1, c1, c2, c3, home, away, user

VARIABLE scenario

MCFrom == [c \in Connections |-> IF c = c3 THEN away ELSE home]
MCAllows == [a \in Accounts |-> {"own"}]

MCKey == [c \in Posts \cup Inspections |-> IF c = p3 THEN "other" ELSE "website"]
\* In scaled units: three POSTs fit, two of them and a delivery do not.
MCNeed == [c \in Callers |->
    IF c \in Workers THEN [memory |-> 2, spool |-> 1]
    ELSE [memory |-> 1, spool |-> IF c \in Posts THEN 2 ELSE 0]]
MCLimit == [memory |-> 3, spool |-> 6]

MCInit == scenario \in {"posts", "reads", "sessions", "smtp"} /\ IngressInit /\ SMTPInit

\* Who comes: three POSTs, for two slots and three connections, and a worker; two
\* POSTs and an inspection; or one of each kind.
MCComes(c) ==
    \/ scenario = "posts" /\ c \in Posts \cup Workers
    \/ scenario = "reads" /\ c \in {p1, p2, i1}
    \/ scenario = "sessions" /\ c \in {p1, i1, s1, w1}

\* Calls fail and contexts end for p1 only.
MCIngressNext ==
    \/ \E c \in Callers : (MCComes(c) /\ Enter(c)) \/ TakeConnection(c) \/ Step(c)
    \/ Fails(p1) \/ Expires(p1) \/ Renews(p1)

\* Connections of one source are alike: c1 is the first of them.
MCInTurn == conn[c1].is = "fresh" => conn'[c2].is = "fresh"

MCNext ==
    /\ UNCHANGED scenario
    /\ \/ scenario # "smtp" /\ MCIngressNext /\ UNCHANGED smtpVars
       \/ scenario = "smtp" /\ SMTPNext /\ MCInTurn /\ UNCHANGED ingressVars

MCSpec ==
    /\ MCInit /\ [][MCNext]_<<scenario, ingressVars, smtpVars>>
    /\ IngressFairness
================================================================================
