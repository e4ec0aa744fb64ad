------------------------------ MODULE MCFeedback ------------------------------
(***************************************************************************)
(* The collector and the publication of feedback on small instances.  They *)
(* share no state but the reports the one stores and the other looks at    *)
(* (a report may come at any time), so each moves alone: scenario, chosen  *)
(* at the start, says which, and with which of the bounds.                 *)
(***************************************************************************)
EXTENDS FeedbackCollector, FeedbackPublication, TLC

CONSTANTS c1, c2, a1, a2

MCReports == {a1, a2}
MCTransactions == {"t1", "t2"}
MCExternalId == (a1 :> "a") @@ (a2 :> "a")
MCContent == (a1 :> "failed") @@ (a2 :> "other")

VARIABLE scenario

allVars == <<collectorVars, vars, scenario>>

\* Two sessions on one folder; one over changes of the folder, with three mails;
\* one over all kinds of mail; and the operators.
MCInit ==
    /\ CollectorInit /\ Init
    /\ scenario \in {"sessions", "epochs", "kinds", "publication"}

MCWithin ==
    /\ scenario = "sessions" => changes' = 0 /\ \A m \in mail' : m.kind = "normal"
    /\ scenario = "epochs" => /\ collector'[c2] = Idle /\ faults' = 0
                              /\ \A m \in mail' : m.kind = "normal"
                              /\ next'[1] + next'[2] <= 5
    /\ scenario = "kinds" => collector'[c2] = Idle /\ changes' = 0

MCCollect == scenario # "publication" /\ CollectorNext /\ MCWithin /\ UNCHANGED <<vars, scenario>>
MCPublish == scenario = "publication" /\ Next /\ UNCHANGED <<collectorVars, scenario>>

\* The fairness of FeedbackCollector!CollectorFairSpec, for the collectors that run.
MCRuns(c) == scenario # "publication" /\ (scenario = "sessions" \/ c = c1)
MCFair ==
    \A c \in Collectors :
        SF_collectorVars(MCRuns(c) /\ Start(c, 0)) /\ WF_collectorVars(MCRuns(c) /\ Step(c))

MCSpec == MCInit /\ [][MCCollect \/ MCPublish]_allVars /\ MCFair
===============================================================================
