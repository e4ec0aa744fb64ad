--------------------------- MODULE MCWebhookWebsite ---------------------------
(***************************************************************************)
(* The outbox and the website on small instances, in three scenarios:      *)
(* "dispatchers" has one event, two dispatchers and a change of the        *)
(* configuration or a replay; "readers" has two events and two overlapping *)
(* calls of Reconcile; "clients" has two submissions with one key.         *)
(***************************************************************************)
EXTENDS WebhookWebsite

CONSTANTS d1, d2, r1, r2, s1, s2

VARIABLE scenario

\* The message has been accepted, its first event is in the outbox, and the site
\* has the answer.
MCAccepted ==
    /\ version = 1
    /\ outbox = [n \in Rows |->
            IF n = 1 THEN [NotCaptured EXCEPT !.state = "PENDING", !.due = TRUE] ELSE NotCaptured]
    /\ config \in [Dispatchers -> Hashes]
    /\ endpoint \in {[enabled |-> TRUE, hash |-> config[d]] : d \in Dispatchers}
    /\ disp = [d \in Dispatchers |-> Idle]
    /\ tokens = 0 /\ changes = 0
    /\ site = [exists |-> TRUE, other |-> FALSE, known |-> TRUE, revision |-> 0,
               needsRefresh |-> TRUE, snapshot |-> [k \in Kinds |-> 0]]
    /\ inbox = {} /\ siteFailures = 0
    /\ client = [c \in Clients |-> IF c = s1 THEN "done" ELSE "idle"]
    /\ reader = [r \in Readers |-> NotReading]
    /\ stamps = [k \in Kinds |-> << >>]

MCHash == CHOOSE h \in Hashes : TRUE
MCOneConfig == \A d \in Dispatchers : config[d] = MCHash

MCInit ==
    \/ scenario = "dispatchers" /\ MCAccepted /\ endpoint.hash = MCHash
    \/ scenario = "readers" /\ MCAccepted /\ MCOneConfig
    \/ scenario = "clients" /\ EndToEndInit /\ MCOneConfig

\* One dispatcher, which is not interrupted.
MCSteady ==
    /\ disp'[d2] = Idle /\ changes' = 0
    /\ \A n \in Rows :
        /\ outbox'[n].generation = 0 /\ ~outbox'[n].late
        /\ outbox'[n].state = "IN_FLIGHT" => disp'[d1].row = n /\ outbox'[n].leased

MCWithin ==
    /\ scenario = "dispatchers" =>
        /\ version' = 1 /\ siteFailures' = 0 /\ client' = client /\ reader'[r2] = NotReading
        /\ changes' + outbox'[1].generation <= 1
    /\ scenario = "readers" =>
        /\ MCSteady /\ client' = client /\ siteFailures' = 0
        /\ disp'[d1].at = "sent" => disp'[d1].success
    /\ scenario = "clients" => MCSteady /\ version' <= 1

MCNext == EndToEndNext /\ MCWithin /\ UNCHANGED scenario

MCDispatches(d) == scenario = "dispatchers" \/ d = d1
MCReads(r) == scenario # "dispatchers" \/ r = r1

\* The fairness of FairEndToEnd, for the steps that are taken.
MCSpec ==
    /\ MCInit
    /\ [][MCNext]_<<allVars, scenario>>
    /\ \A d \in Dispatchers :
        /\ WF_vars(MCDispatches(d) /\ ((\E n \in Rows : Claim(d, n)) \/ Retire(d)))
        /\ WF_vars(Recheck(d) \/ Finish(d)
                     \/ \E processed, success \in BOOLEAN : Send(d, processed, success))
    /\ \A n \in Rows :
        /\ WF_vars(FallsDue(n))
        /\ WF_vars(scenario = "dispatchers" /\ LeaseExpires(n))
        /\ WF_vars(scenario = "dispatchers" /\ DeadlinePasses(n))
    /\ \A r \in Readers : WF_siteVars(MCReads(r) /\ ReconcileStep(r))
===============================================================================
