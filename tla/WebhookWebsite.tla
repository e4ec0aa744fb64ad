---------------------------- MODULE WebhookWebsite ----------------------------
(***************************************************************************)
(* The outbox and the website together: an event of the message commits    *)
(* with its outbox row (unless the endpoint is paused), and the request of *)
(* a dispatcher is the site's receive.  The site answers 2xx when, and     *)
(* only when, its transaction committed or the event was in the inbox; the *)
(* answer may still be lost.                                               *)
(***************************************************************************)
EXTENDS WebhookOutbox, Website

ASSUME RowsAreEvents == Rows = 1 .. MaxVersion

allVars == <<vars, siteVars>>

EndToEndInit == Init /\ SiteInit

\* capture_webhook_event, in the transaction of event n.
CaptureIfEnabled(n) == IF endpoint.enabled THEN Capture(n) ELSE UNCHANGED vars

Submitting(c) ==
    /\ SubmitStep(c)
    /\ IF version' # version THEN CaptureIfEnabled(version') ELSE UNCHANGED vars

Happening == Happens /\ CaptureIfEnabled(version')

Sending(d) ==
    \E processed, success \in BOOLEAN :
        /\ Send(d, processed, success)
        /\ IF processed THEN Receive(disp[d].row) ELSE UNCHANGED siteVars

SiteAlone ==
    \/ \E c \in Clients : SubmitFails(c)
    \/ \E r \in Readers : ReconcileStep(r) \/ ReconcileFails(r)

EndToEndNext ==
    \/ OutboxStep /\ UNCHANGED siteVars
    \/ SiteAlone /\ UNCHANGED vars
    \/ \E c \in Clients : Submitting(c)
    \/ \E d \in Dispatchers : Sending(d)
    \/ Happening

EndToEndSpec == EndToEndInit /\ [][EndToEndNext]_allVars

(***************************************************************************)
(* Fairness: every dispatcher polls once a second and each of its calls is *)
(* bounded by a timeout, so it always comes back to claim; the clock runs; *)
(* the site reconciles every five seconds, within a timeout.  No client    *)
(* has to submit, and nothing is assumed of failures.                      *)
(***************************************************************************)
FairDispatcher(d) ==
    /\ WF_vars((\E n \in Rows : Claim(d, n)) \/ Retire(d))
    /\ WF_vars(Recheck(d) \/ Finish(d)
                 \/ \E processed, success \in BOOLEAN : Send(d, processed, success))

FairClock ==
    \A n \in Rows :
        WF_vars(LeaseExpires(n)) /\ WF_vars(FallsDue(n)) /\ WF_vars(DeadlinePasses(n))

FairReader(r) == WF_siteVars(ReconcileStep(r))

FairEndToEnd ==
    /\ EndToEndSpec
    /\ \A d \in Dispatchers : FairDispatcher(d)
    /\ FairClock
    /\ \A r \in Readers : FairReader(r)

(***************************************************************************)
(* Properties.                                                             *)
(***************************************************************************)
\* A row is DELIVERED only when the event is in the site's inbox (finish; receive
\* answers after its commit), whatever order claims, expiries and late answers have.
DeliveredIsKept ==
    \A n \in Rows : outbox[n].state = "DELIVERED" => n \in inbox

\* Every captured event is shown by the site in the end, or its row is given up, or
\* no running dispatcher may serve the endpoint any more.
EventReachesSite ==
    \A n \in Rows :
        outbox[n].state \in {"PENDING", "IN_FLIGHT"}
            ~> \/ \A k \in Kinds : site.snapshot[k] >= n
               \/ outbox[n].state = "DEAD"
               \/ \A d \in Dispatchers : ~Eligible(d)
===============================================================================
