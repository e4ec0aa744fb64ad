------------------------- MODULE FeedbackPublication -------------------------
(***************************************************************************)
(* Feedback evidence and what a website is told of it (internal/feedback,  *)
(* migration 00030): reports are imported and dismissed, an operator links *)
(* a report to an accepted recipient and reviews the link in up to two     *)
(* revisions.  All these rows are append-only.  What the link says now is  *)
(* computed from them on each read (Projection); the website hears of it   *)
(* through events, and looks.                                              *)
(*                                                                         *)
(* The four operations are transactions at READ COMMITTED under one        *)
(* advisory lock, the fence.  Link and Review take it first; Import and    *)
(* Dismiss take it in a trigger of their insert, and a second trigger then *)
(* looks for links the new row invalidates.                                *)
(*                                                                         *)
(* The recipient stays SMTP_ACCEPTED with the attempt of the link its last *)
(* (DeliveryQueue!FactsStay), and its archive available (ArchiveLifecycle);*)
(* a report has one row, which the operator associates correctly.  The     *)
(* capacities of the tables and all other errors are Aborts.               *)
(***************************************************************************)
EXTENDS Integers, Sequences

CONSTANTS
    Reports,        \* messages that may be imported
    ExternalId,     \* their source and external id
    Content,        \* "failed": a parsed 5.x failure; "other"; "unsupported"
    Transactions, Nobody

ASSUME PublicationAssumption == Nobody \notin Transactions

Actions == {"CONFIRM_FAILURE", "WITHDRAW"}

VARIABLES
    reports,    \* feedback_reports
    dismissed,  \* feedback_reviews
    links,      \* feedback_links, by their report
    reviews,    \* feedback_link_reviews of each link, oldest first
    events,     \* how many events each link has caused
    fence,      \* the transaction that holds the fence
    tx          \* the open transactions

tables == <<reports, dismissed, links, reviews, events>>
vars == <<tables, fence, tx>>

NoTx == [pc |-> "idle", op |-> "none", report |-> Nobody, action |-> "none",
         expected |-> 0, notify |-> {}]

TypeOK ==
    /\ reports \subseteq Reports /\ dismissed \subseteq reports /\ links \subseteq reports
    /\ reviews \in [Reports -> {<<>>, <<"CONFIRM_FAILURE">>, <<"WITHDRAW">>,
                                <<"CONFIRM_FAILURE", "WITHDRAW">>}]
    /\ events \in [Reports -> Nat]
    /\ fence \in Transactions \cup {Nobody}
    /\ tx \in [Transactions -> [pc : {"idle", "begun", "fenced", "written"},
            op : {"none", "Import", "Dismiss", "Link", "Review"},
            report : Reports \cup {Nobody}, action : Actions \cup {"none"},
            expected : 0 .. 1, notify : SUBSET Reports]]

Init ==
    /\ reports = {} /\ dismissed = {} /\ links = {}
    /\ reviews = [r \in Reports |-> <<>>] /\ events = [r \in Reports |-> 0]
    /\ fence = Nobody /\ tx = [t \in Transactions |-> NoTx]

Conflicting(r) == \E q \in reports : q # r /\ ExternalId[q] = ExternalId[r]
Reviewed(r, action) == \E i \in DOMAIN reviews[r] : reviews[r][i] = action

\* A withdrawal is always the last review.
Projection(r) ==
    IF Conflicting(r) THEN "EVIDENCE_CONFLICT"
    ELSE IF r \in dismissed \/ Reviewed(r, "WITHDRAW") THEN "WITHDRAWN"
    ELSE IF Reviewed(r, "CONFIRM_FAILURE") THEN "FAILURE_CONFIRMED_BY_OPERATOR"
    ELSE "PENDING_REVIEW"

(***************************************************************************)
(* The transactions.                                                       *)
(***************************************************************************)
Begin(t, op, r, action, expected) ==
    /\ tx[t].pc = "idle"
    /\ op = "Dismiss" => r \in reports      \* its digest is read without the fence
    /\ tx' = [tx EXCEPT ![t] = [NoTx EXCEPT !.pc = "begun", !.op = op, !.report = r,
                                            !.action = action, !.expected = expected]]
    /\ UNCHANGED <<tables, fence>>

FenceFree == fence = Nobody

TakeFence(t) ==
    /\ tx[t].pc = "begun" /\ FenceFree
    /\ fence' = t
    /\ tx' = [tx EXCEPT ![t].pc = "fenced"]
    /\ UNCHANGED tables

\* QUARANTINED, and not linked yet.
MayLink(r) == r \in reports \ (dismissed \cup links) /\ ~Conflicting(r)

\* Slip: the revision the operator saw is not compared.
MayReviewAnyRevision(r, action, expected) ==
    /\ r \in links /\ Len(reviews[r]) <= 1 /\ ~Reviewed(r, "WITHDRAW")
    /\ Projection(r) # "WITHDRAWN"
    /\ action = "CONFIRM_FAILURE" =>
        Projection(r) = "PENDING_REVIEW" /\ Content[r] # "other"
\* The tests of Review and of the trigger validate_feedback_link_review.
MayReview(r, action, expected) ==
    /\ r \in links /\ Len(reviews[r]) = expected
    /\ Projection(r) # "WITHDRAWN"
    /\ action = "CONFIRM_FAILURE" =>
        Projection(r) = "PENDING_REVIEW" /\ Content[r] # "other"
    /\ expected = 1 => action = "WITHDRAW" /\ ~Reviewed(r, "WITHDRAW")

\* Slip: the trigger looks for the links of the new report.
InvalidatedOwn(op, r) == links \cap {r}
\* invalidate_feedback_publication: the links a new row speaks against.
Invalidated(op, r) ==
    {l \in links : \/ op = "Dismiss" /\ l = r
                   \/ op = "Import" /\ l # r /\ ExternalId[l] = ExternalId[r]}

\* The checks and inserts of a transaction, seen by nobody before the commit.
\* A report that is there already is a duplicate: no row, no trigger.
Write(t) ==
    /\ tx[t].pc = "fenced"
    /\ LET k == tx[t] IN
        /\ \/ k.op = "Import"
           \/ k.op = "Dismiss" /\ k.report \notin dismissed
           \/ k.op = "Link" /\ MayLink(k.report)
           \/ k.op = "Review" /\ MayReview(k.report, k.action, k.expected)
        /\ tx' = [tx EXCEPT ![t].pc = "written", ![t].notify =
                    IF k.op \in {"Link", "Review"} THEN {k.report}
                    ELSE IF k.op = "Import" /\ k.report \in reports THEN {}
                    ELSE Invalidated(k.op, k.report)]
    /\ UNCHANGED <<tables, fence>>

Leave(t) ==
    /\ tx' = [tx EXCEPT ![t] = NoTx]
    /\ fence' = IF fence = t THEN Nobody ELSE fence

Commit(t) ==
    /\ tx[t].pc = "written"
    /\ LET k == tx[t] IN
        /\ reports' = IF k.op = "Import" THEN reports \cup {k.report} ELSE reports
        /\ dismissed' = IF k.op = "Dismiss" THEN dismissed \cup {k.report} ELSE dismissed
        /\ links' = IF k.op = "Link" THEN links \cup {k.report} ELSE links
        /\ reviews' = IF k.op = "Review"
                      THEN [reviews EXCEPT ![k.report] = Append(@, k.action)] ELSE reviews
        /\ events' = [l \in Reports |-> events[l] + (IF l \in k.notify THEN 1 ELSE 0)]
    /\ Leave(t)

\* A refusal, an error or the end of the session: everything is rolled back.
Aborts(t) == tx[t].pc # "idle" /\ Leave(t) /\ UNCHANGED tables

Next ==
    \E t \in Transactions :
        \/ \E r \in Reports :
            \/ \E op \in {"Import", "Dismiss", "Link"} : Begin(t, op, r, "none", 0)
            \/ \E action \in Actions, expected \in 0 .. 1 :
                    Begin(t, "Review", r, action, expected)
        \/ TakeFence(t) \/ Write(t) \/ Commit(t) \/ Aborts(t)

Spec == Init /\ [][Next]_vars

(***************************************************************************)
(* Properties.                                                             *)
(***************************************************************************)

\* Whenever what a link says changes, by an operator or by evidence that arrives at
\* the same time, an event of that link commits with the change: no website keeps a
\* conclusion that no longer stands (the fence and invalidate_feedback_publication).
ChangesAreAnnounced ==
    [][\A r \in links' :
        r \notin links \/ Projection(r)' # Projection(r) => events'[r] > events[r]]_vars

\* Of two operators who saw the same revision one decides, and a failure is
\* confirmed only while the evidence is uncontested and does not say otherwise.
DecisionsAreInformed ==
    [][\A r \in Reports : reviews'[r] # reviews[r] =>
        \E t \in Transactions :
            /\ tx[t].report = r /\ tx[t].expected = Len(reviews[r])
            /\ tx[t].action = "CONFIRM_FAILURE" =>
                Projection(r) = "PENDING_REVIEW" /\ Content[r] # "other"]_vars

==============================================================================
