----------------------------- MODULE FailoverRoute -----------------------------
(***************************************************************************)
(* The route of one message (internal/queue/failover.go and its callers):  *)
(* which provider each attempt for its recipients may use.  A message is   *)
(* pinned to the provider of its first attempt; it moves to another one    *)
(* only when every unfinished recipient may move with it.                  *)
(*                                                                         *)
(* The SMTP conversation is left to DeliveryQueue: here an attempt ends    *)
(* with one decision per recipient, any combination delivery.Decide can    *)
(* give.  Quota and circuit are left to ProviderControls: here any         *)
(* provider may be available to a claim, for any number of recipients.     *)
(* Automatic retry is on.                                                  *)
(***************************************************************************)
EXTENDS Upstream, Integers, Sequences, FiniteSets, FiniteSetsExt

CONSTANTS
    Recipients,         \* a set of numbers: claims take them in the order of id
    FailoverEnabled,    \* Repository.FailoverEnabled
    MaxAttempts,        \* delivery.MaxAttempts, 7 in the code
    MaxProviders,       \* distinct providers of a message, 3 in the code
    AttemptBound,       \* bound: attempts in a behaviour
    Aging               \* bound: the recipients whose retry window may close

ASSUME FailoverAssumption ==
    /\ Recipients \subseteq Nat /\ IsFiniteSet(Recipients)
    /\ MaxAttempts \in Nat \ {0} /\ MaxProviders \in Nat \ {0}
    /\ AttemptBound \in Nat /\ Aging \subseteq Recipients
    /\ FailoverEnabled \in BOOLEAN

VARIABLES
    route,      \* messages.route_provider_id
    attempts,   \* delivery_attempts with attempt_recipients, by attempt number
    status,     \* recipients.status; WAITING is TEMP_FAILED with a retry_at,
                \* HELD without, DONE any finished status
    automatic,  \* recipients.retry_automatic
    over        \* the recipients whose 24 h retry window has closed

vars == <<route, attempts, status, automatic, over>>

Decisions == {"none", "ACCEPT", "PERMANENT", "RETRY", "FAILOVER", "HOLD", "UNKNOWN",
              "SUPPRESS", "RESUME"}

\* What is kept of a decision: whether it allows another provider.
Recorded == {"none", "FAILOVER", "OTHER"}
Record(d) == IF d \in {"none", "FAILOVER"} THEN d ELSE "OTHER"

Attempt == [provider : Providers, recipients : SUBSET Recipients,
            result : {"IN_PROGRESS", "TEMP_FAILED", "OTHER"},
            decision : [Recipients -> Recorded]]

Numbers == 1 .. Len(attempts)
AttemptsOf(r) == {i \in Numbers : r \in attempts[i].recipients}
AttemptCount(r) == Cardinality(AttemptsOf(r))
BudgetSpent(r) == AttemptCount(r) >= MaxAttempts \/ r \in over

Latest(r) == Max(AttemptsOf(r))

Sending == \E i \in Numbers : attempts[i].result = "IN_PROGRESS"
Unresolved == \E r \in Recipients : status[r] = "UNKNOWN"

\* The recipients claimRecipient admits.
Claimable == {r \in Recipients : status[r] = "QUEUED"
                                   /\ (~automatic[r] \/ ~BudgetSpent(r))}

Visited == {attempts[i].provider : i \in Numbers}

\* Slip: the recipient's last decision, which a recovered attempt leaves alone.
MayMoveStale(r) ==
    /\ status[r] = "QUEUED" /\ automatic[r] /\ ~BudgetSpent(r)
    /\ \E i \in AttemptsOf(r) :
           /\ attempts[i].decision[r] = "FAILOVER" /\ attempts[i].provider = route
           /\ \A j \in AttemptsOf(r) : j > i => attempts[j].decision[r] = "none"
MayMove(r) ==
    /\ status[r] = "QUEUED" /\ automatic[r] /\ ~BudgetSpent(r)
    /\ AttemptsOf(r) # {}
    /\ LET last == attempts[Latest(r)] IN
       /\ last.provider = route /\ last.result = "TEMP_FAILED"
       /\ last.decision[r] = "FAILOVER"

\* Slip: a recipient that was never tried is not asked.
SafeFailoverTried ==
    /\ route # NoProvider
    /\ Cardinality(Visited) < MaxProviders
    /\ \A r \in Recipients : status[r] = "DONE" \/ AttemptsOf(r) = {} \/ MayMove(r)
SafeFailover ==
    /\ route # NoProvider
    /\ Cardinality(Visited) < MaxProviders
    /\ \A r \in Recipients : status[r] = "DONE" \/ MayMove(r)

\* Slip: a provider the message has left may be chosen again.
EligibleProviderAny(p) ==
    \/ route = NoProvider
    \/ p = route
    \/ FailoverEnabled /\ SafeFailover
EligibleProvider(p) ==
    \/ route = NoProvider
    \/ p = route
    \/ FailoverEnabled /\ SafeFailover /\ p \notin Visited

\* recordFailover: on a change of route, every claimed recipient must have an
\* earlier attempt with another provider, or the claim fails.
EvidenceComplete(p, S) ==
    route # NoProvider /\ route # p =>
        \A r \in S : AttemptsOf(r) # {} /\ attempts[Latest(r)].provider # p

Selectable(p, S) ==
    /\ ~Sending /\ ~Unresolved
    /\ S # {} /\ S \subseteq Claimable
    /\ \A r \in S, q \in Claimable \ S : r < q
    /\ EligibleProvider(p)

Init ==
    /\ route = NoProvider
    /\ attempts = << >>
    /\ status = [r \in Recipients |-> "QUEUED"]
    /\ automatic = [r \in Recipients |-> FALSE]
    /\ over = {}

Claim(p, S) ==
    /\ Len(attempts) < AttemptBound
    /\ Selectable(p, S)
    /\ EvidenceComplete(p, S)
    /\ route' = p
    /\ attempts' = Append(attempts,
           [provider |-> p, recipients |-> S, result |-> "IN_PROGRESS",
            decision |-> [r \in Recipients |-> "none"]])
    /\ status' = [r \in Recipients |-> IF r \in S THEN "SENDING" ELSE status[r]]
    /\ UNCHANGED <<automatic, over>>

(***************************************************************************)
(* ArmData finds suppressed recipients: they are finished, and the attempt *)
(* is blocked before DATA.                                                 *)
(***************************************************************************)
Blocked(a) == \E r \in a.recipients : status[r] = "DONE"

SuppressAtFence(hits) ==
    /\ Sending /\ ~Blocked(attempts[Len(attempts)])
    /\ hits # {} /\ hits \subseteq attempts[Len(attempts)].recipients
    /\ status' = [r \in Recipients |-> IF r \in hits THEN "DONE" ELSE status[r]]
    /\ automatic' = [r \in Recipients |-> automatic[r] /\ r \notin hits]
    /\ UNCHANGED <<route, attempts, over>>

(***************************************************************************)
(* The end of an attempt.                                                  *)
(***************************************************************************)
\* What Decide can say of the recipients of one attempt: a retry needs budget,
\* and the permission to fail over means the body was sent to nobody.  In a
\* blocked attempt finishSuppression resumes those whom neither the policy nor a
\* reply to RCPT has stopped.
Possible(a, decision) ==
    /\ \A r \in Recipients : r \in a.recipients <=> decision[r] # "none"
    /\ \A r \in a.recipients :
           /\ decision[r] \in {"RETRY", "FAILOVER"} => ~BudgetSpent(r)
           /\ decision[r] = "SUPPRESS" <=> status[r] = "DONE"
           /\ decision[r] = "RESUME" => Blocked(a)
           /\ Blocked(a) => decision[r] \notin {"ACCEPT", "UNKNOWN", "FAILOVER"}
    /\ (\E r \in a.recipients : decision[r] = "FAILOVER") =>
           \A r \in a.recipients : decision[r] \notin {"ACCEPT", "UNKNOWN"}

\* Aggregate, as far as safeFailover tells results apart.
Result(a, decision) ==
    IF /\ \A r \in a.recipients : decision[r] \notin {"ACCEPT", "UNKNOWN"}
       /\ \E r \in a.recipients : decision[r] # "PERMANENT"
    THEN "TEMP_FAILED" ELSE "OTHER"

\* finishSuppression, of an envelope that was aborted before DATA.
Resumed(r) == IF BudgetSpent(r) THEN "HELD" ELSE "QUEUED"

Decided(r, d) ==
    CASE d = "UNKNOWN" -> "UNKNOWN"
      [] d = "HOLD" -> "HELD"
      [] d \in {"RETRY", "FAILOVER"} -> "WAITING"
      [] d = "RESUME" -> Resumed(r)
      [] d \in {"ACCEPT", "PERMANENT", "SUPPRESS"} -> "DONE"

Finish(decision) ==
    LET n == Len(attempts) IN
    /\ Sending
    /\ Possible(attempts[n], decision)
    /\ attempts' = [attempts EXCEPT ![n].decision = [r \in Recipients |-> Record(decision[r])],
                                    ![n].result = Result(attempts[n], decision)]
    /\ status' = [r \in Recipients |->
           IF r \in attempts[n].recipients THEN Decided(r, decision[r]) ELSE status[r]]
    /\ automatic' = [r \in Recipients |->
           automatic[r] /\ (r \notin attempts[n].recipients \/ decision[r] = "RESUME")]
    /\ UNCHANGED <<route, over>>

\* Recover: an attempt whose DATA was authorised is unknown; another goes back
\* to the queue, with expireRecovered holding the recipients without budget.
Recover(armed) ==
    LET n == Len(attempts)
        taken == {r \in attempts[n].recipients : status[r] = "SENDING"}
        held == {r \in Recipients : /\ r \in taken \/ status[r] = "QUEUED"
                                    /\ BudgetSpent(r)}
    IN
    /\ Sending /\ (armed => ~Blocked(attempts[n]))
    /\ attempts' = [attempts EXCEPT ![n].result = IF armed THEN "OTHER" ELSE "TEMP_FAILED"]
    /\ status' = [r \in Recipients |->
           IF armed THEN IF r \in taken THEN "UNKNOWN" ELSE status[r]
           ELSE IF r \in held THEN "HELD"
           ELSE IF r \in taken THEN "QUEUED" ELSE status[r]]
    /\ automatic' = [r \in Recipients |-> automatic[r] /\ (armed \/ r \notin held)]
    /\ UNCHANGED <<route, over>>

(***************************************************************************)
(* Between attempts.                                                       *)
(***************************************************************************)
\* Schedule, when the retries of due have fallen due.
Schedule(due) ==
    LET spent == {r \in Recipients : /\ r \in due \/ (automatic[r] /\ status[r] = "QUEUED")
                                     /\ BudgetSpent(r)}
    IN
    /\ ~Sending /\ ~Unresolved
    /\ \A r \in due : status[r] = "WAITING"
    /\ due \cup spent # {}
    /\ status' = [r \in Recipients |->
           IF r \in spent THEN "HELD" ELSE IF r \in due THEN "QUEUED" ELSE status[r]]
    /\ automatic' = [r \in Recipients |->
           IF r \in spent THEN FALSE ELSE automatic[r] \/ r \in due]
    /\ UNCHANGED <<route, attempts, over>>

\* ResolveUnknown: a retry takes the route of the recipient's latest attempt.
ResolveUnknown(r, retry) ==
    /\ ~Sending /\ status[r] = "UNKNOWN"
    /\ status' = [status EXCEPT ![r] = IF retry THEN "QUEUED" ELSE "DONE"]
    /\ automatic' = [automatic EXCEPT ![r] = FALSE]
    /\ route' = IF retry THEN attempts[Latest(r)].provider ELSE route
    /\ UNCHANGED <<attempts, over>>

\* Suppression, cancellation or expiry of a recipient between attempts.
PolicyEnds(r) ==
    /\ ~Sending /\ status[r] \in {"QUEUED", "WAITING", "HELD"}
    /\ status' = [status EXCEPT ![r] = "DONE"]
    /\ automatic' = [automatic EXCEPT ![r] = FALSE]
    /\ UNCHANGED <<route, attempts, over>>

\* 24 h after the recipient's first claim; it no longer matters to a recipient
\* that is finished or held.
WindowCloses(r) ==
    /\ AttemptsOf(r) # {} /\ r \notin over /\ status[r] \notin {"DONE", "HELD"}
    /\ over' = over \cup {r}
    /\ UNCHANGED <<route, attempts, status, automatic>>

Next ==
    \/ \E p \in Providers, S \in SUBSET Recipients : Claim(p, S)
    \/ \E hits \in SUBSET Recipients : SuppressAtFence(hits)
    \/ \E decision \in [Recipients -> Decisions] : Finish(decision)
    \/ \E armed \in BOOLEAN : Recover(armed)
    \/ \E due \in SUBSET Recipients : Schedule(due)
    \/ \E r \in Recipients, retry \in BOOLEAN : ResolveUnknown(r, retry)
    \/ \E r \in Recipients : PolicyEnds(r)
    \/ \E r \in Aging : WindowCloses(r)

Spec == Init /\ [][Next]_vars

(***************************************************************************)
(* Properties.                                                             *)
(***************************************************************************)
\* The type of the state.
TypeOK ==
    /\ route \in Providers \cup {NoProvider}
    /\ attempts \in Seq(Attempt)
    /\ status \in [Recipients -> {"QUEUED", "SENDING", "WAITING", "HELD", "UNKNOWN", "DONE"}]
    /\ automatic \in [Recipients -> BOOLEAN]
    /\ over \subseteq Recipients

\* A recipient changes provider between two of its attempts only when the
\* first of the two ended with the permission to fail over: nothing of the
\* message had been sent to that provider.  This has to hold when a claim takes
\* only part of the recipients, when an attempt is lost and recovered, and when
\* an operator retries an unknown one (safeFailover, Claim, ResolveUnknown).
MovesOnlyWhenAllowed ==
    \A r \in Recipients : \A i, j \in AttemptsOf(r) :
        /\ i < j
        /\ \A k \in AttemptsOf(r) : k <= i \/ k >= j
        /\ attempts[i].provider # attempts[j].provider
        => attempts[i].decision[r] = "FAILOVER"

\* A message goes from provider to provider without ever coming back, and uses
\* no more than MaxProviders of them (safeFailover, eligibleProvider).
RouteGoesForward ==
    /\ Cardinality(Visited) <= MaxProviders
    /\ \A i, j, k \in Numbers :
           i < j /\ j < k /\ attempts[i].provider = attempts[k].provider
               => attempts[j].provider = attempts[i].provider

\* The error "incomplete failover evidence" cannot occur: a claim that passes
\* the selection is never refused by recordFailover, which would leave the
\* message selected and refused again for ever.
SelectionSuffices ==
    \A p \in Providers, S \in SUBSET Recipients : Selectable(p, S) => EvidenceComplete(p, S)

================================================================================
