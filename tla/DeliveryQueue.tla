---------------------------- MODULE DeliveryQueue ----------------------------
(***************************************************************************)
(* The outbound life of one production message: internal/queue (claim,     *)
(* DATA fence, finish, lease recovery, retry scheduling, expiry and        *)
(* suppression sweeps, manual resolution), internal/message/cancel.go and  *)
(* internal/suppression, with the workers that run the SMTP conversation   *)
(* of internal/smtpclient between those transactions.                      *)
(*                                                                         *)
(* Messages do not interact in these tables, so one message, its           *)
(* recipients and all its attempts are the whole state; what messages      *)
(* share (providers, quotas, fairness) is not part of this module.  Every  *)
(* action on database state is one committed transaction of the code,      *)
(* which always starts by locking the message row.  A transaction that     *)
(* fails changes nothing and is not an action, except for what it does to  *)
(* the worker that called it.                                              *)
(*                                                                         *)
(* Time is a set of events: a lease, the message deadline, a retry         *)
(* deadline and the 24 h window each may pass at any moment.               *)
(***************************************************************************)
EXTENDS DeliveryDecision, FiniteSets

CONSTANTS
    Recipients,       \* recipient rows of the message
    Workers,          \* delivery goroutines, of any process
    AttemptBound,     \* bound on claims, so that TLC terminates
    RetryEnabled,     \* Repository.RetryEnabled
    PreDataFailures,  \* the [stage, class, code] of failures before DATA
    RcptReplies       \* reply classes a recipient may meet at RCPT

FailureType == [stage : Stages, class : ErrorClasses, code : ReplyClass]

ASSUME QueueAssumption ==
    /\ AttemptBound \in Nat
    /\ RetryEnabled \in BOOLEAN
    /\ PreDataFailures \subseteq FailureType
    /\ RcptReplies \subseteq ReplyClass
    /\ Workers # {}

Attempts == 1 .. AttemptBound

VARIABLES
    \* the messages row
    status,             \* messages.status
    lockedBy,           \* messages.locked_by: the claiming attempt, or 0
    leaseLive,          \* lease_expires_at > now
    pastDeadline,       \* expires_at <= now
    \* the recipients rows
    rstatus,            \* recipients.status
    attemptCount,       \* recipients.attempt_count
    retryAutomatic,     \* recipients whose retry_automatic is true
    retryAt,            \* retry_at: not set, in the future, or due
    windowOver,         \* recipients first claimed 24 h ago or more
    mayHaveDelivered,   \* recipients whose decision says may_have_delivered
    \* delivery_attempts and attempt_recipients
    claims,             \* attempts made: the last attempt_number
    inProgress,         \* attempts with result IN_PROGRESS
    armed,              \* attempts with data_armed_at set
    suppressionBlocked, \* attempts with suppression_blocked_at set
    expiryBlocked,      \* attempts with expiry_blocked_at set
    attemptRecipient,   \* attempt_recipients.status, "none" when there is no row
    \* policy and operators
    suppressed,         \* recipients whose address has an active suppression
    acknowledged,       \* <<attempt, recipient>> retried by an operator who
                        \* acknowledged the duplicate risk (audit rows)
    \* worker memory
    pc,                 \* where the worker is in deliver
    job,                \* the attempt it claimed
    result,             \* the smtpclient.Result it is building
    \* the remote servers
    wire                \* recipients whose message body an attempt has put on
                        \* the wire and the remote has not refused

messageVars == <<status, lockedBy, leaseLive, pastDeadline>>
recipientVars == <<rstatus, attemptCount, retryAutomatic, retryAt, windowOver,
                   mayHaveDelivered>>
attemptVars == <<claims, inProgress, armed, suppressionBlocked, expiryBlocked,
                 attemptRecipient>>
policyVars == <<suppressed, acknowledged>>
workerVars == <<pc, job, result>>
vars == <<messageVars, recipientVars, attemptVars, policyVars, workerVars, wire>>

Pending == {"QUEUED", "TEMP_FAILED"}
RecipientStatus == Pending \cup
    {"SENDING", "SMTP_ACCEPTED", "PERM_FAILED", "DELIVERY_UNKNOWN",
     "DELIVERED", "SUPPRESSED", "EXPIRED", "CANCELLED"}
MessageStatus == RecipientStatus \cup {"PARTIAL_ACCEPTED"}

\* What SMTP or an operator has settled for good.
Settled == {"SMTP_ACCEPTED", "PERM_FAILED", "DELIVERED", "SUPPRESSED",
            "EXPIRED", "CANCELLED"}

NoReply == [stage |-> "none", status |-> Temporary, code |-> 0]
NoResult == [rc |-> [r \in Recipients |-> NoReply],
             class |-> "none", final |-> 0, body |-> FALSE]
RcptAccepted == "RCPT_ACCEPTED"
-----------------------------------------------------------------------------
(***************************************************************************)
(* Helpers shared by the transactions.                                     *)
(***************************************************************************)
\* Definitions whose comment starts with "Slip:" are not part of the model.
\* Each is the definition that follows it with a mistake the code could have
\* had, and is there to show that a property notices.

\* UPDATE recipients SET column = v, for the rows X of the column f.
Set(f, X, v) == [r \in Recipients |-> IF r \in X THEN v ELSE f[r]]

\* retry_at = NULL for the rows X.
Clear(at, X) == Set(at, X, "none")

\* refresh, the first half of its CASE: something is still going on.
ActiveStatus(rs) ==
    LET Some(st) == \E r \in Recipients : rs[r] = st
    IN  IF Some("DELIVERY_UNKNOWN") THEN "DELIVERY_UNKNOWN"
        ELSE IF Some("SENDING") THEN "SENDING"
        ELSE IF Some("QUEUED") THEN "QUEUED" ELSE "none"

\* refresh, the second half.
RestingStatus(rs) ==
    LET Some(S) == \E r \in Recipients : rs[r] \in S
        All(S)  == \A r \in Recipients : rs[r] \in S
    IN  IF All({"EXPIRED"}) THEN "EXPIRED"
        ELSE IF All({"SUPPRESSED"}) THEN "SUPPRESSED"
        ELSE IF All({"DELIVERED"}) THEN "DELIVERED"
        ELSE IF All({"SMTP_ACCEPTED", "DELIVERED"}) THEN "SMTP_ACCEPTED"
        ELSE IF Some({"SMTP_ACCEPTED", "DELIVERED"}) THEN "PARTIAL_ACCEPTED"
        ELSE IF Some({"TEMP_FAILED"}) THEN "TEMP_FAILED"
        ELSE "PERM_FAILED"

\* refresh: the message status, derived from all recipients.
Projection(rs) ==
    IF ActiveStatus(rs) # "none" THEN ActiveStatus(rs) ELSE RestingStatus(rs)

\* claimRecipient
Claimable(r) ==
    /\ rstatus[r] = "QUEUED"
    /\ \/ r \notin retryAutomatic
       \/ RetryEnabled /\ attemptCount[r] < MaxAttempts /\ r \notin windowOver
    /\ r \notin suppressed

BudgetSpent(r) == attemptCount[r] >= MaxAttempts \/ r \in windowOver

\* Slip: the deadline also ends what is unknown.
ExpiringUnknown(rs) == {r \in Recipients : pastDeadline /\ rs[r] \in Pending \cup {Unknown}}
\* The recipients applyExpiry turns EXPIRED when the statuses are rs.
Expiring(rs) == {r \in Recipients : pastDeadline /\ rs[r] \in Pending}

\* The recipient rows of an attempt.
RecipientsOf(a) == {r \in Recipients : attemptRecipient[a][r] # "none"}

\* Slip: only the latest attempt is looked at.
LatestUnknown(ar, r) == claims \in Attempts /\ ar[claims][r] = Unknown
\* Some attempt of r ended DELIVERY_UNKNOWN, reading the rows ar.
EverUnknown(ar, r) == \E a \in Attempts : ar[a][r] = Unknown

(***************************************************************************)
(* The tail every transaction ends with: applyExpiry on the recipients,    *)
(* then refresh.  rs, auto, at and may are the recipient columns the       *)
(* transaction has written so far, ar the attempt_recipients rows.         *)
(***************************************************************************)
Settle(rs, auto, at, may, ar) ==
    LET X   == Expiring(rs)
        rs2 == Set(rs, X, "EXPIRED")
    IN  /\ rstatus' = rs2
        /\ retryAutomatic' = auto \ X
        /\ retryAt' = Clear(at, X)
        /\ mayHaveDelivered' = may \cup {r \in X : EverUnknown(ar, r)}
        /\ status' = Projection(rs2)
-----------------------------------------------------------------------------
(***************************************************************************)
(* The message as ingress committed it: some recipients may already be     *)
(* SUPPRESSED, the others are QUEUED.                                      *)
(***************************************************************************)
Init ==
    /\ suppressed \in SUBSET Recipients
    /\ rstatus = [r \in Recipients |->
                    IF r \in suppressed THEN "SUPPRESSED" ELSE "QUEUED"]
    /\ status = IF suppressed = Recipients THEN "SUPPRESSED" ELSE "QUEUED"
    /\ lockedBy = 0 /\ leaseLive = FALSE /\ pastDeadline = FALSE
    /\ attemptCount = [r \in Recipients |-> 0]
    /\ retryAutomatic = {} /\ windowOver = {} /\ mayHaveDelivered = {}
    /\ retryAt = [r \in Recipients |-> "none"]
    /\ claims = 0
    /\ inProgress = {} /\ armed = {}
    /\ suppressionBlocked = {} /\ expiryBlocked = {}
    /\ attemptRecipient = [a \in Attempts |-> [r \in Recipients |-> "none"]]
    /\ acknowledged = {}
    /\ pc = [w \in Workers |-> "idle"]
    /\ job = [w \in Workers |-> 0]
    /\ result = [w \in Workers |-> NoResult]
    /\ wire = [a \in Attempts |-> {}]
-----------------------------------------------------------------------------
(***************************************************************************)
(* Claim: lease the message, open an attempt and take some recipients.     *)
(* How many depends on the provider quota left, at most 16; here any       *)
(* non-empty set of claimable ones.                                        *)
(***************************************************************************)
Claim(w) ==
    /\ pc[w] = "idle"
    /\ status = "QUEUED" /\ ~pastDeadline
    /\ claims < AttemptBound
    /\ \E S \in SUBSET {r \in Recipients : Claimable(r)} :
         LET a == claims + 1 IN
         /\ S # {}
         /\ claims' = a
         /\ status' = "SENDING" /\ lockedBy' = a /\ leaseLive' = TRUE
         /\ inProgress' = inProgress \cup {a}
         /\ rstatus' = Set(rstatus, S, "SENDING")
         /\ attemptCount' = [r \in Recipients |->
                IF r \in S THEN attemptCount[r] + 1 ELSE attemptCount[r]]
         /\ retryAt' = Clear(retryAt, S)
         /\ attemptRecipient' = [attemptRecipient EXCEPT ![a] =
                [r \in Recipients |-> IF r \in S THEN "SENDING" ELSE "none"]]
         /\ pc' = [pc EXCEPT ![w] = "claimed"]
         /\ job' = [job EXCEPT ![w] = a]
    /\ UNCHANGED <<pastDeadline, retryAutomatic, windowOver, mayHaveDelivered,
                   armed, suppressionBlocked, expiryBlocked, policyVars, result, wire>>

\* fence, and the lookup of the caller's own IN_PROGRESS attempt after it.
Fence(w, requireLive) ==
    /\ status = "SENDING" /\ lockedBy = job[w] /\ (requireLive => leaseLive)
    /\ job[w] \in inProgress
-----------------------------------------------------------------------------
(***************************************************************************)
(* The SMTP conversation, smtpclient.Client.Send, down to the steps at     *)
(* which what the remote knows or what the worker will report changes.     *)
(***************************************************************************)
\* The closure fail: the recipients without a verdict of their own get this
\* one.  Uncertain once the body may have been sent.
Fail(res, e, uncertain) ==
    LET verdict == IF e.code = 5 THEN Permanent
                   ELSE IF uncertain /\ e.code # 4 THEN Unknown ELSE Temporary
        open(x) == x.status = RcptAccepted \/ (x.status = Temporary /\ x.code = 0)
    IN  [res EXCEPT
          !.class = e.class,
          !.rc = [r \in Recipients |->
                    IF open(res.rc[r])
                    THEN [stage |-> e.stage, status |-> verdict, code |-> e.code]
                    ELSE res.rc[r]]]

Outcome(w, res, next) ==
    /\ pc' = [pc EXCEPT ![w] = next]
    /\ result' = [result EXCEPT ![w] = res]
    /\ UNCHANGED job

\* The failures left once the envelope is through: the connection or the
\* event recorder (whose lease fence may refuse), or beforeData's transaction.
EnvelopeFailures ==
    {[stage |-> "RCPT_REJECTED", class |-> "CONNECTION_RESET", code |-> 0],
     [stage |-> "RECORDER_ERROR", class |-> "RECORDER_ERROR", code |-> 0],
     [stage |-> "DATABASE_ERROR", class |-> "DATABASE_ERROR", code |-> 0]}

\* deliver's preparation, or the conversation, ends before DATA.
SendFails(w) ==
    /\ \/ pc[w] = "claimed" /\ \E e \in PreDataFailures :
            Outcome(w, Fail(result[w], e, FALSE), "finish")
       \/ pc[w] = "rcpt" /\ \E e \in EnvelopeFailures :
            Outcome(w, Fail(result[w], e, FALSE), "finish")
    /\ UNCHANGED <<messageVars, recipientVars, attemptVars, policyVars, wire>>

\* One reply per RCPT; without any acceptance the conversation is over.
SendRcpt(w) ==
    /\ pc[w] = "claimed"
    /\ \E reply \in [RecipientsOf(job[w]) -> RcptReplies] :
         LET rc == [r \in Recipients |->
                 IF r \notin DOMAIN reply THEN NoReply
                 ELSE IF reply[r] = 2
                 THEN [stage |-> RcptAccepted, status |-> RcptAccepted, code |-> 2]
                 ELSE [stage |-> "RCPT_REJECTED", code |-> reply[r],
                       status |-> IF reply[r] = 5 THEN Permanent ELSE Temporary]]
         IN Outcome(w, [result[w] EXCEPT !.rc = rc],
                    IF \E r \in DOMAIN reply : reply[r] = 2 THEN "rcpt" ELSE "finish")
    /\ UNCHANGED <<messageVars, recipientVars, attemptVars, policyVars, wire>>

\* DATA is refused (2: a reply that makes no sense there) or the connection is
\* lost, or 354 comes back and the body goes out.
SendData(w) ==
    /\ pc[w] = "armed"
    /\ \/ /\ \E code \in {0, 2, 4, 5} :
               Outcome(w, Fail(result[w],
                   [stage |-> "DATA_REJECTED", code |-> code,
                    class |-> IF code = 0 THEN "CONNECTION_RESET" ELSE "DATA_REJECTED"],
                   FALSE), "finish")
          /\ UNCHANGED wire
       \/ /\ Outcome(w, [result[w] EXCEPT !.body = TRUE], "body")
          /\ wire' = [wire EXCEPT ![job[w]] =
                {r \in RecipientsOf(job[w]) : result[w].rc[r].status = RcptAccepted}]
    /\ UNCHANGED <<messageVars, recipientVars, attemptVars, policyVars>>

\* The final reply: accepted, refused, or lost (0) or senseless (3).
SendFinal(w) ==
    /\ pc[w] = "body"
    /\ \E code \in {0, 2, 3, 4, 5} :
         LET res == [result[w] EXCEPT !.final = code] IN
         /\ Outcome(w,
               IF code = 2
               THEN [res EXCEPT !.rc = [r \in Recipients |->
                       IF res.rc[r].status = RcptAccepted
                       THEN [stage |-> "FINAL_RESPONSE", status |-> Accepted, code |-> 2]
                       ELSE res.rc[r]]]
               ELSE Fail(res, [stage |-> "FINAL_RESPONSE_ERROR", code |-> code,
                               class |-> "FINAL_RESPONSE_ERROR"], TRUE),
               "finish")
         /\ wire' = IF code \in {4, 5} THEN [wire EXCEPT ![job[w]] = {}] ELSE wire
    /\ UNCHANGED <<messageVars, recipientVars, attemptVars, policyVars>>
-----------------------------------------------------------------------------
(***************************************************************************)
(* ArmData, the durable fence before DATA.  Suppression is looked up again *)
(* under the policy lock and wins over expiry; otherwise the attempt is    *)
(* armed.  When the reply to the commit is lost (learns = FALSE) the       *)
(* worker sees a database error although the transaction took effect.      *)
(***************************************************************************)
ArmData(w, learns) ==
    LET a == job[w]
        hits == {r \in Recipients : rstatus[r] = "SENDING" /\ r \in suppressed}
        Stop(stage) ==
            LET s == IF learns THEN stage ELSE "DATABASE_ERROR" IN
            Outcome(w, Fail(result[w], [stage |-> s, class |-> s, code |-> 0], FALSE),
                    "finish")
    IN
    /\ pc[w] = "rcpt" /\ Fence(w, TRUE)
    /\ a \notin armed \cup suppressionBlocked \cup expiryBlocked
    /\ \/ /\ hits # {}
          /\ rstatus' = Set(rstatus, hits, "SUPPRESSED")
          /\ retryAt' = Clear(retryAt, hits)
          /\ retryAutomatic' = retryAutomatic \ hits
          /\ mayHaveDelivered' = mayHaveDelivered \ hits
          /\ suppressionBlocked' = suppressionBlocked \cup {a}
          /\ Stop("SUPPRESSION_BLOCKED")
          /\ UNCHANGED <<attemptCount, windowOver, armed, expiryBlocked>>
       \/ /\ hits = {} /\ pastDeadline
          /\ expiryBlocked' = expiryBlocked \cup {a}
          /\ Stop("EXPIRY_BLOCKED")
          /\ UNCHANGED <<recipientVars, armed, suppressionBlocked>>
       \/ /\ hits = {} /\ ~pastDeadline
          /\ armed' = armed \cup {a}
          /\ IF learns THEN Outcome(w, result[w], "armed") ELSE Stop("DATABASE_ERROR")
          /\ UNCHANGED <<recipientVars, suppressionBlocked, expiryBlocked>>
    /\ UNCHANGED <<messageVars, claims, inProgress, attemptRecipient, policyVars, wire>>

(***************************************************************************)
(* Finish: record the outcome under the fence (the lease need not be       *)
(* live), decide every recipient, release the message, expire, refresh.    *)
(* A blocked attempt resumes the recipients its own abort left undecided   *)
(* (finishSuppression).  fits: the recipients whose backed-off retry would *)
(* still fall inside the 24 h window.                                      *)
(***************************************************************************)
FinishSuppression(w, r) ==
    /\ job[w] \in suppressionBlocked
    /\ \/ rstatus[r] = "SUPPRESSED"
       \/ result[w].rc[r].stage \in {"SUPPRESSION_BLOCKED", "DATABASE_ERROR"}

DecideRecipient(w, r, fits) ==
    LET x == result[w].rc[r] IN
    Decide([stage |-> x.stage, class |-> result[w].class, status |-> x.status,
            code |-> x.code, final |-> result[w].final, body |-> result[w].body],
           [attempts |-> attemptCount[r], windowOver |-> r \in windowOver,
            fits |-> r \in fits])

FinishedStatus(w, r, fits) ==
    LET action == DecideRecipient(w, r, fits).action IN
    IF rstatus[r] = "SUPPRESSED" THEN "SUPPRESSED"
    ELSE IF FinishSuppression(w, r)
         THEN IF BudgetSpent(r) THEN "TEMP_FAILED" ELSE "QUEUED"
    ELSE IF action = "MANUAL_INTERVENTION" THEN "TEMP_FAILED"
    ELSE IF action = "DELIVERY_UNKNOWN" THEN "DELIVERY_UNKNOWN"
    ELSE result[w].rc[r].status

Idle(w) ==
    /\ pc' = [pc EXCEPT ![w] = "idle"]
    /\ job' = [job EXCEPT ![w] = 0]
    /\ result' = [result EXCEPT ![w] = NoResult]

Finish(w) ==
    LET a == job[w]
        S == RecipientsOf(a)
        reported == {result[w].rc[r].status : r \in S}
        contradiction ==
            /\ a \in suppressionBlocked \cup expiryBlocked
            /\ result[w].body \/ reported \cap {Accepted, Unknown} # {}
    IN
    /\ pc[w] = "finish" /\ Fence(w, FALSE)
    /\ reported \subseteq ResultStatus /\ ~contradiction
    /\ \E fits \in SUBSET S :
         LET decided == {r \in S : ~FinishSuppression(w, r)}
             Decides(r, action) == DecideRecipient(w, r, fits).action = action
             resumed == {r \in S \ decided : rstatus[r] # "SUPPRESSED"}
             rs == [r \in Recipients |->
                      IF r \in S THEN FinishedStatus(w, r, fits) ELSE rstatus[r]]
             at == [r \in Recipients |->
                      IF r \notin S THEN retryAt[r]
                      ELSE IF r \in decided /\ RetryEnabled
                                /\ Decides(r, "RETRY_SAME_PROVIDER") THEN "waiting"
                      ELSE "none"]
             may == (mayHaveDelivered \ (decided \cup resumed)) \cup
                      {r \in decided : DecideRecipient(w, r, fits).mayHaveDelivered}
             ar == [attemptRecipient EXCEPT ![a] =
                      [r \in Recipients |-> IF r \in S THEN result[w].rc[r].status ELSE "none"]]
         IN /\ Settle(rs, retryAutomatic \ decided, at, may, ar)
            /\ attemptRecipient' = ar
    /\ inProgress' = inProgress \ {a}
    /\ lockedBy' = 0 /\ leaseLive' = FALSE
    /\ Idle(w)
    /\ UNCHANGED <<pastDeadline, attemptCount, windowOver, claims, armed,
                   suppressionBlocked, expiryBlocked, policyVars, wire>>

\* A worker panics or is killed, or its Finish fails or is refused: nothing
\* is written and the lease is left to recovery.
Abandon(w) ==
    /\ pc[w] # "idle"
    /\ Idle(w)
    /\ UNCHANGED <<messageVars, recipientVars, attemptVars, policyVars, wire>>
-----------------------------------------------------------------------------
(***************************************************************************)
(* Background transactions, run by every worker loop.  The code works      *)
(* through batches of messages under SKIP LOCKED; this is one message of   *)
(* such a batch.                                                           *)
(***************************************************************************)
\* Slip: only an attempt that got as far as DATA is taken back.
RecoverableArmed == status = "SENDING" /\ ~leaseLive /\ lockedBy \in inProgress \cap armed
\* What Recover selects.
Recoverable == status = "SENDING" /\ ~leaseLive /\ lockedBy \in inProgress

\* Slip: goes by the DATA that has started, not by the permission to start it.
MayHaveSentIfStarted(a) == wire[a] # {}
\* Recover's test for "DATA may have been sent".
MayHaveSent(a) == a \in armed

\* Recover: the lease ran out.  An armed attempt is DELIVERY_UNKNOWN, an
\* unarmed one is queued again unless its budget is spent (expireRecovered).
Recover ==
    LET a == lockedBy
        isArmed == MayHaveSent(a)
        rs1 == [r \in Recipients |->
                  IF rstatus[r] # "SENDING" THEN rstatus[r]
                  ELSE IF isArmed THEN "DELIVERY_UNKNOWN" ELSE "QUEUED"]
        spent == {r \in Recipients : ~isArmed /\ rs1[r] = "QUEUED" /\ BudgetSpent(r)}
        rs == Set(rs1, spent, "TEMP_FAILED")
        ar == [attemptRecipient EXCEPT ![a] =
                 [r \in Recipients |->
                    IF r \in RecipientsOf(a)
                    THEN IF isArmed THEN Unknown ELSE Temporary ELSE "none"]]
    IN
    /\ Recoverable
    /\ Settle(rs, retryAutomatic \ spent, Clear(retryAt, spent),
              mayHaveDelivered \ spent, ar)
    /\ attemptRecipient' = ar
    /\ inProgress' = inProgress \ {a}
    /\ lockedBy' = 0 /\ leaseLive' = FALSE
    /\ UNCHANGED <<pastDeadline, attemptCount, windowOver, claims, armed,
                   suppressionBlocked, expiryBlocked, policyVars, workerVars, wire>>

\* Slips: messages that went out in part, or that are frozen, are not looked at.
SchedulableWhole == {"QUEUED", "TEMP_FAILED"}
ExpirableUnfrozen == {"QUEUED", "TEMP_FAILED", "PARTIAL_ACCEPTED"}
\* The message statuses Schedule and SweepExpired look at.
Schedulable == {"QUEUED", "TEMP_FAILED", "PARTIAL_ACCEPTED"}
Expirable == {"QUEUED", "TEMP_FAILED", "PARTIAL_ACCEPTED", "DELIVERY_UNKNOWN"}

\* Schedule: expire, then requeue the recipients whose retry is due and
\* retire the automatic ones whose budget is spent, whatever their status.
Schedule ==
    LET Candidate(r) == \/ retryAt[r] = "due"
                        \/ r \in retryAutomatic /\ rstatus[r] = "QUEUED" /\ BudgetSpent(r)
        expired == Expiring(rstatus)
        candidates == {r \in Recipients \ expired : Candidate(r)}
        spent == {r \in candidates : BudgetSpent(r)}
        queued == IF RetryEnabled THEN candidates \ spent ELSE {}
        rs == Set(Set(Set(rstatus, expired, "EXPIRED"), spent, "TEMP_FAILED"),
                  queued, "QUEUED")
    IN
    /\ lockedBy = 0 /\ status \in Schedulable
    /\ \E r \in Recipients : Candidate(r)
    /\ rstatus' = rs
    /\ retryAutomatic' = (retryAutomatic \ (expired \cup spent)) \cup queued
    /\ retryAt' = Clear(retryAt, expired \cup spent \cup queued)
    /\ mayHaveDelivered' = (mayHaveDelivered \ spent) \cup
                             {r \in expired : EverUnknown(attemptRecipient, r)}
    /\ status' = Projection(rs)
    /\ UNCHANGED <<lockedBy, leaseLive, pastDeadline, attemptCount, windowOver,
                   attemptVars, policyVars, workerVars, wire>>

SweepExpired ==
    /\ lockedBy = 0 /\ status \in Expirable
    /\ Expiring(rstatus) # {}
    /\ Settle(rstatus, retryAutomatic, retryAt, mayHaveDelivered, attemptRecipient)
    /\ UNCHANGED <<lockedBy, leaseLive, pastDeadline, attemptCount, windowOver,
                   attemptVars, policyVars, workerVars, wire>>

\* SweepSuppressed with suppression.Apply on the pending recipients.
SweepSuppressed ==
    LET hits == {r \in suppressed : rstatus[r] \in Pending}
        rs == Set(rstatus, hits, "SUPPRESSED")
    IN
    /\ lockedBy = 0 /\ hits # {}
    /\ rstatus' = rs
    /\ retryAutomatic' = retryAutomatic \ hits
    /\ retryAt' = Clear(retryAt, hits)
    /\ mayHaveDelivered' = mayHaveDelivered \ hits
    /\ status' = Projection(rs)
    /\ UNCHANGED <<lockedBy, leaseLive, pastDeadline, attemptCount, windowOver,
                   attemptVars, policyVars, workerVars, wire>>
-----------------------------------------------------------------------------
(***************************************************************************)
(* Operators and clients.                                                  *)
(***************************************************************************)
\* An operator can act on r: it is an unresolved UNKNOWN of attempt a, and a
\* is the latest attempt that carried r.
Resolvable(r, a) ==
    /\ lockedBy = 0
    /\ rstatus[r] = Unknown
    /\ attemptRecipient[a][r] = Unknown
    /\ \A b \in Attempts : attemptRecipient[b][r] # "none" => b <= a

\* ResolveUnknown: retry after acknowledging the duplicate risk, or record
\* what the operator found out.
ResolveUnknown(r, a) ==
    /\ Resolvable(r, a)
    /\ \E outcome \in {"QUEUED", "DELIVERED", "PERM_FAILED"} :
         LET rs == [rstatus EXCEPT ![r] = outcome] IN
         /\ outcome = "QUEUED" => ~pastDeadline /\ r \notin suppressed
         /\ rstatus' = rs
         /\ status' = Projection(rs)
         /\ acknowledged' = IF outcome = "QUEUED" THEN acknowledged \cup {<<a, r>>}
                            ELSE acknowledged
    /\ retryAutomatic' = retryAutomatic \ {r}
    /\ retryAt' = [retryAt EXCEPT ![r] = "none"]
    /\ mayHaveDelivered' = mayHaveDelivered \ {r}
    /\ UNCHANGED <<lockedBy, leaseLive, pastDeadline, attemptCount, windowOver,
                   attemptVars, suppressed, workerVars, wire>>

\* cancelPendingTx's history check: nothing was ever authorised to be sent.
NeverAuthorised ==
    /\ armed = {}
    /\ \A a \in Attempts, r \in Recipients :
         attemptRecipient[a][r] \notin {Accepted, Unknown}

\* cancelPendingTx: only while nothing is in flight and nothing was ever
\* authorised to be sent.
CancelPending ==
    LET cancelled == {r \in Recipients : rstatus[r] \in Pending} IN
    /\ lockedBy = 0 /\ status \in Pending
    /\ inProgress = {} /\ NeverAuthorised
    /\ \A r \in Recipients : rstatus[r] \in Pending \cup {"PERM_FAILED", "SUPPRESSED", "EXPIRED"}
    /\ rstatus' = Set(rstatus, cancelled, "CANCELLED")
    /\ retryAutomatic' = retryAutomatic \ cancelled
    /\ retryAt' = Clear(retryAt, cancelled)
    /\ mayHaveDelivered' = mayHaveDelivered \ cancelled
    /\ status' = "CANCELLED"
    /\ UNCHANGED <<lockedBy, leaseLive, pastDeadline, attemptCount, windowOver,
                   attemptVars, policyVars, workerVars, wire>>

\* suppression.Service.Add, and Release or the entry's own expiry.
SuppressionAdd(r) ==
    /\ r \notin suppressed
    /\ suppressed' = suppressed \cup {r}
    /\ UNCHANGED <<messageVars, recipientVars, attemptVars, acknowledged, workerVars, wire>>

SuppressionRelease(r) ==
    /\ r \in suppressed
    /\ suppressed' = suppressed \ {r}
    /\ UNCHANGED <<messageVars, recipientVars, attemptVars, acknowledged, workerVars, wire>>
-----------------------------------------------------------------------------
(***************************************************************************)
(* Time passes.                                                            *)
(***************************************************************************)
LeaseExpires ==
    /\ leaseLive
    /\ leaseLive' = FALSE
    /\ UNCHANGED <<status, lockedBy, pastDeadline, recipientVars, attemptVars,
                   policyVars, workerVars, wire>>

DeadlinePasses ==
    /\ ~pastDeadline
    /\ pastDeadline' = TRUE
    /\ UNCHANGED <<status, lockedBy, leaseLive, recipientVars, attemptVars,
                   policyVars, workerVars, wire>>

RetryFallsDue(r) ==
    /\ retryAt[r] = "waiting"
    /\ retryAt' = [retryAt EXCEPT ![r] = "due"]
    /\ UNCHANGED <<messageVars, rstatus, attemptCount, retryAutomatic, windowOver,
                   mayHaveDelivered, attemptVars, policyVars, workerVars, wire>>

WindowCloses(r) ==
    /\ attemptCount[r] > 0 /\ r \notin windowOver
    /\ windowOver' = windowOver \cup {r}
    /\ UNCHANGED <<messageVars, rstatus, attemptCount, retryAutomatic, retryAt,
                   mayHaveDelivered, attemptVars, policyVars, workerVars, wire>>
-----------------------------------------------------------------------------
Next ==
    \/ \E w \in Workers :
         \/ Claim(w) \/ SendFails(w) \/ SendRcpt(w) \/ SendData(w) \/ SendFinal(w)
         \/ Finish(w) \/ Abandon(w)
         \/ \E learns \in BOOLEAN : ArmData(w, learns)
    \/ Recover \/ Schedule \/ SweepExpired \/ SweepSuppressed
    \/ \E r \in Recipients, a \in Attempts : ResolveUnknown(r, a)
    \/ CancelPending
    \/ \E r \in Recipients : SuppressionAdd(r) \/ SuppressionRelease(r)
    \/ LeaseExpires \/ DeadlinePasses
    \/ \E r \in Recipients : RetryFallsDue(r) \/ WindowCloses(r)

Spec == Init /\ [][Next]_vars

(***************************************************************************)
(* Clocks advance, and the loop of every worker runs Recover and Schedule  *)
(* again and again until the process is told to stop.                      *)
(***************************************************************************)
Fairness ==
    /\ WF_vars(LeaseExpires)
    /\ \A r \in Recipients : WF_vars(RetryFallsDue(r))
    /\ WF_vars(Recover)
    /\ WF_vars(Schedule)
    /\ WF_vars(SweepExpired)

FairSpec == Spec /\ Fairness
-----------------------------------------------------------------------------
(***************************************************************************)
(* Properties.                                                             *)
(***************************************************************************)
ResultType ==
    [rc : [Recipients -> [stage : Stages, code : ReplyClass,
                          status : ResultStatus \cup {RcptAccepted}]],
     class : ErrorClasses, final : ReplyClass, body : BOOLEAN]

MessageType ==
    /\ status \in MessageStatus
    /\ lockedBy \in 0 .. AttemptBound
    /\ leaseLive \in BOOLEAN /\ pastDeadline \in BOOLEAN

RecipientType ==
    /\ rstatus \in [Recipients -> RecipientStatus]
    /\ attemptCount \in [Recipients -> Nat]
    /\ retryAutomatic \subseteq Recipients
    /\ retryAt \in [Recipients -> {"none", "waiting", "due"}]
    /\ windowOver \subseteq Recipients /\ mayHaveDelivered \subseteq Recipients

AttemptType ==
    /\ claims \in 0 .. AttemptBound
    /\ inProgress \subseteq Attempts /\ armed \subseteq Attempts
    /\ suppressionBlocked \subseteq Attempts /\ expiryBlocked \subseteq Attempts
    /\ attemptRecipient \in
         [Attempts -> [Recipients -> ResultStatus \cup {"none", "SENDING"}]]

WorkerType ==
    /\ pc \in [Workers -> {"idle", "claimed", "rcpt", "armed", "body", "finish"}]
    /\ job \in [Workers -> 0 .. AttemptBound]
    /\ \A w \in Workers : pc[w] # "idle" => job[w] # 0
    /\ result \in [Workers -> ResultType]

\* Every column and every piece of worker memory keeps its type.
TypeOK ==
    /\ MessageType /\ RecipientType /\ AttemptType /\ WorkerType
    /\ suppressed \subseteq Recipients
    /\ acknowledged \subseteq Attempts \X Recipients
    /\ wire \in [Attempts -> SUBSET Recipients]

(***************************************************************************)
(* The promise of the DATA fence and of conservative recovery: when two    *)
(* attempts both put the body on the wire for a recipient and neither was  *)
(* refused, an operator had acknowledged the duplicate risk of the earlier *)
(* one.  Holds for a worker that stalls past its lease, wakes up and sends.*)
(***************************************************************************)
NoUnacknowledgedDuplicate ==
    \A a, b \in Attempts, r \in Recipients :
        a < b /\ r \in wire[a] /\ r \in wire[b] => <<a, r>> \in acknowledged

(***************************************************************************)
(* cancel.go: "success always means no delivery attempt can remain in      *)
(* flight".  A cancelled message has no body on the wire, now or later.    *)
(***************************************************************************)
CancelledNeverSent ==
    status = "CANCELLED" => \A a \in Attempts : wire[a] = {}

(***************************************************************************)
(* A recipient recorded EXPIRED without may_have_delivered was never sent; *)
(* one recorded SUPPRESSED was not sent either, except by an attempt that  *)
(* an operator chose to repeat.  (applyExpiry, suppression.Apply.)         *)
(***************************************************************************)
PolicyEndsAreHonest ==
    \A a \in Attempts, r \in Recipients :
        r \in wire[a] =>
            /\ rstatus[r] = "EXPIRED" => r \in mayHaveDelivered
            /\ rstatus[r] = "SUPPRESSED" => <<a, r>> \in acknowledged

(***************************************************************************)
(* A retry deadline is set only on a TEMP_FAILED recipient.  Schedule      *)
(* queues whatever recipient has a due one without looking at its status,  *)
(* so any other transaction that forgot to clear it would send again.      *)
(***************************************************************************)
RetryOnlyWhenFailed ==
    \A r \in Recipients : retryAt[r] # "none" => rstatus[r] = "TEMP_FAILED"

(***************************************************************************)
(* Settled recipients stay as they are, and only an operator moves one     *)
(* that is DELIVERY_UNKNOWN: no sweep, retry, late worker or recovery      *)
(* rewrites what is known, or guesses what is not.                         *)
(***************************************************************************)
FactsStay ==
    [][\A r \in Recipients :
         /\ rstatus[r] \in Settled => rstatus'[r] = rstatus[r]
         /\ rstatus[r] = Unknown /\ rstatus'[r] # Unknown =>
              \E a \in Attempts : ResolveUnknown(r, a)]_vars

(***************************************************************************)
(* The evidence of a closed attempt is never rewritten, and the attempt is *)
(* never reopened: a worker that lost its lease cannot publish over what   *)
(* recovery or a newer claim recorded.                                     *)
(***************************************************************************)
EvidenceIsFinal ==
    [][\A a \in 1 .. claims :
         a \notin inProgress =>
            /\ attemptRecipient'[a] = attemptRecipient[a]
            /\ a \notin inProgress']_vars

(***************************************************************************)
(* While one recipient is DELIVERY_UNKNOWN no new attempt starts for the   *)
(* others (docs/operations.md: other retries wait for the operator).       *)
(***************************************************************************)
UnknownFreezesMessage ==
    [][claims' # claims => \A r \in Recipients : rstatus[r] # Unknown]_vars

\* A leased message does not stay leased: its worker finishes or, once the
\* lease has run out, Recover takes it back.
LeaseIsSettled == status = "SENDING" ~> status # "SENDING"

\* With retries on, a due retry is queued or retired, unless the message is
\* frozen by an UNKNOWN recipient.
RetryIsServed ==
    \A r \in Recipients :
        RetryEnabled /\ retryAt[r] = "due" ~>
            retryAt[r] = "none" \/ status = "DELIVERY_UNKNOWN"

\* Past the message deadline no recipient stays pending.
DeadlineIsApplied ==
    \A r \in Recipients :
        pastDeadline /\ rstatus[r] \in Pending ~> rstatus[r] \notin Pending

(***************************************************************************)
(* manual.go refuses a resolution unless the recipient is "an unresolved   *)
(* UNKNOWN from the expected latest attempt"; docs/operations.md has the   *)
(* operator look up that attempt.  So each UNKNOWN recipient of a message  *)
(* that is not leased should have an attempt it can be resolved against.   *)
(***************************************************************************)
UnknownIsResolvable ==
    \A r \in Recipients :
        rstatus[r] = Unknown /\ lockedBy = 0 => \E a \in Attempts : Resolvable(r, a)
-----------------------------------------------------------------------------
(***************************************************************************)
(* The inductive invariant behind the safety properties, in parts.         *)
(***************************************************************************)
Carries(a, r) == attemptRecipient[a][r] # "none"

\* The only attempt in progress is the newest, and it holds the lease.
LeaseInv ==
    /\ inProgress = {lockedBy} \ {0}
    /\ lockedBy # 0 => lockedBy = claims /\ status = "SENDING"

\* Attempts that have not been made yet have left no trace.
FutureInv ==
    \A a \in Attempts : a > claims =>
        /\ a \notin armed \cup suppressionBlocked \cup expiryBlocked
        /\ wire[a] = {}
        /\ \A r \in Recipients : ~Carries(a, r) /\ <<a, r>> \notin acknowledged

\* Every attempt has at most one worker, which claimed it.
JobInv ==
    /\ \A w \in Workers : job[w] <= claims
    /\ \A v, w \in Workers : pc[v] # "idle" /\ job[v] = job[w] => v = w

\* The recipients of the attempt that holds the lease are those in SENDING,
\* but for the ones its suppression fence took out; a fence that blocked
\* never arms.
SendingInv ==
    /\ \A r \in Recipients :
         /\ rstatus[r] = "SENDING" => lockedBy # 0 /\ Carries(lockedBy, r)
         /\ lockedBy # 0 /\ Carries(lockedBy, r) =>
              \/ rstatus[r] = "SENDING"
              \/ rstatus[r] = "SUPPRESSED" /\ lockedBy \in suppressionBlocked
    /\ armed \cap suppressionBlocked = {}

\* What a worker remembers of its conversation agrees with what is on the wire.
MemoryInv(w) ==
    /\ pc[w] = "armed" => job[w] \in armed
    /\ pc[w] \in {"claimed", "rcpt", "armed"} => wire[job[w]] = {}
    /\ pc[w] = "body" => /\ result[w].body
                         /\ \A r \in wire[job[w]] : result[w].rc[r].status = RcptAccepted
    /\ pc[w] = "finish" => \A r \in wire[job[w]] :
         /\ result[w].body
         /\ \/ result[w].rc[r].status = Unknown
            \/ result[w].rc[r].status = Accepted /\ result[w].final = 2
    /\ \A r \in Recipients :
         result[w].rc[r].code = 4 => result[w].rc[r].status = Temporary

\* No body without a durable permission.
WireInv ==
    /\ \A a \in Attempts : wire[a] # {} => a \in armed
    /\ \A a \in Attempts : \A r \in wire[a] : Carries(a, r)
    /\ \A w \in Workers : MemoryInv(w)

\* The body of attempt a is on the wire for r, or its worker, however late,
\* still holds the permission to put it there.
Exposed(a, r) ==
    \/ r \in wire[a]
    \/ Carries(a, r) /\ \E w \in Workers : pc[w] = "armed" /\ job[w] = a

\* Once a has lost the lease, its record says that r may have been reached,
\* and r is out of the queue unless an operator put it back.
ExposedInv ==
    \A a \in Attempts, r \in Recipients :
        Exposed(a, r) /\ a # lockedBy =>
            /\ attemptRecipient[a][r] \in {Accepted, Unknown}
            /\ \/ <<a, r>> \in acknowledged
               \/ /\ rstatus[r] \in {"SMTP_ACCEPTED", "DELIVERY_UNKNOWN",
                                     "DELIVERED", "PERM_FAILED"}
                  /\ \A b \in Attempts : b > a => ~Carries(b, r)
            /\ rstatus[r] = "EXPIRED" => r \in mayHaveDelivered

\* An acknowledged attempt is recorded as unknown.
AcknowledgedInv ==
    \A a \in Attempts, r \in Recipients :
        <<a, r>> \in acknowledged => attemptRecipient[a][r] = Unknown /\ a # lockedBy

\* A cancelled message is at rest for ever, and was never armed.
CancelledInv ==
    status = "CANCELLED" =>
        /\ lockedBy = 0 /\ armed = {}
        /\ \A r \in Recipients :
             rstatus[r] \in {"CANCELLED", "PERM_FAILED", "SUPPRESSED", "EXPIRED"}

\* A message in the queue has no unknown recipient.
QueuedInv == status = "QUEUED" => \A r \in Recipients : rstatus[r] # Unknown

\* What every reachable state satisfies: the lease, the DATA fence, the records
\* of closed attempts and the recipients agree with each other, whatever a
\* late worker still holds in memory.
FenceInv ==
    /\ LeaseInv /\ FutureInv /\ JobInv /\ SendingInv /\ WireInv
    /\ RetryOnlyWhenFailed /\ ExposedInv /\ AcknowledgedInv
    /\ CancelledInv /\ QueuedInv
=============================================================================
