------------------------- MODULE DeliveryQueueProofs -------------------------
(***************************************************************************)
(* Proofs about DeliveryQueue, for any number of recipients, workers and   *)
(* attempts, any retry budget and any replies: that it is type correct,    *)
(* and that FenceInv, its inductive invariant, is kept by the life of an   *)
(* attempt up to its close.  DeliveryFenceProofs has the other steps and   *)
(* the properties.                                                         *)
(***************************************************************************)
EXTENDS DeliveryQueue, TLAPS
-----------------------------------------------------------------------------
(***************************************************************************)
(* The operators the transactions are built from.                          *)
(***************************************************************************)
\* refresh yields a message status, never CANCELLED, and QUEUED only when no
\* recipient is unknown.
LEMMA ProjectionFacts ==
    ASSUME NEW rs
    PROVE  /\ Projection(rs) \in MessageStatus
           /\ Projection(rs) # "CANCELLED"
           /\ Projection(rs) = "QUEUED" => \A r \in Recipients : rs[r] # Unknown
BY Zenon DEF Projection, ActiveStatus, RestingStatus, MessageStatus, RecipientStatus,
       Pending, Unknown

\* An UPDATE of some rows keeps the column's type and touches only those rows.
LEMMA SetFacts ==
    ASSUME NEW T, NEW f \in [Recipients -> T], NEW X, NEW v \in T
    PROVE  /\ Set(f, X, v) \in [Recipients -> T]
           /\ \A r \in Recipients :
                /\ r \in X => Set(f, X, v)[r] = v
                /\ r \notin X => Set(f, X, v)[r] = f[r]
BY Zenon DEF Set

\* One cell of such a column, whatever its type.
LEMMA SetAt ==
    ASSUME NEW f, NEW X, NEW v, NEW r \in Recipients
    PROVE  Set(f, X, v)[r] = IF r \in X THEN v ELSE f[r]
BY Zenon DEF Set

\* The closure fail of smtpclient.Send: verdicts that stand are kept, the
\* others become final, and never an acceptance.
LEMMA FailFacts ==
    ASSUME NEW res \in ResultType, NEW e \in FailureType, NEW uncertain \in BOOLEAN
    PROVE  /\ Fail(res, e, uncertain) \in ResultType
           /\ Fail(res, e, uncertain).body = res.body
           /\ Fail(res, e, uncertain).final = res.final
           /\ \A r \in Recipients :
                LET x == res.rc[r]
                    y == Fail(res, e, uncertain).rc[r]
                IN  /\ (x.status # RcptAccepted /\ ~(x.status = Temporary /\ x.code = 0))
                         => y = x
                    /\ x.status = RcptAccepted =>
                         y.status = IF e.code = 5 THEN Permanent
                                    ELSE IF uncertain /\ e.code # 4 THEN Unknown
                                    ELSE Temporary
                    /\ (x.code = 4 => x.status = Temporary) =>
                         (y.code = 4 => y.status = Temporary)
<1> DEFINE verdict == IF e.code = 5 THEN Permanent
                      ELSE IF uncertain /\ e.code # 4 THEN Unknown ELSE Temporary
           open(x) == x.status = RcptAccepted \/ (x.status = Temporary /\ x.code = 0)
           y(r) == IF open(res.rc[r])
                   THEN [stage |-> e.stage, status |-> verdict, code |-> e.code]
                   ELSE res.rc[r]
           rc == [r \in Recipients |-> y(r)]
<1>1. Fail(res, e, uncertain) = [res EXCEPT !.class = e.class, !.rc = rc]
  BY Zenon DEF Fail
<1>2. /\ res.rc \in [Recipients -> [stage : Stages, code : ReplyClass,
                                    status : ResultStatus \cup {RcptAccepted}]]
      /\ e.stage \in Stages /\ e.class \in ErrorClasses /\ e.code \in ReplyClass
  BY Zenon DEF ResultType, FailureType
<1>3. verdict \in ResultStatus
  BY Zenon DEF ResultStatus
<1>4. rc \in [Recipients -> [stage : Stages, code : ReplyClass,
                             status : ResultStatus \cup {RcptAccepted}]]
  BY Zenon, <1>2, <1>3
<1>5. Fail(res, e, uncertain) \in ResultType
  BY Zenon, <1>1, <1>2, <1>4 DEF ResultType
<1>6. /\ Fail(res, e, uncertain).body = res.body
      /\ Fail(res, e, uncertain).final = res.final
      /\ Fail(res, e, uncertain).rc = rc
  BY Zenon, <1>1 DEF ResultType
<1>7. \A r \in Recipients :
        /\ ~open(res.rc[r]) => rc[r] = res.rc[r]
        /\ open(res.rc[r]) => rc[r].status = verdict /\ rc[r].code = e.code
  OBVIOUS
<1>8. QED
  BY <1>5, <1>6, <1>7 DEF Permanent, Temporary, Unknown, RcptAccepted

\* The tail of a transaction keeps the recipient columns typed.
LEMMA SettleType ==
    ASSUME NEW rs \in [Recipients -> RecipientStatus], NEW auto \in SUBSET Recipients,
           NEW at \in [Recipients -> {"none", "waiting", "due"}],
           NEW may \in SUBSET Recipients, NEW ar, Settle(rs, auto, at, may, ar)
    PROVE  /\ rstatus' \in [Recipients -> RecipientStatus]
           /\ retryAutomatic' \subseteq Recipients
           /\ retryAt' \in [Recipients -> {"none", "waiting", "due"}]
           /\ mayHaveDelivered' \subseteq Recipients
           /\ status' \in MessageStatus
<1>1. "EXPIRED" \in RecipientStatus
  BY Zenon DEF RecipientStatus
<1>2. Set(rs, Expiring(rs), "EXPIRED") \in [Recipients -> RecipientStatus]
  BY Zenon, <1>1, SetFacts
<1>3. Clear(at, Expiring(rs)) \in [Recipients -> {"none", "waiting", "due"}]
  BY Zenon, SetFacts DEF Clear
<1>4. Expiring(rs) \subseteq Recipients
  BY Zenon DEF Expiring
<1>5. QED
  BY Zenon, <1>2, <1>3, <1>4, ProjectionFacts DEF Settle
-----------------------------------------------------------------------------
(***************************************************************************)
(* Type correctness.                                                       *)
(***************************************************************************)
LEMMA NoResultType == NoResult \in ResultType
<1>1. NoReply \in [stage : Stages, code : ReplyClass,
                   status : ResultStatus \cup {RcptAccepted}]
  BY DEF NoReply, ReplyClass, ResultStatus, Stages
<1>2. QED
  BY <1>1 DEF NoResult, ResultType, ReplyClass, ErrorClasses, Stages

\* Members of the status sets that the transactions write.
LEMMA StatusMembers ==
    /\ {"QUEUED", "SENDING", "SUPPRESSED", "EXPIRED", "CANCELLED", "TEMP_FAILED",
        "DELIVERY_UNKNOWN", "DELIVERED", "PERM_FAILED"} \subseteq RecipientStatus
    /\ RecipientStatus \subseteq MessageStatus
    /\ 0 \in 0 .. AttemptBound
<1>1. 0 \in 0 .. AttemptBound
  BY QueueAssumption
<1>2. QED
  BY Zenon, <1>1 DEF RecipientStatus, MessageStatus, Pending

\* A step of the SMTP conversation changes the memory of its worker only.
LEMMA OutcomeType ==
    ASSUME WorkerType, NEW w \in Workers, pc[w] # "idle", NEW res \in ResultType,
           NEW next \in {"rcpt", "armed", "body", "finish"}, Outcome(w, res, next)
    PROVE  WorkerType'
BY Zenon DEF WorkerType, Outcome

\* A worker that goes idle keeps its memory well typed.
LEMMA IdleType ==
    ASSUME WorkerType, NEW w \in Workers, Idle(w)
    PROVE  WorkerType'
BY NoResultType, QueueAssumption DEF WorkerType, Idle

\* Decide answers with one of five actions, and FinishedStatus with a status.
LEMMA FinishedStatusType ==
    ASSUME TypeOK, NEW w \in Workers, NEW r \in Recipients, NEW fits,
           result[w].rc[r].status \in ResultStatus
    PROVE  FinishedStatus(w, r, fits) \in RecipientStatus
BY Zenon DEF FinishedStatus, RecipientStatus, Pending, ResultStatus, Accepted, Temporary,
       Permanent, Unknown

\* Finish keeps the types of every column it decides, expires or refreshes.
LEMMA FinishType == ASSUME TypeOK, NEW w \in Workers, Finish(w) PROVE TypeOK'
<1> DEFINE a == job[w]
           S == RecipientsOf(a)
           decided == {r \in S : ~FinishSuppression(w, r)}
           resumed == {r \in S \ decided : rstatus[r] # "SUPPRESSED"}
           rs(fits) == [r \in Recipients |->
                    IF r \in S THEN FinishedStatus(w, r, fits) ELSE rstatus[r]]
           at(fits) == [r \in Recipients |->
                    IF r \notin S THEN retryAt[r]
                    ELSE IF r \in decided /\ RetryEnabled
                            /\ DecideRecipient(w, r, fits).action = "RETRY_SAME_PROVIDER"
                    THEN "waiting" ELSE "none"]
           may(fits) == (mayHaveDelivered \ (decided \cup resumed)) \cup
                    {r \in decided : DecideRecipient(w, r, fits).mayHaveDelivered}
           ar == [attemptRecipient EXCEPT ![a] =
                    [r \in Recipients |-> IF r \in S THEN result[w].rc[r].status ELSE "none"]]
<1>1. PICK fits \in SUBSET S :
        Settle(rs(fits), retryAutomatic \ decided, at(fits), may(fits), ar)
  BY Zenon DEF Finish
<1>2. \A r \in S : r \in Recipients /\ result[w].rc[r].status \in ResultStatus
  BY Zenon DEF Finish, RecipientsOf
<1>3. rs(fits) \in [Recipients -> RecipientStatus]
  BY Zenon, <1>2, FinishedStatusType DEF TypeOK, RecipientType
<1>4. at(fits) \in [Recipients -> {"none", "waiting", "due"}]
  BY Zenon DEF TypeOK, RecipientType
<1>5. may(fits) \in SUBSET Recipients /\ retryAutomatic \ decided \in SUBSET Recipients
  BY Zenon, <1>2 DEF TypeOK, RecipientType
<1>6. /\ rstatus' \in [Recipients -> RecipientStatus]
      /\ retryAutomatic' \subseteq Recipients
      /\ retryAt' \in [Recipients -> {"none", "waiting", "due"}]
      /\ mayHaveDelivered' \subseteq Recipients
      /\ status' \in MessageStatus
  <2> HIDE DEF rs, at, may, ar, decided
  <2> QED
    BY Zenon, <1>1, <1>3, <1>4, <1>5, SettleType
<1>7. attemptRecipient' \in [Attempts -> [Recipients -> ResultStatus \cup {"none", "SENDING"}]]
  <2>1. attemptRecipient' = ar
    BY Zenon DEF Finish
  <2>2. QED
    BY Zenon, <1>2, <2>1 DEF TypeOK, AttemptType
<1>8. MessageType'
  BY Zenon, <1>6, StatusMembers DEF Finish, TypeOK, MessageType
<1>9. RecipientType' /\ AttemptType'
  BY Zenon, <1>6, <1>7 DEF Finish, TypeOK, RecipientType, AttemptType
<1>10. WorkerType'
  BY Zenon, IdleType DEF Finish, TypeOK
<1>11. QED
  BY Zenon, <1>8, <1>9, <1>10 DEF Finish, TypeOK, policyVars

\* The message as ingress commits it is well typed.
LEMMA InitType == Init => TypeOK
<1> SUFFICES ASSUME Init PROVE TypeOK
  OBVIOUS
<1>1. MessageType
  <2>1. status \in {"SUPPRESSED", "QUEUED"}
    BY Zenon DEF Init
  <2>2. status \in MessageStatus
    BY Zenon, <2>1 DEF MessageStatus, RecipientStatus, Pending
  <2>3. 0 \in 0 .. AttemptBound
    BY QueueAssumption
  <2>4. QED
    BY Zenon, <2>2, <2>3 DEF Init, MessageType
<1>2. RecipientType
  BY Zenon DEF Init, RecipientType, RecipientStatus, Pending
<1>3. AttemptType
  BY QueueAssumption DEF Init, AttemptType
<1>4. WorkerType
  BY QueueAssumption, NoResultType DEF Init, WorkerType
<1>5. QED
  BY Zenon, <1>1, <1>2, <1>3, <1>4 DEF Init, TypeOK

\* Claim keeps the types: the new attempt number stays within the bound.
LEMMA ClaimType == ASSUME TypeOK, NEW w \in Workers, Claim(w) PROVE TypeOK'
<1>1. PICK S \in SUBSET {r \in Recipients : Claimable(r)} :
        LET a == claims + 1 IN
        /\ S # {}
        /\ claims' = a
        /\ status' = "SENDING" /\ lockedBy' = a /\ leaseLive' = TRUE
        /\ inProgress' = inProgress \cup {a}
        /\ rstatus' = Set(rstatus, S, "SENDING")
        /\ attemptCount' = [r \in Recipients |->
               IF r \in S THEN attemptCount[r] + 1 ELSE attemptCount[r]]
        /\ retryAt' = Clear(retryAt, S)
        /\ attemptRecipient' = [attemptRecipient EXCEPT ![a] =
               [r \in Recipients |-> IF r \in S THEN "SENDING" ELSE "none"]]
        /\ pc' = [pc EXCEPT ![w] = "claimed"]
        /\ job' = [job EXCEPT ![w] = a]
  BY Zenon DEF Claim
<1>2. claims + 1 \in 1 .. AttemptBound
  BY QueueAssumption DEF Claim, TypeOK, AttemptType
<1>3. MessageType'
  BY <1>1, <1>2 DEF Claim, TypeOK, MessageType, MessageStatus, RecipientStatus
<1>4. RecipientType'
  <2>1. rstatus' \in [Recipients -> RecipientStatus]
    BY Zenon, <1>1, SetFacts DEF TypeOK, RecipientType, RecipientStatus
  <2>2. retryAt' \in [Recipients -> {"none", "waiting", "due"}]
    BY Zenon, <1>1, SetFacts DEF TypeOK, RecipientType, Clear
  <2>3. QED
    BY <1>1, <2>1, <2>2 DEF Claim, TypeOK, RecipientType
<1>5. AttemptType'
  BY <1>1, <1>2 DEF Claim, TypeOK, AttemptType, Attempts
<1>6. WorkerType'
  BY <1>1, <1>2 DEF Claim, TypeOK, WorkerType
<1>7. QED
  BY Zenon, <1>3, <1>4, <1>5, <1>6 DEF Claim, TypeOK, policyVars

\* Steps of a worker that write nothing: SendFails, SendRcpt, SendData,
\* SendFinal and Abandon.
LEMMA SendType ==
    ASSUME TypeOK, NEW w \in Workers,
           SendFails(w) \/ SendRcpt(w) \/ SendData(w) \/ SendFinal(w) \/ Abandon(w)
    PROVE  TypeOK'
<1>0. result[w] \in ResultType
  BY Zenon DEF TypeOK, WorkerType
<1>1. CASE SendFails(w)
  <2>0. EnvelopeFailures \subseteq FailureType
    BY DEF EnvelopeFailures, FailureType, ReplyClass, Stages, ErrorClasses
  <2>1. PICK e \in FailureType : Outcome(w, Fail(result[w], e, FALSE), "finish")
    BY Zenon, <1>1, <2>0, QueueAssumption DEF SendFails
  <2>2. WorkerType'
    BY Zenon, <1>0, <1>1, <2>1, FailFacts, OutcomeType DEF TypeOK, SendFails
  <2>3. QED
    BY Zenon, <1>1, <2>2 DEF SendFails, TypeOK, MessageType, RecipientType, AttemptType,
       messageVars, recipientVars, attemptVars, policyVars
<1>2. CASE SendRcpt(w)
  <2> DEFINE rc(reply) == [r \in Recipients |->
                 IF r \notin DOMAIN reply THEN NoReply
                 ELSE IF reply[r] = 2
                 THEN [stage |-> RcptAccepted, status |-> RcptAccepted, code |-> 2]
                 ELSE [stage |-> "RCPT_REJECTED", code |-> reply[r],
                       status |-> IF reply[r] = 5 THEN Permanent ELSE Temporary]]
  <2>1. PICK reply \in [RecipientsOf(job[w]) -> RcptReplies],
             next \in {"rcpt", "finish"} :
          Outcome(w, [result[w] EXCEPT !.rc = rc(reply)], next)
    BY Zenon, <1>2 DEF SendRcpt
  <2>2. rc(reply) \in [Recipients -> [stage : Stages, code : ReplyClass,
                                      status : ResultStatus \cup {RcptAccepted}]]
    <3>1. \A r \in DOMAIN reply : reply[r] \in ReplyClass
      BY Zenon, QueueAssumption
    <3>2. 2 \in ReplyClass /\ 0 \in ReplyClass
      BY DEF ReplyClass
    <3>3. /\ "RCPT_ACCEPTED" \in Stages /\ "RCPT_REJECTED" \in Stages /\ "none" \in Stages
          /\ Permanent \in ResultStatus /\ Temporary \in ResultStatus
      BY Zenon DEF Stages, ResultStatus
    <3>4. QED
      BY Zenon, <3>1, <3>2, <3>3 DEF NoReply, RcptAccepted
  <2>3. [result[w] EXCEPT !.rc = rc(reply)] \in ResultType
    BY Zenon, <1>0, <2>2 DEF ResultType
  <2>4. WorkerType'
    BY Zenon, <1>2, <2>1, <2>3, OutcomeType DEF TypeOK, SendRcpt
  <2>5. QED
    BY Zenon, <1>2, <2>4 DEF SendRcpt, TypeOK, MessageType, RecipientType, AttemptType,
       messageVars, recipientVars, attemptVars, policyVars
<1>3. CASE SendData(w)
  <2>1. WorkerType' /\ wire' \in [Attempts -> SUBSET Recipients]
    <3>1. CASE \E code \in {0, 2, 4, 5} :
               /\ Outcome(w, Fail(result[w],
                   [stage |-> "DATA_REJECTED", code |-> code,
                    class |-> IF code = 0 THEN "CONNECTION_RESET" ELSE "DATA_REJECTED"],
                   FALSE), "finish")
               /\ UNCHANGED wire
      <4>0. \A code \in {0, 2, 4, 5} :
              [stage |-> "DATA_REJECTED", code |-> code,
               class |-> IF code = 0 THEN "CONNECTION_RESET" ELSE "DATA_REJECTED"]
                  \in FailureType
        BY DEF FailureType, ReplyClass, Stages, ErrorClasses
      <4>1. PICK e \in FailureType : Outcome(w, Fail(result[w], e, FALSE), "finish")
        BY Zenon, <3>1, <4>0
      <4>2. QED
        BY Zenon, <1>0, <1>3, <3>1, <4>1, FailFacts, OutcomeType DEF TypeOK, SendData
    <3>2. CASE /\ Outcome(w, [result[w] EXCEPT !.body = TRUE], "body")
               /\ wire' = [wire EXCEPT ![job[w]] =
                    {r \in RecipientsOf(job[w]) : result[w].rc[r].status = RcptAccepted}]
      <4>1. [result[w] EXCEPT !.body = TRUE] \in ResultType
        BY Zenon, <1>0 DEF ResultType
      <4>2. WorkerType'
        BY Zenon, <1>3, <3>2, <4>1, OutcomeType DEF TypeOK, SendData
      <4>3. QED
        BY Zenon, <3>2, <4>2 DEF TypeOK, RecipientsOf
    <3>3. QED
      BY Zenon, <1>3, <3>1, <3>2 DEF SendData
  <2>2. QED
    BY Zenon, <1>3, <2>1 DEF SendData, TypeOK, MessageType, RecipientType, AttemptType,
       messageVars, recipientVars, attemptVars, policyVars
<1>4. CASE SendFinal(w)
  <2>1. PICK code \in {0, 2, 3, 4, 5} :
         LET res == [result[w] EXCEPT !.final = code] IN
         /\ Outcome(w,
               IF code = 2
               THEN [res EXCEPT !.rc = [r \in Recipients |->
                       IF res.rc[r].status = RcptAccepted
                       THEN [stage |-> "FINAL_RESPONSE", status |-> Accepted, code |-> 2]
                       ELSE res.rc[r]]]
               ELSE Fail(res, [stage |-> "FINAL_RESPONSE_ERROR", code |-> code,
                               class |-> "FINAL_RESPONSE_ERROR"], TRUE),
               "finish")
         /\ wire' = IF code \in {4, 5} THEN [wire EXCEPT ![job[w]] = {}] ELSE wire
    BY Zenon, <1>4 DEF SendFinal
  <2> DEFINE res == [result[w] EXCEPT !.final = code]
             rc == [r \in Recipients |->
                      IF res.rc[r].status = RcptAccepted
                      THEN [stage |-> "FINAL_RESPONSE", status |-> Accepted, code |-> 2]
                      ELSE res.rc[r]]
             e == [stage |-> "FINAL_RESPONSE_ERROR", code |-> code,
                   class |-> "FINAL_RESPONSE_ERROR"]
  <2>2. res \in ResultType
    BY <1>0 DEF ResultType, ReplyClass
  <2>3. [res EXCEPT !.rc = rc] \in ResultType
    <3>1. res.rc \in [Recipients -> [stage : Stages, code : ReplyClass,
                                     status : ResultStatus \cup {RcptAccepted}]]
      BY Zenon, <2>2 DEF ResultType
    <3>2. "FINAL_RESPONSE" \in Stages /\ Accepted \in ResultStatus /\ 2 \in ReplyClass
      BY DEF Stages, ResultStatus, ReplyClass
    <3>3. rc \in [Recipients -> [stage : Stages, code : ReplyClass,
                                 status : ResultStatus \cup {RcptAccepted}]]
      BY Zenon, <3>1, <3>2
    <3> HIDE DEF rc, res
    <3>4. QED
      BY Zenon, <2>2, <3>3 DEF ResultType
  <2>4. e \in FailureType
    BY DEF FailureType, ReplyClass, Stages, ErrorClasses
  <2>5. WorkerType'
    <3>1. CASE code = 2
      <4>1. Outcome(w, [res EXCEPT !.rc = rc], "finish")
        BY Zenon, <2>1, <3>1
      <4>2. QED
        BY Zenon, <1>4, <2>3, <4>1, OutcomeType DEF TypeOK, SendFinal
    <3>2. CASE code # 2
      <4>1. Outcome(w, Fail(res, e, TRUE), "finish")
        BY Zenon, <2>1, <3>2
      <4>2. QED
        BY Zenon, <1>4, <2>2, <2>4, <4>1, FailFacts, OutcomeType DEF TypeOK, SendFinal
    <3>3. QED
      BY Zenon, <3>1, <3>2
  <2>6. wire' \in [Attempts -> SUBSET Recipients]
    BY Zenon, <2>1 DEF TypeOK
  <2>7. QED
    BY Zenon, <1>4, <2>5, <2>6 DEF SendFinal, TypeOK, MessageType, RecipientType, AttemptType,
       messageVars, recipientVars, attemptVars, policyVars
<1>5. CASE Abandon(w)
  BY Zenon, <1>5, IdleType DEF Abandon, TypeOK, MessageType, RecipientType, AttemptType,
     messageVars, recipientVars, attemptVars, policyVars
<1>6. QED
  BY Zenon, <1>1, <1>2, <1>3, <1>4, <1>5

\* ArmData keeps the types, whether it arms, blocks, or loses its reply.
LEMMA ArmDataType ==
    ASSUME TypeOK, NEW w \in Workers, NEW learns \in BOOLEAN, ArmData(w, learns)
    PROVE  TypeOK'
<1> DEFINE hits == {r \in Recipients : rstatus[r] = "SENDING" /\ r \in suppressed}
           Failure(stage) == [stage |-> stage, class |-> stage, code |-> 0]
           Stop(stage) == Outcome(w, Fail(result[w],
                              Failure(IF learns THEN stage ELSE "DATABASE_ERROR"), FALSE),
                              "finish")
<1>1. result[w] \in ResultType /\ job[w] \in Attempts /\ pc[w] # "idle"
  BY DEF TypeOK, WorkerType, ArmData, Attempts
<1>2. \A stage \in {"SUPPRESSION_BLOCKED", "EXPIRY_BLOCKED", "DATABASE_ERROR"} :
         Failure(IF learns THEN stage ELSE "DATABASE_ERROR") \in FailureType
  BY DEF FailureType, ReplyClass, Stages, ErrorClasses
<1>3. ASSUME NEW stage \in {"SUPPRESSION_BLOCKED", "EXPIRY_BLOCKED", "DATABASE_ERROR"},
             Stop(stage)
      PROVE  WorkerType'
  BY Zenon, <1>1, <1>2, <1>3, FailFacts, OutcomeType DEF TypeOK
<1>4. CASE /\ hits # {}
           /\ rstatus' = Set(rstatus, hits, "SUPPRESSED")
           /\ retryAt' = Clear(retryAt, hits)
           /\ retryAutomatic' = retryAutomatic \ hits
           /\ mayHaveDelivered' = mayHaveDelivered \ hits
           /\ suppressionBlocked' = suppressionBlocked \cup {job[w]}
           /\ Stop("SUPPRESSION_BLOCKED")
           /\ UNCHANGED <<attemptCount, windowOver, armed, expiryBlocked>>
  <2>1. rstatus' \in [Recipients -> RecipientStatus]
    <3>1. "SUPPRESSED" \in RecipientStatus
      BY Zenon, StatusMembers
    <3>2. rstatus' = Set(rstatus, hits, "SUPPRESSED")
      BY Zenon, <1>4
    <3> HIDE DEF hits
    <3>3. QED
      BY Zenon, <3>1, <3>2, SetFacts DEF TypeOK, RecipientType
  <2>2. retryAt' \in [Recipients -> {"none", "waiting", "due"}]
    BY Zenon, <1>4, SetFacts DEF TypeOK, RecipientType, Clear
  <2>3. RecipientType'
    BY Zenon, <1>4, <2>1, <2>2 DEF TypeOK, RecipientType
  <2>4. WorkerType'
    BY Zenon, <1>3, <1>4
  <2>5. QED
    BY Zenon, <1>1, <1>4, <2>3, <2>4 DEF ArmData, TypeOK, MessageType, AttemptType,
       messageVars, policyVars
<1>5. CASE /\ expiryBlocked' = expiryBlocked \cup {job[w]}
           /\ Stop("EXPIRY_BLOCKED")
           /\ UNCHANGED <<recipientVars, armed, suppressionBlocked>>
  <2>1. WorkerType'
    BY Zenon, <1>3, <1>5
  <2>2. QED
    BY Zenon, <1>1, <1>5, <2>1 DEF ArmData, TypeOK, MessageType, RecipientType, AttemptType,
       messageVars, recipientVars, policyVars
<1>6. CASE /\ armed' = armed \cup {job[w]}
           /\ IF learns THEN Outcome(w, result[w], "armed") ELSE Stop("DATABASE_ERROR")
           /\ UNCHANGED <<recipientVars, suppressionBlocked, expiryBlocked>>
  <2>1. WorkerType'
    BY Zenon, <1>1, <1>3, <1>6, OutcomeType DEF TypeOK
  <2>2. QED
    BY Zenon, <1>1, <1>6, <2>1 DEF ArmData, TypeOK, MessageType, RecipientType, AttemptType,
       messageVars, recipientVars, policyVars
<1>7. QED
  BY Zenon, <1>4, <1>5, <1>6 DEF ArmData

\* Recover keeps the types, for an armed attempt and for an unarmed one.
LEMMA RecoverType == ASSUME TypeOK, Recover PROVE TypeOK'
<1> DEFINE a == lockedBy
           isArmed == MayHaveSent(a)
           rs1 == [r \in Recipients |->
                     IF rstatus[r] # "SENDING" THEN rstatus[r]
                     ELSE IF isArmed THEN "DELIVERY_UNKNOWN" ELSE "QUEUED"]
           spent == {r \in Recipients : ~isArmed /\ rs1[r] = "QUEUED" /\ BudgetSpent(r)}
           rs == Set(rs1, spent, "TEMP_FAILED")
           ar == [attemptRecipient EXCEPT ![a] =
                    [r \in Recipients |->
                       IF r \in RecipientsOf(a)
                       THEN IF isArmed THEN Unknown ELSE Temporary ELSE "none"]]
<1>1. Settle(rs, retryAutomatic \ spent, Clear(retryAt, spent), mayHaveDelivered \ spent, ar)
  BY Zenon DEF Recover
<1>2. rs1 \in [Recipients -> RecipientStatus]
  BY Zenon, StatusMembers DEF TypeOK, RecipientType
<1>3. rs \in [Recipients -> RecipientStatus]
  <2>1. "TEMP_FAILED" \in RecipientStatus
    BY Zenon, StatusMembers
  <2> HIDE DEF rs1, spent
  <2>2. QED
    BY Zenon, <1>2, <2>1, SetFacts
<1>4. Clear(retryAt, spent) \in [Recipients -> {"none", "waiting", "due"}]
  BY Zenon, SetFacts DEF TypeOK, RecipientType, Clear
<1>5. /\ retryAutomatic \ spent \in SUBSET Recipients
      /\ mayHaveDelivered \ spent \in SUBSET Recipients
  BY Zenon DEF TypeOK, RecipientType
<1>6. /\ rstatus' \in [Recipients -> RecipientStatus]
      /\ retryAutomatic' \subseteq Recipients
      /\ retryAt' \in [Recipients -> {"none", "waiting", "due"}]
      /\ mayHaveDelivered' \subseteq Recipients
      /\ status' \in MessageStatus
  <2> HIDE DEF rs, ar, spent
  <2> QED
    BY Zenon, <1>1, <1>3, <1>4, <1>5, SettleType
<1>7. attemptRecipient' \in [Attempts -> [Recipients -> ResultStatus \cup {"none", "SENDING"}]]
  <2>1. attemptRecipient' = ar
    BY Zenon DEF Recover
  <2>2. QED
    BY Zenon, <2>1 DEF TypeOK, AttemptType, ResultStatus
<1>8. MessageType' /\ RecipientType' /\ AttemptType'
  BY Zenon, <1>6, <1>7, StatusMembers DEF Recover, TypeOK, MessageType,
     RecipientType, AttemptType
<1>9. QED
  BY Zenon, <1>8 DEF Recover, TypeOK, WorkerType, policyVars, workerVars

\* The transactions that leave the attempts and the workers alone.
LEMMA ScheduleType == ASSUME TypeOK, Schedule PROVE TypeOK'
<1>1. PICK expired \in SUBSET Recipients, spent \in SUBSET Recipients,
           queued \in SUBSET Recipients :
        /\ rstatus' = Set(Set(Set(rstatus, expired, "EXPIRED"), spent, "TEMP_FAILED"),
                          queued, "QUEUED")
        /\ status' = Projection(rstatus')
        /\ retryAutomatic' = (retryAutomatic \ (expired \cup spent)) \cup queued
        /\ retryAt' = Clear(retryAt, expired \cup spent \cup queued)
        /\ mayHaveDelivered' = (mayHaveDelivered \ spent) \cup
                                 {r \in expired : EverUnknown(attemptRecipient, r)}
  <2> DEFINE Candidate(r) == \/ retryAt[r] = "due"
                             \/ r \in retryAutomatic /\ rstatus[r] = "QUEUED" /\ BudgetSpent(r)
             expired == Expiring(rstatus)
             candidates == {r \in Recipients \ expired : Candidate(r)}
             spent == {r \in candidates : BudgetSpent(r)}
             queued == IF RetryEnabled THEN candidates \ spent ELSE {}
  <2>1. expired \in SUBSET Recipients /\ spent \in SUBSET Recipients
                                      /\ queued \in SUBSET Recipients
    BY Zenon DEF Expiring
  <2>2. /\ rstatus' = Set(Set(Set(rstatus, expired, "EXPIRED"), spent, "TEMP_FAILED"),
                          queued, "QUEUED")
        /\ status' = Projection(rstatus')
        /\ retryAutomatic' = (retryAutomatic \ (expired \cup spent)) \cup queued
        /\ retryAt' = Clear(retryAt, expired \cup spent \cup queued)
        /\ mayHaveDelivered' = (mayHaveDelivered \ spent) \cup
                                 {r \in expired : EverUnknown(attemptRecipient, r)}
    BY Zenon DEF Schedule
  <2> HIDE DEF expired, spent, queued
  <2>3. QED
    BY Zenon, <2>1, <2>2
<1>2. /\ "EXPIRED" \in RecipientStatus /\ "TEMP_FAILED" \in RecipientStatus
      /\ "QUEUED" \in RecipientStatus
  BY Zenon, StatusMembers
<1>3. Set(rstatus, expired, "EXPIRED") \in [Recipients -> RecipientStatus]
  BY <1>2, SetFacts DEF TypeOK, RecipientType
<1>4. Set(Set(rstatus, expired, "EXPIRED"), spent, "TEMP_FAILED")
         \in [Recipients -> RecipientStatus]
  BY <1>2, <1>3, SetFacts
<1>5. rstatus' \in [Recipients -> RecipientStatus]
  BY <1>1, <1>2, <1>4, SetFacts
<1>6. retryAt' \in [Recipients -> {"none", "waiting", "due"}]
  BY Zenon, <1>1, SetFacts DEF TypeOK, RecipientType, Clear
<1>7. RecipientType' /\ MessageType'
  BY Zenon, <1>1, <1>5, <1>6, ProjectionFacts DEF Schedule, TypeOK, RecipientType, MessageType
<1>8. QED
  BY Zenon, <1>7 DEF Schedule, TypeOK, AttemptType, WorkerType, attemptVars,
     policyVars, workerVars

\* The sweeps and the cancellation keep the types.
LEMMA SweepType ==
    ASSUME TypeOK, SweepExpired \/ SweepSuppressed \/ CancelPending
    PROVE  TypeOK'
<1>1. /\ "EXPIRED" \in RecipientStatus /\ "SUPPRESSED" \in RecipientStatus
      /\ "CANCELLED" \in RecipientStatus /\ "CANCELLED" \in MessageStatus
  BY Zenon, StatusMembers
<1>2. CASE SweepExpired
  <2>1. MessageType' /\ RecipientType'
    BY Zenon, <1>2, SettleType DEF SweepExpired, TypeOK, RecipientType, MessageType
  <2>2. QED
    BY Zenon, <1>2, <2>1 DEF SweepExpired, TypeOK, AttemptType, WorkerType, attemptVars,
       policyVars, workerVars
<1>3. CASE SweepSuppressed
  <2>1. rstatus' \in [Recipients -> RecipientStatus]
    <3> DEFINE hits == {r \in suppressed : rstatus[r] \in Pending}
    <3>1. rstatus' = Set(rstatus, hits, "SUPPRESSED")
      BY Zenon, <1>3 DEF SweepSuppressed
    <3> HIDE DEF hits
    <3>2. QED
      BY Zenon, <1>1, <3>1, SetFacts DEF TypeOK, RecipientType
  <2>2. retryAt' \in [Recipients -> {"none", "waiting", "due"}]
    BY Zenon, <1>3, SetFacts DEF SweepSuppressed, TypeOK, RecipientType, Clear
  <2>3. MessageType' /\ RecipientType'
    BY Zenon, <1>3, <2>1, <2>2, ProjectionFacts
       DEF SweepSuppressed, TypeOK, RecipientType, MessageType
  <2>4. QED
    BY Zenon, <1>3, <2>3 DEF SweepSuppressed, TypeOK, AttemptType, WorkerType, attemptVars,
       policyVars, workerVars
<1>4. CASE CancelPending
  <2>1. rstatus' \in [Recipients -> RecipientStatus]
    <3> DEFINE cancelled == {r \in Recipients : rstatus[r] \in Pending}
    <3>1. rstatus' = Set(rstatus, cancelled, "CANCELLED")
      BY Zenon, <1>4 DEF CancelPending
    <3> HIDE DEF cancelled
    <3>2. QED
      BY Zenon, <1>1, <3>1, SetFacts DEF TypeOK, RecipientType
  <2>2. retryAt' \in [Recipients -> {"none", "waiting", "due"}]
    BY Zenon, <1>4, SetFacts DEF CancelPending, TypeOK, RecipientType, Clear
  <2>3. MessageType' /\ RecipientType'
    BY Zenon, <1>1, <1>4, <2>1, <2>2 DEF CancelPending, TypeOK, RecipientType, MessageType
  <2>4. QED
    BY Zenon, <1>4, <2>3 DEF CancelPending, TypeOK, AttemptType, WorkerType, attemptVars,
       policyVars, workerVars
<1>5. QED
  BY Zenon, <1>2, <1>3, <1>4

\* A manual resolution keeps the types.
LEMMA ResolveType ==
    ASSUME TypeOK, NEW r \in Recipients, NEW a \in Attempts, ResolveUnknown(r, a)
    PROVE  TypeOK'
<1>1. PICK outcome \in {"QUEUED", "DELIVERED", "PERM_FAILED"} :
        /\ rstatus' = [rstatus EXCEPT ![r] = outcome]
        /\ status' = Projection([rstatus EXCEPT ![r] = outcome])
        /\ acknowledged' = IF outcome = "QUEUED" THEN acknowledged \cup {<<a, r>>}
                           ELSE acknowledged
  BY Zenon DEF ResolveUnknown
<1>2. outcome \in RecipientStatus
  BY Zenon, StatusMembers
<1>3. MessageType' /\ RecipientType'
  BY Zenon, <1>1, <1>2, ProjectionFacts DEF ResolveUnknown, TypeOK, RecipientType, MessageType
<1>4. acknowledged' \subseteq Attempts \X Recipients
  BY <1>1 DEF TypeOK
<1>5. QED
  BY Zenon, <1>3, <1>4 DEF ResolveUnknown, TypeOK, AttemptType, WorkerType, attemptVars, workerVars

\* Suppressions come and go, and time passes.
LEMMA EnvironmentType ==
    ASSUME TypeOK,
           \/ LeaseExpires \/ DeadlinePasses
           \/ \E r \in Recipients : \/ SuppressionAdd(r) \/ SuppressionRelease(r)
                                    \/ RetryFallsDue(r) \/ WindowCloses(r)
    PROVE  TypeOK'
<1>1. CASE LeaseExpires \/ DeadlinePasses
  BY Zenon, <1>1 DEF LeaseExpires, DeadlinePasses, TypeOK, MessageType, RecipientType,
     AttemptType, WorkerType, recipientVars, attemptVars, policyVars, workerVars
<1>2. CASE \E r \in Recipients : SuppressionAdd(r) \/ SuppressionRelease(r)
  BY Zenon, <1>2 DEF SuppressionAdd, SuppressionRelease, TypeOK, MessageType, RecipientType,
     AttemptType, WorkerType, messageVars, recipientVars, attemptVars, workerVars
<1>3. CASE \E r \in Recipients : RetryFallsDue(r) \/ WindowCloses(r)
  BY Zenon, <1>3 DEF RetryFallsDue, WindowCloses, TypeOK, MessageType, RecipientType,
     AttemptType, WorkerType, messageVars, attemptVars, policyVars, workerVars
<1>4. QED
  BY Zenon, <1>1, <1>2, <1>3

\* Every step keeps the types: one case per action.
LEMMA NextType == TypeOK /\ [Next]_vars => TypeOK'
<1> SUFFICES ASSUME TypeOK, [Next]_vars PROVE TypeOK'
  OBVIOUS
<1>1. CASE UNCHANGED vars
  BY Zenon, <1>1 DEF vars, TypeOK, MessageType, RecipientType, AttemptType, WorkerType,
     messageVars, recipientVars, attemptVars, policyVars, workerVars
<1>2. CASE Next
  BY Zenon, <1>2, ClaimType, SendType, ArmDataType, FinishType, RecoverType, ScheduleType,
     SweepType, ResolveType, EnvironmentType DEF Next
<1>3. QED
  BY Zenon, <1>1, <1>2

\* No interleaving of workers, sweeps, operators and clocks drives a column or
\* a worker's memory out of its type.
THEOREM TypeCorrect == Spec => []TypeOK
<1>1. QED
  BY InitType, NextType, PTL DEF Spec

-----------------------------------------------------------------------------
(***************************************************************************)
(* FenceInv is kept by the life of an attempt up to its close: Claim,      *)
(* which takes the lease, the steps of the SMTP conversation, and ArmData, *)
(* which takes the DATA fence.                                             *)
(***************************************************************************)

(***************************************************************************)
(* Claim: a new attempt, larger than any before, and carried recipients    *)
(* that were in the queue.                                                 *)
(***************************************************************************)
LEMMA ClaimFence == ASSUME TypeOK, FenceInv, NEW w \in Workers, Claim(w) PROVE FenceInv'
<1> DEFINE a == claims + 1
<1>1. PICK S \in SUBSET {r \in Recipients : Claimable(r)} :
        /\ claims' = a
        /\ status' = "SENDING" /\ lockedBy' = a
        /\ inProgress' = inProgress \cup {a}
        /\ rstatus' = Set(rstatus, S, "SENDING")
        /\ retryAt' = Clear(retryAt, S)
        /\ attemptRecipient' = [attemptRecipient EXCEPT ![a] =
               [r \in Recipients |-> IF r \in S THEN "SENDING" ELSE "none"]]
        /\ pc' = [pc EXCEPT ![w] = "claimed"]
        /\ job' = [job EXCEPT ![w] = a]
  BY Zenon DEF Claim
<1>2. /\ pc[w] = "idle" /\ status = "QUEUED" /\ claims < AttemptBound
      /\ UNCHANGED <<mayHaveDelivered, armed, suppressionBlocked, expiryBlocked,
                     acknowledged, result, wire>>
  BY Zenon DEF Claim, policyVars
<1>3. /\ a \in Attempts /\ a # 0 /\ claims \in Nat
      /\ \A b \in Attempts : b \in Int
  BY <1>2, QueueAssumption DEF TypeOK, AttemptType, Attempts
<1>4. lockedBy = 0 /\ inProgress = {}
  BY Zenon, <1>2 DEF FenceInv, LeaseInv
<1>5. \A r \in S : r \in Recipients /\ rstatus[r] = "QUEUED"
  BY Zenon DEF Claimable
<1>6. \A r \in Recipients :
        /\ rstatus'[r] = IF r \in S THEN "SENDING" ELSE rstatus[r]
        /\ retryAt'[r] = IF r \in S THEN "none" ELSE retryAt[r]
  BY <1>1, SetAt DEF Clear
<1>7. \A b \in Attempts, r \in Recipients :
        /\ b # a => attemptRecipient'[b][r] = attemptRecipient[b][r]
        /\ b = a => attemptRecipient'[b][r] = IF r \in S THEN "SENDING" ELSE "none"
  BY Zenon, <1>1, <1>3 DEF TypeOK, AttemptType
<1>8. \A v \in Workers : /\ v # w => pc'[v] = pc[v] /\ job'[v] = job[v]
                         /\ pc'[w] = "claimed" /\ job'[w] = a
                         /\ job[v] <= claims /\ job[v] \in Nat /\ job[v] # a
                         /\ pc[v] # "idle" => job[v] \in Attempts
  <2>1. \A v \in Workers : job[v] <= claims
    BY Zenon DEF FenceInv, JobInv
  <2>2. \A v \in Workers : job[v] \in Nat /\ (pc[v] # "idle" => job[v] \in Attempts)
    BY QueueAssumption DEF TypeOK, WorkerType, Attempts
  <2>3. QED
    BY <1>1, <1>3, <2>1, <2>2 DEF TypeOK, WorkerType
<1>9. /\ a \notin armed \cup suppressionBlocked /\ wire[a] = {}
      /\ \A r \in Recipients : <<a, r>> \notin acknowledged
  BY <1>3 DEF FenceInv, FutureInv
<1>10. LeaseInv'
  BY <1>1, <1>3, <1>4 DEF LeaseInv
<1>11. FutureInv'
  <2> SUFFICES ASSUME NEW b \in Attempts, b > a
               PROVE  /\ b \notin armed \cup suppressionBlocked \cup expiryBlocked
                      /\ wire[b] = {}
                      /\ \A r \in Recipients : attemptRecipient'[b][r] = "none"
                                               /\ <<b, r>> \notin acknowledged
    BY Zenon, <1>1, <1>2 DEF FutureInv, Carries
  <2>1. b > claims /\ b # a
    BY <1>3
  <2>2. QED
    BY Zenon, <1>7, <2>1 DEF FenceInv, FutureInv, Carries
<1>12. JobInv'
  BY <1>1, <1>3, <1>8 DEF FenceInv, JobInv
<1>13. SendingInv'
  BY <1>1, <1>2, <1>3, <1>4, <1>6, <1>7 DEF FenceInv, SendingInv, Carries
<1>14. WireInv'
  <2>1. \A b \in Attempts : /\ wire'[b] # {} => b \in armed'
                            /\ \A r \in wire'[b] : Carries(b, r)'
    <3> SUFFICES ASSUME NEW b \in Attempts, NEW r \in wire[b]
                 PROVE  b \in armed /\ Carries(b, r)'
      BY Zenon, <1>2
    <3>1. b # a /\ b \in armed /\ Carries(b, r)
      BY Zenon, <1>9 DEF FenceInv, WireInv
    <3>2. QED
      BY Zenon, <1>7, <3>1 DEF Carries, TypeOK
  <2>2. MemoryInv(w)'
    BY <1>2, <1>8, <1>9 DEF FenceInv, WireInv, MemoryInv
  <2>3. ASSUME NEW v \in Workers, v # w PROVE MemoryInv(v)'
    BY <1>2, <1>8, <2>3 DEF FenceInv, WireInv, MemoryInv
  <2>4. QED
    BY Zenon, <2>1, <2>2, <2>3 DEF WireInv
<1>15. RetryOnlyWhenFailed'
  BY Zenon, <1>5, <1>6 DEF FenceInv, RetryOnlyWhenFailed
<1>16. AcknowledgedInv'
  BY <1>1, <1>2, <1>7, <1>9 DEF FenceInv, AcknowledgedInv
<1>17. ExposedInv'
  <2> SUFFICES ASSUME NEW b \in Attempts, NEW r \in Recipients, Exposed(b, r)', b # a
               PROVE  /\ attemptRecipient'[b][r] \in {Accepted, Unknown}
                      /\ \/ <<b, r>> \in acknowledged
                         \/ /\ rstatus'[r] \in {"SMTP_ACCEPTED", "DELIVERY_UNKNOWN",
                                                "DELIVERED", "PERM_FAILED"}
                            /\ \A d \in Attempts : d > b => ~Carries(d, r)'
                      /\ rstatus'[r] = "EXPIRED" => r \in mayHaveDelivered
    BY Zenon, <1>1, <1>2 DEF ExposedInv
  <2>1. Exposed(b, r)
    BY Zenon, <1>2, <1>7, <1>8 DEF Exposed, Carries
  <2>2. /\ attemptRecipient[b][r] \in {Accepted, Unknown}
        /\ \/ <<b, r>> \in acknowledged
           \/ /\ rstatus[r] \in {"SMTP_ACCEPTED", "DELIVERY_UNKNOWN",
                                 "DELIVERED", "PERM_FAILED"}
              /\ \A d \in Attempts : d > b => ~Carries(d, r)
        /\ rstatus[r] = "EXPIRED" => r \in mayHaveDelivered
    BY <1>3, <1>4, <2>1 DEF FenceInv, ExposedInv, Attempts
  <2>3. QED
    BY <1>5, <1>6, <1>7, <2>2 DEF Carries
<1>18. CancelledInv' /\ QueuedInv'
  BY Zenon, <1>1 DEF CancelledInv, QueuedInv
<1>19. QED
  BY Zenon, <1>10, <1>11, <1>12, <1>13, <1>14, <1>15, <1>16, <1>17, <1>18 DEF FenceInv

\* The worker part of a step of the conversation.
LEMMA OutcomeFacts ==
    ASSUME TypeOK, NEW w \in Workers, NEW res, NEW next, Outcome(w, res, next)
    PROVE  /\ pc'[w] = next /\ result'[w] = res /\ job' = job
           /\ \A v \in Workers : v # w =>
                pc'[v] = pc[v] /\ job'[v] = job[v] /\ result'[v] = result[v]
BY Zenon DEF Outcome, TypeOK, WorkerType

\* A conversation that ends before the body is sent.
LEMMA FailMemory ==
    ASSUME TypeOK, NEW w \in Workers, MemoryInv(w), NEW e \in FailureType,
           pc[w] \in {"claimed", "rcpt", "armed"},
           Outcome(w, Fail(result[w], e, FALSE), "finish"), wire' = wire
    PROVE  MemoryInv(w)' /\ pc'[w] = "finish" /\ job' = job
<1>1. pc'[w] = "finish" /\ result'[w] = Fail(result[w], e, FALSE) /\ job' = job
  BY Zenon, OutcomeFacts
<1>2. \A r \in Recipients : result[w].rc[r].code = 4 => result[w].rc[r].status = Temporary
  BY Zenon DEF MemoryInv
<1>3. result[w] \in ResultType
  BY Zenon DEF TypeOK, WorkerType
<1>4. \A r \in Recipients :
        Fail(result[w], e, FALSE).rc[r].code = 4 =>
            Fail(result[w], e, FALSE).rc[r].status = Temporary
  <2> SUFFICES ASSUME NEW r \in Recipients
               PROVE  Fail(result[w], e, FALSE).rc[r].code = 4 =>
                          Fail(result[w], e, FALSE).rc[r].status = Temporary
    BY Zenon
  <2>1. (result[w].rc[r].code = 4 => result[w].rc[r].status = Temporary) =>
        (Fail(result[w], e, FALSE).rc[r].code = 4 =>
            Fail(result[w], e, FALSE).rc[r].status = Temporary)
    BY Zenon, <1>3, FailFacts
  <2>2. QED
    BY Zenon, <1>2, <2>1
<1>5. QED
  BY Zenon, <1>1, <1>4 DEF MemoryInv

(***************************************************************************)
(* ArmData: the attempt that holds the lease is blocked or armed, never    *)
(* both, and only its own recipients are taken out.                        *)
(***************************************************************************)
LEMMA ArmDataFence ==
    ASSUME TypeOK, FenceInv, NEW w \in Workers, NEW learns \in BOOLEAN, ArmData(w, learns)
    PROVE  FenceInv'
<1> DEFINE a == job[w]
           hits == {r \in Recipients : rstatus[r] = "SENDING" /\ r \in suppressed}
           Failure(stage) == [stage |-> stage, class |-> stage, code |-> 0]
           Stop(stage) == Outcome(w, Fail(result[w],
                              Failure(IF learns THEN stage ELSE "DATABASE_ERROR"), FALSE),
                              "finish")
<1>1. /\ pc[w] = "rcpt" /\ status = "SENDING" /\ lockedBy = a
      /\ a \notin armed \cup suppressionBlocked \cup expiryBlocked
      /\ UNCHANGED <<status, lockedBy, claims, inProgress, attemptRecipient, acknowledged, wire>>
  BY Zenon DEF ArmData, Fence, messageVars, policyVars
<1>2. /\ a \in Attempts /\ a # 0 /\ a = claims /\ MemoryInv(w) /\ wire[a] = {}
      /\ \A b \in Attempts : b > claims => b # a
  <2>1. pc[w] # "idle"
    BY Zenon, <1>1
  <2>2. a \in Attempts /\ a # 0
    BY <2>1 DEF TypeOK, WorkerType, Attempts
  <2>3. QED
    BY <1>1, <2>2 DEF FenceInv, LeaseInv, WireInv, MemoryInv, Attempts
<1>3. ASSUME NEW stage \in {"SUPPRESSION_BLOCKED", "EXPIRY_BLOCKED", "DATABASE_ERROR"},
             Stop(stage)
      PROVE  MemoryInv(w)' /\ pc'[w] = "finish"
  <2>1. Failure(IF learns THEN stage ELSE "DATABASE_ERROR") \in FailureType
    BY DEF FailureType, ReplyClass, Stages, ErrorClasses
  <2> HIDE DEF Failure
  <2>2. QED
    BY Zenon, <1>1, <1>2, <1>3, <2>1, FailMemory
<1>4. /\ job' = job
      /\ \A v \in Workers : v # w =>
           pc'[v] = pc[v] /\ job'[v] = job[v] /\ result'[v] = result[v]
  BY Zenon, OutcomeFacts DEF ArmData
<1>5. /\ MemoryInv(w)' /\ pc'[w] \in {"armed", "finish"}
      /\ armed \subseteq armed' /\ armed' \subseteq armed \cup {a}
      /\ suppressionBlocked \subseteq suppressionBlocked'
      /\ suppressionBlocked' \subseteq suppressionBlocked \cup {a}
      /\ expiryBlocked' \subseteq expiryBlocked \cup {a}
      /\ armed' = armed \/ suppressionBlocked' = suppressionBlocked
      /\ \A r \in Recipients :
           \/ /\ rstatus'[r] = rstatus[r] /\ retryAt'[r] = retryAt[r]
              /\ r \in mayHaveDelivered => r \in mayHaveDelivered'
           \/ /\ rstatus[r] = "SENDING" /\ rstatus'[r] = "SUPPRESSED"
              /\ retryAt'[r] = "none" /\ a \in suppressionBlocked'
  <2>1. CASE /\ rstatus' = Set(rstatus, hits, "SUPPRESSED")
             /\ retryAt' = Clear(retryAt, hits)
             /\ mayHaveDelivered' = mayHaveDelivered \ hits
             /\ suppressionBlocked' = suppressionBlocked \cup {a}
             /\ Stop("SUPPRESSION_BLOCKED")
             /\ UNCHANGED <<armed, expiryBlocked>>
    <3>1. MemoryInv(w)' /\ pc'[w] = "finish"
      BY Zenon, <1>3, <2>1
    <3>2. \A r \in Recipients : r \in hits => rstatus[r] = "SENDING"
      OBVIOUS
    <3> HIDE DEF hits
    <3>3. \A r \in Recipients :
            /\ rstatus'[r] = IF r \in hits THEN "SUPPRESSED" ELSE rstatus[r]
            /\ retryAt'[r] = IF r \in hits THEN "none" ELSE retryAt[r]
      BY <2>1, SetAt DEF Clear
    <3>4. QED
      BY Zenon, <2>1, <3>1, <3>2, <3>3
  <2>2. CASE /\ expiryBlocked' = expiryBlocked \cup {a}
             /\ Stop("EXPIRY_BLOCKED")
             /\ UNCHANGED <<recipientVars, armed, suppressionBlocked>>
    <3>1. MemoryInv(w)' /\ pc'[w] = "finish"
      BY Zenon, <1>3, <2>2
    <3>2. QED
      BY Zenon, <2>2, <3>1 DEF recipientVars
  <2>3. CASE /\ armed' = armed \cup {a}
             /\ IF learns THEN Outcome(w, result[w], "armed") ELSE Stop("DATABASE_ERROR")
             /\ UNCHANGED <<recipientVars, suppressionBlocked, expiryBlocked>>
    <3>1. CASE learns
      <4>1. pc'[w] = "armed" /\ result'[w] = result[w] /\ job' = job
        BY <2>3, <3>1, OutcomeFacts
      <4>2. MemoryInv(w)'
        BY <1>1, <1>2, <2>3, <4>1 DEF MemoryInv
      <4>3. QED
        BY Zenon, <2>3, <4>1, <4>2 DEF recipientVars
    <3>2. CASE ~learns
      <4>1. MemoryInv(w)' /\ pc'[w] = "finish"
        BY Zenon, <1>3, <2>3, <3>2
      <4>2. QED
        BY Zenon, <2>3, <4>1 DEF recipientVars
    <3>3. QED
      BY Zenon, <3>1, <3>2
  <2>4. QED
    BY Zenon, <2>1, <2>2, <2>3 DEF ArmData
<1>6. LeaseInv' /\ JobInv'
  BY <1>1, <1>2, <1>4, <1>5 DEF FenceInv, LeaseInv, JobInv
<1>7. FutureInv'
  BY <1>1, <1>2, <1>5 DEF FenceInv, FutureInv, Carries
<1>8. SendingInv'
  BY <1>1, <1>2, <1>5 DEF FenceInv, SendingInv, Carries
<1>9. WireInv'
  <2>1. \A v \in Workers : v # w => MemoryInv(v)'
    BY <1>1, <1>4, <1>5 DEF FenceInv, WireInv, MemoryInv
  <2>2. \A b \in Attempts : /\ wire'[b] # {} => b \in armed'
                            /\ \A r \in wire'[b] : Carries(b, r)'
    BY Zenon, <1>1, <1>5 DEF FenceInv, WireInv, Carries
  <2>3. QED
    BY Zenon, <1>5, <2>1, <2>2 DEF WireInv
<1>10. RetryOnlyWhenFailed' /\ AcknowledgedInv' /\ CancelledInv' /\ QueuedInv'
  BY <1>1, <1>5 DEF FenceInv, RetryOnlyWhenFailed, AcknowledgedInv, CancelledInv, QueuedInv
<1>11. ExposedInv'
  <2> SUFFICES ASSUME NEW b \in Attempts, NEW r \in Recipients, Exposed(b, r)', b # a
               PROVE  /\ attemptRecipient[b][r] \in {Accepted, Unknown}
                      /\ \/ <<b, r>> \in acknowledged
                         \/ /\ rstatus'[r] \in {"SMTP_ACCEPTED", "DELIVERY_UNKNOWN",
                                                "DELIVERED", "PERM_FAILED"}
                            /\ \A d \in Attempts : d > b => ~Carries(d, r)
                      /\ rstatus'[r] = "EXPIRED" => r \in mayHaveDelivered'
    BY <1>1 DEF ExposedInv, Carries
  <2>1. Exposed(b, r)
    BY Zenon, <1>1, <1>4 DEF Exposed, Carries
  <2>2. QED
    BY Zenon, <1>1, <1>5, <2>1 DEF FenceInv, ExposedInv
<1>12. QED
  BY Zenon, <1>6, <1>7, <1>8, <1>9, <1>10, <1>11 DEF FenceInv

(***************************************************************************)
(* A step of a worker that writes nothing to the database: it may put the  *)
(* body on the wire where it was exposed before, or take it off again.     *)
(***************************************************************************)
ConversationStep(w) ==
    /\ UNCHANGED <<messageVars, recipientVars, attemptVars, policyVars>>
    /\ \A v \in Workers : v # w =>
         pc'[v] = pc[v] /\ job'[v] = job[v] /\ result'[v] = result[v]
    /\ pc'[w] # "armed"
    /\ \/ job'[w] = job[w] /\ pc[w] # "idle"
       \/ job'[w] = 0 /\ pc'[w] = "idle"
    /\ \A b \in Attempts :
         \/ wire'[b] = wire[b]
         \/ b = job[w] /\ \A r \in wire'[b] : Exposed(b, r)

\* Such a step keeps the invariant when the worker's own memory does.
LEMMA ConversationFence ==
    ASSUME TypeOK, TypeOK', FenceInv, NEW w \in Workers, ConversationStep(w), MemoryInv(w)'
    PROVE  FenceInv'
<1>1. /\ UNCHANGED <<status, lockedBy, rstatus, retryAt, mayHaveDelivered>>
      /\ UNCHANGED <<claims, inProgress, armed, suppressionBlocked, expiryBlocked,
                     attemptRecipient, acknowledged>>
  BY Zenon DEF ConversationStep, messageVars, recipientVars, attemptVars, policyVars
<1>2. \A b \in Attempts, r \in Recipients : Exposed(b, r)' => Exposed(b, r)
  BY <1>1 DEF ConversationStep, Exposed, Carries
<1>3. \A b \in Attempts, r \in Recipients : Exposed(b, r) => b \in armed /\ Carries(b, r)
  BY Zenon DEF FenceInv, WireInv, MemoryInv, Exposed
<1>4. \A b \in Attempts : \A r \in wire'[b] : r \in Recipients /\ b \in armed /\ Carries(b, r)
  <2>1. \A b \in Attempts : \A r \in wire'[b] : r \in Recipients /\ Exposed(b, r)'
    BY Zenon DEF TypeOK, Exposed
  <2>2. QED
    BY Zenon, <1>2, <1>3, <2>1
<1>5. LeaseInv' /\ SendingInv' /\ RetryOnlyWhenFailed' /\ AcknowledgedInv' /\ CancelledInv'
      /\ QueuedInv'
  BY Zenon, <1>1 DEF FenceInv, LeaseInv, SendingInv, RetryOnlyWhenFailed, AcknowledgedInv,
     CancelledInv, QueuedInv, Carries
<1>6. FutureInv'
  <2>1. \A b \in Attempts : b > claims => b \notin armed
    BY Zenon DEF FenceInv, FutureInv
  <2>2. \A b \in Attempts : b > claims => wire'[b] = {}
    BY Zenon, <1>4, <2>1
  <2>3. QED
    BY Zenon, <1>1, <2>2 DEF FenceInv, FutureInv, Carries
<1>7. JobInv'
  <2>1. \A v \in Workers : job'[v] <= claims'
    BY <1>1 DEF FenceInv, JobInv, ConversationStep, TypeOK, AttemptType
  <2>2. ASSUME NEW u \in Workers, NEW v \in Workers, pc'[u] # "idle", job'[u] = job'[v]
        PROVE  u = v
    <3>1. pc[u] # "idle" /\ job[u] # 0 /\ job'[u] = job[u]
      BY Zenon, <2>2 DEF ConversationStep, TypeOK, WorkerType
    <3>2. job'[v] = job[v]
      BY Zenon, <2>2, <3>1 DEF ConversationStep
    <3>3. QED
      BY Zenon, <2>2, <3>1, <3>2 DEF FenceInv, JobInv
  <2>3. QED
    BY Zenon, <2>1, <2>2 DEF JobInv
<1>8. WireInv'
  <2>1. ASSUME NEW v \in Workers, v # w PROVE MemoryInv(v)'
    <3>0. MemoryInv(v) /\ pc'[v] = pc[v] /\ job'[v] = job[v] /\ result'[v] = result[v]
      BY Zenon, <2>1 DEF FenceInv, WireInv, ConversationStep
    <3>1. CASE pc[v] = "idle"
      BY Zenon, <3>0, <3>1 DEF MemoryInv
    <3>2. CASE pc[v] # "idle"
      <4>1. job[v] \in Attempts
        BY <3>2 DEF TypeOK, WorkerType, Attempts
      <4>2. job[v] # job[w]
        BY Zenon, <2>1, <3>2 DEF FenceInv, JobInv
      <4>3. wire'[job[v]] = wire[job[v]]
        BY Zenon, <4>1, <4>2 DEF ConversationStep
      <4>4. armed' = armed
        BY Zenon, <1>1
      <4>5. QED
        BY <3>0, <4>3, <4>4 DEF MemoryInv
    <3>3. QED
      BY Zenon, <3>1, <3>2
  <2>2. \A b \in Attempts : /\ wire'[b] # {} => b \in armed'
                            /\ \A r \in wire'[b] : Carries(b, r)'
    BY Zenon, <1>1, <1>4 DEF Carries
  <2>3. QED
    BY Zenon, <2>1, <2>2 DEF WireInv
<1>9. ExposedInv'
  BY <1>1, <1>2 DEF FenceInv, ExposedInv, Carries
<1>10. QED
  BY Zenon, <1>5, <1>6, <1>7, <1>8, <1>9 DEF FenceInv

\* The workers other than w, and w's own attempt, after a step of w.
LEMMA OutcomeStep ==
    ASSUME TypeOK, NEW w \in Workers, NEW res, NEW next, Outcome(w, res, next),
           pc[w] # "idle", next # "armed",
           UNCHANGED <<messageVars, recipientVars, attemptVars, policyVars>>,
           \A b \in Attempts : \/ wire'[b] = wire[b]
                               \/ b = job[w] /\ \A r \in wire'[b] : Exposed(b, r)
    PROVE  ConversationStep(w)
<1>1. /\ pc'[w] = next /\ job' = job
      /\ \A v \in Workers : v # w =>
           pc'[v] = pc[v] /\ job'[v] = job[v] /\ result'[v] = result[v]
  BY OutcomeFacts
<1>2. QED
  BY Zenon, <1>1 DEF ConversationStep

\* Every step of Client.Send, and giving up, is a conversation step.
LEMMA SendFence ==
    ASSUME TypeOK, TypeOK', FenceInv, NEW w \in Workers,
           SendFails(w) \/ SendRcpt(w) \/ SendData(w) \/ SendFinal(w) \/ Abandon(w)
    PROVE  FenceInv'
<1> SUFFICES ConversationStep(w) /\ MemoryInv(w)'
  BY Zenon, ConversationFence
<1>0. /\ result[w] \in ResultType /\ MemoryInv(w)
      /\ pc[w] # "idle" => job[w] \in Attempts
  BY DEF TypeOK, WorkerType, FenceInv, WireInv, Attempts
<1>1. CASE SendFails(w)
  <2>1. EnvelopeFailures \subseteq FailureType
    BY DEF EnvelopeFailures, FailureType, ReplyClass, Stages, ErrorClasses
  <2>2. PICK e \in FailureType : Outcome(w, Fail(result[w], e, FALSE), "finish")
    BY Zenon, <1>1, <2>1, QueueAssumption DEF SendFails
  <2>3. /\ pc[w] \in {"claimed", "rcpt"}
        /\ UNCHANGED <<messageVars, recipientVars, attemptVars, policyVars, wire>>
    BY Zenon, <1>1 DEF SendFails
  <2>4. MemoryInv(w)'
    BY Zenon, <1>0, <2>2, <2>3, FailMemory
  <2>5. QED
    BY Zenon, <2>2, <2>3, <2>4, OutcomeStep
<1>2. CASE SendRcpt(w)
  <2> DEFINE rc(reply) == [r \in Recipients |->
                 IF r \notin DOMAIN reply THEN NoReply
                 ELSE IF reply[r] = 2
                 THEN [stage |-> RcptAccepted, status |-> RcptAccepted, code |-> 2]
                 ELSE [stage |-> "RCPT_REJECTED", code |-> reply[r],
                       status |-> IF reply[r] = 5 THEN Permanent ELSE Temporary]]
  <2>1. PICK reply \in [RecipientsOf(job[w]) -> RcptReplies],
             next \in {"rcpt", "finish"} :
          Outcome(w, [result[w] EXCEPT !.rc = rc(reply)], next)
    BY Zenon, <1>2 DEF SendRcpt
  <2>2. /\ pc[w] = "claimed"
        /\ UNCHANGED <<messageVars, recipientVars, attemptVars, policyVars, wire>>
    BY Zenon, <1>2 DEF SendRcpt
  <2>3. result'[w].rc = rc(reply)
    BY <1>0, <2>1, OutcomeFacts DEF ResultType
  <2>4. \A r \in Recipients : result'[w].rc[r].code = 4 => result'[w].rc[r].status = Temporary
    BY <2>3 DEF NoReply
  <2>5. ConversationStep(w)
    <3> HIDE DEF rc
    <3> QED
      BY Zenon, <2>1, <2>2, OutcomeStep
  <2>6. pc'[w] \in {"rcpt", "finish"} /\ job' = job
    <3> HIDE DEF rc
    <3> QED
      BY <2>1, OutcomeFacts
  <2>7. QED
    BY Zenon, <1>0, <2>2, <2>4, <2>5, <2>6 DEF MemoryInv
<1>3. CASE SendData(w)
  <2>0. /\ pc[w] = "armed" /\ job[w] \in armed /\ wire[job[w]] = {}
        /\ UNCHANGED <<messageVars, recipientVars, attemptVars, policyVars>>
    BY Zenon, <1>0, <1>3 DEF SendData, MemoryInv
  <2>1. CASE \E code \in {0, 2, 4, 5} :
               /\ Outcome(w, Fail(result[w],
                   [stage |-> "DATA_REJECTED", code |-> code,
                    class |-> IF code = 0 THEN "CONNECTION_RESET" ELSE "DATA_REJECTED"],
                   FALSE), "finish")
               /\ UNCHANGED wire
    <3>1. \A code \in {0, 2, 4, 5} :
            [stage |-> "DATA_REJECTED", code |-> code,
             class |-> IF code = 0 THEN "CONNECTION_RESET" ELSE "DATA_REJECTED"]
                \in FailureType
      BY DEF FailureType, ReplyClass, Stages, ErrorClasses
    <3>2. PICK e \in FailureType : Outcome(w, Fail(result[w], e, FALSE), "finish")
      BY Zenon, <2>1, <3>1
    <3>3. MemoryInv(w)'
      BY Zenon, <1>0, <2>0, <2>1, <3>2, FailMemory
    <3>4. QED
      BY Zenon, <2>0, <2>1, <3>2, <3>3, OutcomeStep
  <2>2. CASE /\ Outcome(w, [result[w] EXCEPT !.body = TRUE], "body")
             /\ wire' = [wire EXCEPT ![job[w]] =
                  {r \in RecipientsOf(job[w]) : result[w].rc[r].status = RcptAccepted}]
    <3>1. result'[w].body /\ result'[w].rc = result[w].rc
      BY <1>0, <2>2, OutcomeFacts DEF ResultType
    <3>2. /\ \A b \in Attempts : b # job[w] => wire'[b] = wire[b]
          /\ wire'[job[w]] =
               {r \in RecipientsOf(job[w]) : result[w].rc[r].status = RcptAccepted}
      BY Zenon, <1>0, <2>0, <2>2 DEF TypeOK
    <3>3. \A r \in wire'[job[w]] : /\ Exposed(job[w], r)
                                   /\ result[w].rc[r].status = RcptAccepted
      BY Zenon, <2>0, <3>2 DEF Exposed, Carries, RecipientsOf
    <3>4. ConversationStep(w)
      <4>1. \A b \in Attempts : \/ wire'[b] = wire[b]
                                \/ b = job[w] /\ \A r \in wire'[b] : Exposed(b, r)
        BY Zenon, <3>2, <3>3
      <4>2. Outcome(w, [result[w] EXCEPT !.body = TRUE], "body")
        BY Zenon, <2>2
      <4>3. QED
        BY Zenon, <2>0, <4>1, <4>2, OutcomeStep
    <3>5. MemoryInv(w)'
      BY <1>0, <2>2, <3>1, <3>3, OutcomeFacts DEF MemoryInv
    <3>6. QED
      BY Zenon, <3>4, <3>5
  <2>3. QED
    BY Zenon, <1>3, <2>1, <2>2 DEF SendData
<1>4. CASE SendFinal(w)
  <2>1. PICK code \in {0, 2, 3, 4, 5} :
         LET res == [result[w] EXCEPT !.final = code] IN
         /\ Outcome(w,
               IF code = 2
               THEN [res EXCEPT !.rc = [r \in Recipients |->
                       IF res.rc[r].status = RcptAccepted
                       THEN [stage |-> "FINAL_RESPONSE", status |-> Accepted, code |-> 2]
                       ELSE res.rc[r]]]
               ELSE Fail(res, [stage |-> "FINAL_RESPONSE_ERROR", code |-> code,
                               class |-> "FINAL_RESPONSE_ERROR"], TRUE),
               "finish")
         /\ wire' = IF code \in {4, 5} THEN [wire EXCEPT ![job[w]] = {}] ELSE wire
    BY Zenon, <1>4 DEF SendFinal
  <2> DEFINE res == [result[w] EXCEPT !.final = code]
             rc == [r \in Recipients |->
                      IF res.rc[r].status = RcptAccepted
                      THEN [stage |-> "FINAL_RESPONSE", status |-> Accepted, code |-> 2]
                      ELSE res.rc[r]]
             e == [stage |-> "FINAL_RESPONSE_ERROR", code |-> code,
                   class |-> "FINAL_RESPONSE_ERROR"]
  <2>2. /\ pc[w] = "body" /\ result[w].body
        /\ \A r \in wire[job[w]] : r \in Recipients /\ result[w].rc[r].status = RcptAccepted
        /\ UNCHANGED <<messageVars, recipientVars, attemptVars, policyVars>>
    BY Zenon, <1>0, <1>4 DEF SendFinal, MemoryInv, TypeOK
  <2>3. /\ res \in ResultType /\ res.final = code /\ res.body = result[w].body
        /\ res.rc = result[w].rc
    BY <1>0 DEF ResultType, ReplyClass
  <2>4. e \in FailureType /\ e.code = code
    BY DEF FailureType, ReplyClass, Stages, ErrorClasses
  <2>5. \A b \in Attempts : wire'[b] = IF b = job[w] /\ code \in {4, 5} THEN {} ELSE wire[b]
    BY Zenon, <2>1 DEF TypeOK
  <2>6. /\ pc'[w] = "finish" /\ job' = job
        /\ result'[w] = IF code = 2 THEN [res EXCEPT !.rc = rc] ELSE Fail(res, e, TRUE)
        /\ ConversationStep(w)
    <3> DEFINE out == IF code = 2 THEN [res EXCEPT !.rc = rc] ELSE Fail(res, e, TRUE)
    <3>1. Outcome(w, out, "finish")
      BY Zenon, <2>1
    <3> HIDE DEF out
    <3>2. ConversationStep(w)
      BY Zenon, <2>2, <2>5, <3>1, OutcomeStep
    <3>3. pc'[w] = "finish" /\ job' = job /\ result'[w] = out
      BY <3>1, OutcomeFacts
    <3>4. QED
      BY Zenon, <3>2, <3>3 DEF out
  <2>8. CASE code = 2
    <3>1. result'[w] = [res EXCEPT !.rc = rc]
      BY Zenon, <2>6, <2>8
    <3>2. /\ result'[w].body /\ result'[w].final = 2
          /\ \A r \in Recipients :
               /\ result[w].rc[r].status = RcptAccepted =>
                    result'[w].rc[r].status = Accepted /\ result'[w].rc[r].code = 2
               /\ result[w].rc[r].status # RcptAccepted =>
                    result'[w].rc[r] = result[w].rc[r]
      <4> HIDE DEF res, rc
      <4>1. /\ result'[w].body = res.body /\ result'[w].final = res.final
            /\ result'[w].rc = rc
        BY Zenon, <2>3, <3>1 DEF ResultType
      <4>2. \A r \in Recipients :
              rc[r] = IF result[w].rc[r].status = RcptAccepted
                      THEN [stage |-> "FINAL_RESPONSE", status |-> Accepted, code |-> 2]
                      ELSE result[w].rc[r]
        BY Zenon, <2>3 DEF rc
      <4>3. QED
        BY <2>2, <2>3, <2>8, <4>1, <4>2
    <3>3. QED
      BY <1>0, <2>2, <2>5, <2>6, <2>8, <3>2 DEF MemoryInv
  <2>9. CASE code # 2
    <3>1. result'[w] = Fail(res, e, TRUE)
      BY Zenon, <2>6, <2>9
    <3> HIDE DEF res, e
    <3>2. /\ result'[w].body = result[w].body
          /\ \A r \in Recipients :
               /\ result[w].rc[r].status = RcptAccepted /\ code \notin {4, 5} =>
                    result'[w].rc[r].status = Unknown
               /\ (result[w].rc[r].code = 4 => result[w].rc[r].status = Temporary) =>
                    (result'[w].rc[r].code = 4 => result'[w].rc[r].status = Temporary)
      <4>1. Fail(res, e, TRUE).body = res.body
        BY Zenon, <2>3, <2>4, FailFacts
      <4>2. ASSUME NEW r \in Recipients
            PROVE  /\ res.rc[r].status = RcptAccepted =>
                        Fail(res, e, TRUE).rc[r].status =
                            IF e.code = 5 THEN Permanent
                            ELSE IF TRUE /\ e.code # 4 THEN Unknown ELSE Temporary
                   /\ (res.rc[r].code = 4 => res.rc[r].status = Temporary) =>
                        (Fail(res, e, TRUE).rc[r].code = 4 =>
                            Fail(res, e, TRUE).rc[r].status = Temporary)
        BY <2>3, <2>4, FailFacts, Zenon
      <4>3. QED
        BY Zenon, <2>3, <2>4, <3>1, <4>1, <4>2
    <3>3. QED
      BY Zenon, <1>0, <2>2, <2>5, <2>6, <3>2 DEF MemoryInv
  <2>10. QED
    BY Zenon, <2>8, <2>9
<1>5. CASE Abandon(w)
  <2>1. /\ pc'[w] = "idle" /\ job'[w] = 0 /\ result'[w] = NoResult
        /\ \A v \in Workers : v # w =>
             pc'[v] = pc[v] /\ job'[v] = job[v] /\ result'[v] = result[v]
        /\ UNCHANGED <<messageVars, recipientVars, attemptVars, policyVars, wire>>
    BY Zenon, <1>5 DEF Abandon, Idle, TypeOK, WorkerType
  <2>2. \A r \in Recipients : result'[w].rc[r].code = 0
    BY <2>1 DEF NoResult, NoReply
  <2>3. QED
    BY <2>1, <2>2 DEF ConversationStep, MemoryInv
<1>6. QED
  BY Zenon, <1>1, <1>2, <1>3, <1>4, <1>5
=============================================================================
