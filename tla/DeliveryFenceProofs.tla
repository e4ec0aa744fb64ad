------------------------- MODULE DeliveryFenceProofs -------------------------
(***************************************************************************)
(* FenceInv is kept by the two ways an attempt is closed, by its worker    *)
(* (Finish) and by recovery (Recover), and by the steps outside a          *)
(* conversation: the sweeps and schedules, cancellation, manual            *)
(* resolution, policy and clocks.  So it is inductive, and with it the     *)
(* safety properties of DeliveryQueue hold for any number of recipients,   *)
(* workers and attempts.                                                   *)
(***************************************************************************)
EXTENDS DeliveryQueueProofs

(***************************************************************************)
(* The transactions that close the attempt holding the lease, Finish and   *)
(* Recover: what they agree on.  Where the attempt may have reached a      *)
(* recipient, both the attempt and the recipient say so afterwards.        *)
(***************************************************************************)
ClosingStep(a) ==
    /\ a = lockedBy /\ a # 0 /\ lockedBy' = 0
    /\ inProgress' = inProgress \ {a}
    /\ UNCHANGED <<claims, armed, suppressionBlocked, expiryBlocked, acknowledged, wire>>
    /\ \A b \in Attempts, r \in Recipients :
         /\ b # a => attemptRecipient'[b][r] = attemptRecipient[b][r]
         /\ Carries(b, r)' <=> Carries(b, r)
    /\ status' = Projection(rstatus')
    /\ \A r \in Recipients :
         /\ Carries(a, r) => /\ rstatus'[r] # "SENDING"
                             /\ rstatus[r] = "SUPPRESSED" => rstatus'[r] = "SUPPRESSED"
                             /\ rstatus'[r] = "EXPIRED" /\ EverUnknown(attemptRecipient', r)
                                  => r \in mayHaveDelivered'
         /\ ~Carries(a, r) =>
              \/ /\ rstatus'[r] = rstatus[r]
                 /\ r \in mayHaveDelivered /\ rstatus[r] = "EXPIRED" => r \in mayHaveDelivered'
              \/ /\ rstatus[r] \in Pending
                 /\ rstatus'[r] \in {"TEMP_FAILED", "EXPIRED"}
                 /\ rstatus'[r] = "EXPIRED" /\ EverUnknown(attemptRecipient', r)
                      => r \in mayHaveDelivered'
         /\ Exposed(a, r) => /\ attemptRecipient'[a][r] \in {Accepted, Unknown}
                             /\ rstatus'[r] \in {"SMTP_ACCEPTED", "DELIVERY_UNKNOWN"}
         /\ retryAt'[r] # "none" => rstatus'[r] = "TEMP_FAILED"
    /\ \A v \in Workers :
         \/ pc'[v] = pc[v] /\ job'[v] = job[v] /\ result'[v] = result[v]
         \/ pc'[v] = "idle" /\ job'[v] = 0 /\ result'[v] = NoResult

\* Closing the attempt that holds the lease keeps the invariant.
LEMMA ClosingFence == ASSUME TypeOK, FenceInv, NEW a, ClosingStep(a) PROVE FenceInv'
<1>1. /\ a = lockedBy /\ a = claims /\ a \in Attempts /\ a # 0 /\ lockedBy' = 0
      /\ 0 \notin Attempts
  BY DEF ClosingStep, FenceInv, LeaseInv, TypeOK, MessageType, Attempts
<1>2. \A b \in Attempts, r \in Recipients :
        /\ Exposed(b, r)' => Exposed(b, r)
        /\ Exposed(b, r) => Carries(b, r) /\ (b = a \/ b < a)
  <2>1. \A b \in Attempts, r \in Recipients : Exposed(b, r)' => Exposed(b, r)
    BY DEF ClosingStep, Exposed
  <2>2. \A b \in Attempts, r \in Recipients : Exposed(b, r) => b \in armed /\ Carries(b, r)
    BY Zenon DEF FenceInv, WireInv, MemoryInv, Exposed
  <2>3. \A b \in Attempts : b \in armed => ~(b > a)
    BY Zenon, <1>1 DEF FenceInv, FutureInv
  <2>4. \A b \in Attempts : ~(b > a) => b = a \/ b < a
    BY <1>1 DEF Attempts
  <2>5. QED
    BY Zenon, <2>1, <2>2, <2>3, <2>4
<1>3. LeaseInv'
  BY Zenon, <1>1 DEF FenceInv, LeaseInv, ClosingStep
<1>4. FutureInv'
  BY Zenon DEF FenceInv, FutureInv, ClosingStep
<1>5. JobInv'
  BY <1>1 DEF FenceInv, JobInv, ClosingStep, TypeOK, WorkerType, AttemptType
<1>6. SendingInv'
  BY <1>1 DEF FenceInv, SendingInv, ClosingStep, Pending
<1>7. WireInv'
  <2>1. ASSUME NEW v \in Workers PROVE MemoryInv(v)'
    <3>1. CASE pc'[v] = pc[v] /\ job'[v] = job[v] /\ result'[v] = result[v]
      BY SMTT(20), <3>1 DEF FenceInv, WireInv, MemoryInv, ClosingStep
    <3>2. CASE pc'[v] = "idle" /\ job'[v] = 0 /\ result'[v] = NoResult
      <4>1. \A r \in Recipients : NoResult.rc[r].code = 0
        BY Zenon DEF NoResult, NoReply
      <4>2. QED
        BY <3>2, <4>1 DEF MemoryInv
    <3>3. QED
      BY Zenon, <3>1, <3>2 DEF ClosingStep
  <2>2. \A b \in Attempts : \A r \in wire[b] : r \in Recipients /\ Carries(b, r)
    BY Zenon DEF FenceInv, WireInv, TypeOK
  <2>3. \A b \in Attempts : /\ wire'[b] # {} => b \in armed'
                            /\ \A r \in wire'[b] : Carries(b, r)'
    BY Zenon, <2>2 DEF FenceInv, WireInv, ClosingStep
  <2>4. QED
    BY Zenon, <2>1, <2>3 DEF WireInv
<1>8. RetryOnlyWhenFailed'
  BY Zenon DEF RetryOnlyWhenFailed, ClosingStep
<1>9. AcknowledgedInv'
  BY <1>1 DEF FenceInv, AcknowledgedInv, ClosingStep
<1>10. ExposedInv'
  <2> SUFFICES ASSUME NEW b \in Attempts, NEW r \in Recipients, Exposed(b, r)'
               PROVE  /\ attemptRecipient'[b][r] \in {Accepted, Unknown}
                      /\ \/ <<b, r>> \in acknowledged
                         \/ /\ rstatus'[r] \in {"SMTP_ACCEPTED", "DELIVERY_UNKNOWN",
                                                "DELIVERED", "PERM_FAILED"}
                            /\ \A d \in Attempts : d > b => ~Carries(d, r)
                      /\ rstatus'[r] = "EXPIRED" => r \in mayHaveDelivered'
    BY Zenon DEF ExposedInv, ClosingStep
  <2>1. CASE b = a
    <3>1. \A d \in Attempts : d > a => ~Carries(d, r)
      BY Zenon, <1>1 DEF FenceInv, FutureInv
    <3>2. QED
      BY Zenon, <1>1, <1>2, <2>1, <3>1 DEF ClosingStep
  <2>2. CASE b # a
    <3>1. /\ attemptRecipient[b][r] \in {Accepted, Unknown}
          /\ \/ <<b, r>> \in acknowledged
             \/ /\ rstatus[r] \in {"SMTP_ACCEPTED", "DELIVERY_UNKNOWN",
                                   "DELIVERED", "PERM_FAILED"}
                /\ \A d \in Attempts : d > b => ~Carries(d, r)
          /\ rstatus[r] = "EXPIRED" => r \in mayHaveDelivered
      BY Zenon, <1>1, <1>2, <2>2 DEF FenceInv, ExposedInv
    <3>2. attemptRecipient'[b][r] = attemptRecipient[b][r] /\ a > b
      BY Zenon, <1>1, <1>2, <2>2 DEF ClosingStep, Attempts
    <3>3. <<b, r>> \in acknowledged => EverUnknown(attemptRecipient', r)
      BY Zenon, <1>9 DEF AcknowledgedInv, EverUnknown, ClosingStep
    <3>4. CASE <<b, r>> \in acknowledged
      BY Zenon, <3>1, <3>2, <3>3, <3>4 DEF ClosingStep
    <3>5. CASE <<b, r>> \notin acknowledged
      <4>1. ~Carries(a, r) /\ rstatus[r] \notin Pending
        BY Zenon, <1>1, <3>1, <3>2, <3>5 DEF Pending
      <4>2. rstatus'[r] = rstatus[r]
        BY Zenon, <4>1 DEF ClosingStep
      <4>3. QED
        BY Zenon, <3>1, <3>2, <3>5, <4>2
    <3>6. QED
      BY Zenon, <3>4, <3>5
  <2>3. QED
    BY Zenon, <2>1, <2>2
<1>11. CancelledInv' /\ QueuedInv'
  BY Zenon, ProjectionFacts DEF ClosingStep, CancelledInv, QueuedInv
<1>12. QED
  BY Zenon, <1>3, <1>4, <1>5, <1>6, <1>7, <1>8, <1>9, <1>10, <1>11 DEF FenceInv

\* A message no worker has touched satisfies the invariant.
LEMMA InitFence == Init => FenceInv
<1> SUFFICES ASSUME Init PROVE FenceInv
  OBVIOUS
<1>1. TypeOK
  BY Zenon, InitType
<1>2. LeaseInv /\ FutureInv /\ JobInv
  BY QueueAssumption DEF Init, LeaseInv, FutureInv, JobInv, Carries
<1>3. SendingInv /\ RetryOnlyWhenFailed /\ AcknowledgedInv
  BY Zenon DEF Init, SendingInv, RetryOnlyWhenFailed, AcknowledgedInv
<1>4. WireInv
  <2>1. \A w \in Workers : pc[w] = "idle" /\ \A r \in Recipients : result[w].rc[r].code = 0
    BY Zenon DEF Init, NoResult, NoReply
  <2>2. QED
    BY <2>1 DEF Init, WireInv, MemoryInv
<1>5. ExposedInv
  BY Zenon DEF Init, ExposedInv, Exposed
<1>6. CancelledInv /\ QueuedInv
  BY Zenon DEF Init, CancelledInv, QueuedInv, Unknown
<1>7. QED
  BY Zenon, <1>2, <1>3, <1>4, <1>5, <1>6 DEF FenceInv

(***************************************************************************)
(* A transaction on an unleased message that moves pending recipients      *)
(* only: what Schedule, SweepExpired, SweepSuppressed and CancelPending    *)
(* have in common.                                                         *)
(***************************************************************************)
PendingStep ==
    /\ lockedBy = 0
    /\ UNCHANGED <<lockedBy, attemptVars, acknowledged, workerVars, wire>>
    /\ \A r \in Recipients :
         \/ /\ rstatus'[r] = rstatus[r]
            /\ rstatus[r] = "EXPIRED" /\ r \in mayHaveDelivered => r \in mayHaveDelivered'
         \/ /\ rstatus[r] \in Pending
            /\ rstatus'[r] \in {"QUEUED", "TEMP_FAILED", "EXPIRED", "SUPPRESSED", "CANCELLED"}
            /\ rstatus'[r] = "EXPIRED" /\ EverUnknown(attemptRecipient, r)
                 => r \in mayHaveDelivered'
    /\ \A r \in Recipients :
         retryAt'[r] # "none" => retryAt[r] # "none" /\ rstatus'[r] = rstatus[r]
    /\ \/ status' = Projection(rstatus')
       \/ /\ status' = "CANCELLED" /\ armed = {}
          /\ \A r \in Recipients :
               rstatus'[r] \in {"CANCELLED", "PERM_FAILED", "SUPPRESSED", "EXPIRED"}

\* Such a transaction keeps the invariant: no exposed recipient is pending.
LEMMA PendingFence == ASSUME TypeOK, FenceInv, PendingStep PROVE FenceInv'
<1>1. LeaseInv' /\ FutureInv' /\ JobInv'
  BY DEF FenceInv, LeaseInv, FutureInv, JobInv, Carries, PendingStep, attemptVars, workerVars
<1>2. SendingInv'
  BY Zenon DEF FenceInv, SendingInv, PendingStep, attemptVars, Pending, Carries
<1>3. WireInv'
  BY DEF FenceInv, WireInv, MemoryInv, Carries, PendingStep, attemptVars, workerVars
<1>4. RetryOnlyWhenFailed' /\ AcknowledgedInv'
  BY Zenon DEF FenceInv, RetryOnlyWhenFailed, AcknowledgedInv, PendingStep, attemptVars
<1>5. ExposedInv'
  <2> SUFFICES ASSUME NEW a \in Attempts, NEW r \in Recipients, Exposed(a, r), a # lockedBy
               PROVE  /\ attemptRecipient[a][r] \in {Accepted, Unknown}
                      /\ \/ <<a, r>> \in acknowledged
                         \/ /\ rstatus'[r] \in {"SMTP_ACCEPTED", "DELIVERY_UNKNOWN",
                                               "DELIVERED", "PERM_FAILED"}
                            /\ \A b \in Attempts : b > a => ~Carries(b, r)
                      /\ rstatus'[r] = "EXPIRED" => r \in mayHaveDelivered'
    BY DEF ExposedInv, Exposed, Carries, PendingStep, attemptVars, workerVars
  <2>1. /\ attemptRecipient[a][r] \in {Accepted, Unknown}
        /\ \/ <<a, r>> \in acknowledged
           \/ /\ rstatus[r] \in {"SMTP_ACCEPTED", "DELIVERY_UNKNOWN",
                                 "DELIVERED", "PERM_FAILED"}
              /\ \A b \in Attempts : b > a => ~Carries(b, r)
        /\ rstatus[r] = "EXPIRED" => r \in mayHaveDelivered
    BY Zenon DEF FenceInv, ExposedInv
  <2>2. <<a, r>> \in acknowledged => EverUnknown(attemptRecipient, r)
    BY Zenon DEF FenceInv, AcknowledgedInv, EverUnknown
  <2>3. QED
    BY Zenon, <2>1, <2>2 DEF PendingStep, Pending
<1>6. CancelledInv' /\ QueuedInv'
  BY Zenon, ProjectionFacts DEF PendingStep, CancelledInv, QueuedInv, attemptVars, Unknown
<1>7. QED
  BY Zenon, <1>1, <1>2, <1>3, <1>4, <1>5, <1>6 DEF FenceInv

\* Schedule is one: a due retry belongs to a TEMP_FAILED recipient.
LEMMA SchedulePending == ASSUME TypeOK, FenceInv, Schedule PROVE PendingStep
<1> DEFINE Candidate(r) == \/ retryAt[r] = "due"
                           \/ r \in retryAutomatic /\ rstatus[r] = "QUEUED" /\ BudgetSpent(r)
           expired == Expiring(rstatus)
           candidates == {r \in Recipients \ expired : Candidate(r)}
           spent == {r \in candidates : BudgetSpent(r)}
           queued == IF RetryEnabled THEN candidates \ spent ELSE {}
<1>1. \A r \in Recipients :
        /\ r \in expired \cup spent \cup queued => rstatus[r] \in Pending
        /\ r \in expired => r \notin spent \cup queued
        /\ r \in spent => r \notin queued
  BY Zenon DEF FenceInv, RetryOnlyWhenFailed, Expiring, Pending
<1>2. /\ rstatus' = Set(Set(Set(rstatus, expired, "EXPIRED"), spent, "TEMP_FAILED"),
                        queued, "QUEUED")
      /\ status' = Projection(rstatus')
      /\ retryAt' = Clear(retryAt, expired \cup spent \cup queued)
      /\ mayHaveDelivered' = (mayHaveDelivered \ spent) \cup
                               {r \in expired : EverUnknown(attemptRecipient, r)}
      /\ lockedBy = 0
      /\ UNCHANGED <<lockedBy, attemptVars, acknowledged, workerVars, wire>>
  BY Zenon DEF Schedule, policyVars
<1> HIDE DEF expired, spent, queued
<1>3. \A r \in Recipients :
        /\ rstatus'[r] = IF r \in queued THEN "QUEUED" ELSE IF r \in spent THEN "TEMP_FAILED"
                         ELSE IF r \in expired THEN "EXPIRED" ELSE rstatus[r]
        /\ retryAt'[r] = IF r \in expired \cup spent \cup queued THEN "none" ELSE retryAt[r]
  BY <1>2, SetAt DEF Clear
<1>4. QED
  BY Zenon, <1>1, <1>2, <1>3 DEF PendingStep, Pending

\* So are the two sweeps and the cancellation.
LEMMA SweepPending ==
    ASSUME TypeOK, FenceInv, SweepExpired \/ SweepSuppressed \/ CancelPending
    PROVE  PendingStep
<1>1. CASE SweepExpired
  <2> DEFINE X == Expiring(rstatus)
  <2>1. /\ rstatus' = Set(rstatus, X, "EXPIRED")
        /\ retryAt' = Clear(retryAt, X)
        /\ mayHaveDelivered' = mayHaveDelivered \cup {r \in X : EverUnknown(attemptRecipient, r)}
        /\ status' = Projection(rstatus')
        /\ lockedBy = 0
        /\ UNCHANGED <<lockedBy, attemptVars, acknowledged, workerVars, wire>>
    BY Zenon, <1>1 DEF SweepExpired, Settle, policyVars
  <2>2. \A r \in X : rstatus[r] \in Pending
    BY Zenon DEF Expiring
  <2> HIDE DEF X
  <2>3. \A r \in Recipients :
          /\ rstatus'[r] = IF r \in X THEN "EXPIRED" ELSE rstatus[r]
          /\ retryAt'[r] = IF r \in X THEN "none" ELSE retryAt[r]
    BY <2>1, SetAt DEF Clear
  <2>4. QED
    BY Zenon, <2>1, <2>2, <2>3 DEF PendingStep
<1>2. CASE SweepSuppressed
  <2> DEFINE X == {r \in suppressed : rstatus[r] \in Pending}
  <2>1. /\ rstatus' = Set(rstatus, X, "SUPPRESSED")
        /\ retryAt' = Clear(retryAt, X)
        /\ mayHaveDelivered' = mayHaveDelivered \ X
        /\ status' = Projection(rstatus')
        /\ lockedBy = 0
        /\ UNCHANGED <<lockedBy, attemptVars, acknowledged, workerVars, wire>>
    BY Zenon, <1>2 DEF SweepSuppressed, policyVars
  <2>2. \A r \in X : rstatus[r] \in Pending
    OBVIOUS
  <2> HIDE DEF X
  <2>3. \A r \in Recipients :
          /\ rstatus'[r] = IF r \in X THEN "SUPPRESSED" ELSE rstatus[r]
          /\ retryAt'[r] = IF r \in X THEN "none" ELSE retryAt[r]
    BY <2>1, SetAt DEF Clear
  <2>4. QED
    BY Zenon, <2>1, <2>2, <2>3 DEF PendingStep, Pending
<1>3. CASE CancelPending
  <2> DEFINE X == {r \in Recipients : rstatus[r] \in Pending}
  <2>1. /\ rstatus' = Set(rstatus, X, "CANCELLED")
        /\ retryAt' = Clear(retryAt, X)
        /\ mayHaveDelivered' = mayHaveDelivered \ X
        /\ status' = "CANCELLED" /\ armed = {}
        /\ \A r \in Recipients :
             rstatus[r] \in Pending \cup {"PERM_FAILED", "SUPPRESSED", "EXPIRED"}
        /\ lockedBy = 0
        /\ UNCHANGED <<lockedBy, attemptVars, acknowledged, workerVars, wire>>
    BY Zenon, <1>3 DEF CancelPending, NeverAuthorised, policyVars
  <2>2. \A r \in Recipients : r \in X <=> rstatus[r] \in Pending
    OBVIOUS
  <2> HIDE DEF X
  <2>3. \A r \in Recipients :
          /\ rstatus'[r] = IF r \in X THEN "CANCELLED" ELSE rstatus[r]
          /\ retryAt'[r] = IF r \in X THEN "none" ELSE retryAt[r]
    BY <2>1, SetAt DEF Clear
  <2>4. QED
    BY Zenon, <2>1, <2>2, <2>3 DEF PendingStep, Pending
<1>4. QED
  BY Zenon, <1>1, <1>2, <1>3

\* A manual resolution keeps the invariant: a retry is an acknowledgement.
LEMMA ResolveFence ==
    ASSUME TypeOK, FenceInv, NEW q \in Recipients, NEW c \in Attempts, ResolveUnknown(q, c)
    PROVE  FenceInv'
<1>1. PICK outcome \in {"QUEUED", "DELIVERED", "PERM_FAILED"} :
        /\ rstatus' = [rstatus EXCEPT ![q] = outcome]
        /\ status' = Projection(rstatus')
        /\ acknowledged' = IF outcome = "QUEUED" THEN acknowledged \cup {<<c, q>>}
                           ELSE acknowledged
  BY Zenon DEF ResolveUnknown
<1>2. /\ lockedBy = 0 /\ rstatus[q] = Unknown /\ attemptRecipient[c][q] = Unknown
      /\ \A b \in Attempts : Carries(b, q) => b <= c
  BY Zenon DEF ResolveUnknown, Resolvable, Carries
<1>3. /\ UNCHANGED <<lockedBy, attemptVars, workerVars, wire>>
      /\ retryAt' = [retryAt EXCEPT ![q] = "none"]
      /\ mayHaveDelivered' = mayHaveDelivered \ {q}
  BY Zenon DEF ResolveUnknown
<1>4. \A r \in Recipients : rstatus'[r] = IF r = q THEN outcome ELSE rstatus[r]
  BY Zenon, <1>1 DEF TypeOK, RecipientType
<1>5. c <= claims
  <2>1. Carries(c, q)
    BY Zenon, <1>2 DEF Carries, Unknown
  <2>2. ~(c > claims)
    BY Zenon, <2>1 DEF FenceInv, FutureInv
  <2>3. c \in Int /\ claims \in Int
    BY DEF TypeOK, AttemptType, Attempts
  <2>4. QED
    BY <2>2, <2>3
<1>6. LeaseInv' /\ JobInv'
  BY Zenon, <1>2, <1>3 DEF FenceInv, LeaseInv, JobInv, attemptVars, workerVars
<1>7. FutureInv'
  BY <1>1, <1>3, <1>5 DEF FenceInv, FutureInv, Carries, attemptVars, TypeOK, AttemptType,
     Attempts
<1>8. SendingInv'
  BY Zenon, <1>2, <1>3, <1>4 DEF FenceInv, SendingInv, Carries, attemptVars
<1>9. WireInv'
  BY <1>3 DEF FenceInv, WireInv, MemoryInv, Carries, attemptVars, workerVars
<1>10. RetryOnlyWhenFailed'
  BY Zenon, <1>3, <1>4 DEF FenceInv, RetryOnlyWhenFailed, TypeOK, RecipientType
<1>11. AcknowledgedInv'
  BY <1>1, <1>2, <1>3 DEF FenceInv, AcknowledgedInv, attemptVars, Attempts
<1>12. ExposedInv'
  <2> SUFFICES ASSUME NEW a \in Attempts, NEW r \in Recipients, Exposed(a, r), a # lockedBy
               PROVE  /\ attemptRecipient[a][r] \in {Accepted, Unknown}
                      /\ \/ <<a, r>> \in acknowledged'
                         \/ /\ rstatus'[r] \in {"SMTP_ACCEPTED", "DELIVERY_UNKNOWN",
                                               "DELIVERED", "PERM_FAILED"}
                            /\ \A b \in Attempts : b > a => ~Carries(b, r)
                      /\ rstatus'[r] = "EXPIRED" => r \in mayHaveDelivered'
    BY <1>3 DEF ExposedInv, Exposed, Carries, attemptVars, workerVars
  <2>1. /\ attemptRecipient[a][r] \in {Accepted, Unknown}
        /\ \/ <<a, r>> \in acknowledged
           \/ /\ rstatus[r] \in {"SMTP_ACCEPTED", "DELIVERY_UNKNOWN",
                                 "DELIVERED", "PERM_FAILED"}
              /\ \A b \in Attempts : b > a => ~Carries(b, r)
        /\ rstatus[r] = "EXPIRED" => r \in mayHaveDelivered
    BY Zenon DEF FenceInv, ExposedInv
  <2>2. CASE r # q
    BY Zenon, <1>1, <1>3, <1>4, <2>1, <2>2
  <2>3. CASE r = q
    <3>1. Carries(a, r) /\ Carries(c, q)
      BY Zenon, <1>2, <2>1 DEF Carries, Accepted, Unknown
    <3>2. a <= c
      BY Zenon, <1>2, <2>3, <3>1
    <3>3. c > a \/ c = a
      BY <3>2 DEF Attempts
    <3>4. QED
      BY Zenon, <1>1, <1>4, <2>1, <2>3, <3>1, <3>3
  <2>4. QED
    BY Zenon, <2>2, <2>3
<1>13. CancelledInv' /\ QueuedInv'
  BY Zenon, <1>1, ProjectionFacts DEF CancelledInv, QueuedInv
<1>14. QED
  BY Zenon, <1>6, <1>7, <1>8, <1>9, <1>10, <1>11, <1>12, <1>13 DEF FenceInv

\* Suppressions and clocks do not touch what the invariant is about, except
\* for a retry that falls due.
LEMMA QuietFence ==
    ASSUME FenceInv,
           UNCHANGED <<status, lockedBy, rstatus, mayHaveDelivered, attemptVars, acknowledged,
                       workerVars, wire>>,
           \A r \in Recipients : retryAt'[r] # "none" => retryAt[r] # "none"
    PROVE  FenceInv'
<1>1. LeaseInv' /\ FutureInv' /\ JobInv' /\ SendingInv'
  BY Zenon DEF FenceInv, LeaseInv, FutureInv, JobInv, SendingInv, Carries, attemptVars, workerVars
<1>2. WireInv' /\ RetryOnlyWhenFailed'
  BY DEF FenceInv, WireInv, MemoryInv, RetryOnlyWhenFailed, Carries, attemptVars, workerVars
<1>3. ExposedInv' /\ AcknowledgedInv' /\ CancelledInv' /\ QueuedInv'
  BY DEF FenceInv, ExposedInv, Exposed, AcknowledgedInv, CancelledInv, QueuedInv, Carries,
     attemptVars, workerVars
<1>4. QED
  BY Zenon, <1>1, <1>2, <1>3 DEF FenceInv

\* So do the policy changes and the clocks, which touch none of its state.
LEMMA EnvironmentFence ==
    ASSUME TypeOK, FenceInv,
           \/ LeaseExpires \/ DeadlinePasses
           \/ \E r \in Recipients : \/ SuppressionAdd(r) \/ SuppressionRelease(r)
                                    \/ RetryFallsDue(r) \/ WindowCloses(r)
    PROVE  FenceInv'
<1>1. CASE \E r \in Recipients : RetryFallsDue(r)
  BY Zenon, <1>1, QuietFence DEF RetryFallsDue, messageVars, policyVars, TypeOK, RecipientType
<1>2. CASE ~ \E r \in Recipients : RetryFallsDue(r)
  BY Zenon, <1>2, QuietFence DEF LeaseExpires, DeadlinePasses, SuppressionAdd, SuppressionRelease,
     WindowCloses, messageVars, recipientVars, policyVars
<1>3. QED
  BY Zenon, <1>1, <1>2

\* The tail of a transaction, recipient by recipient.
LEMMA SettleAt ==
    ASSUME NEW rs, NEW auto, NEW at, NEW may, NEW ar, Settle(rs, auto, at, may, ar),
           NEW r \in Recipients
    PROVE  /\ rstatus'[r] = IF r \in Expiring(rs) THEN "EXPIRED" ELSE rs[r]
           /\ retryAt'[r] = IF r \in Expiring(rs) THEN "none" ELSE at[r]
           /\ r \in may => r \in mayHaveDelivered'
           /\ r \in Expiring(rs) /\ EverUnknown(ar, r) => r \in mayHaveDelivered'
           /\ r \in Expiring(rs) => rs[r] \in Pending
           /\ status' = Projection(rstatus')
<1>1. /\ rstatus' = Set(rs, Expiring(rs), "EXPIRED")
      /\ retryAt' = Set(at, Expiring(rs), "none")
      /\ mayHaveDelivered' = may \cup {q \in Expiring(rs) : EverUnknown(ar, q)}
      /\ status' = Projection(rstatus')
  BY Zenon DEF Settle, Clear
<1>2. r \in Expiring(rs) => rs[r] \in Pending
  BY Zenon DEF Expiring
<1>3. QED
  BY <1>1, <1>2, SetAt

\* decideRecipient and finishSuppression, for a recipient of the attempt.
LEMMA FinishedFacts ==
    ASSUME TypeOK, FenceInv, NEW w \in Workers, pc[w] = "finish", lockedBy = job[w],
           NEW r \in Recipients, Carries(job[w], r), NEW fits,
           result[w].rc[r].status \in ResultStatus
    PROVE  /\ FinishedStatus(w, r, fits) \notin {"SENDING", "EXPIRED"}
           /\ rstatus[r] = "SUPPRESSED" => FinishedStatus(w, r, fits) = "SUPPRESSED"
           /\ r \in wire[job[w]] =>
                /\ result[w].rc[r].status \in {Accepted, Unknown}
                /\ FinishedStatus(w, r, fits) \in {"SMTP_ACCEPTED", "DELIVERY_UNKNOWN"}
           /\ ~FinishSuppression(w, r)
                /\ DecideRecipient(w, r, fits).action = "RETRY_SAME_PROVIDER" =>
                FinishedStatus(w, r, fits) = "TEMP_FAILED"
<1> DEFINE x == result[w].rc[r]
           e == [stage |-> x.stage, class |-> result[w].class, status |-> x.status,
                 code |-> x.code, final |-> result[w].final, body |-> result[w].body]
           b == [attempts |-> attemptCount[r], windowOver |-> r \in windowOver,
                 fits |-> r \in fits]
<1>1. job[w] \in Attempts /\ job[w] # 0
  BY SMTT(20) DEF TypeOK, WorkerType, Attempts
<1>2. DecideRecipient(w, r, fits) = Decide(e, b)
  BY Zenon DEF DecideRecipient
<1>3. /\ e.status = x.status /\ e.code = x.code /\ e.final = result[w].final
  OBVIOUS
<1>4. \/ rstatus[r] = "SENDING"
      \/ rstatus[r] = "SUPPRESSED" /\ job[w] \in suppressionBlocked
  BY Zenon, <1>1 DEF FenceInv, SendingInv
<1>5. /\ FinishedStatus(w, r, fits) \notin {"SENDING", "EXPIRED"}
      /\ rstatus[r] = "SUPPRESSED" => FinishedStatus(w, r, fits) = "SUPPRESSED"
  BY Zenon, <1>4 DEF FinishedStatus, ResultStatus, Accepted, Temporary, Permanent, Unknown
<1>6. ASSUME r \in wire[job[w]]
      PROVE  /\ x.status \in {Accepted, Unknown}
             /\ FinishedStatus(w, r, fits) \in {"SMTP_ACCEPTED", "DELIVERY_UNKNOWN"}
  <2>1. job[w] \in armed /\ job[w] \notin suppressionBlocked
    BY Zenon, <1>1, <1>6 DEF FenceInv, WireInv, SendingInv
  <2>2. rstatus[r] = "SENDING" /\ ~FinishSuppression(w, r)
    BY Zenon, <1>4, <2>1 DEF FinishSuppression
  <2>3. x.status = Unknown \/ (x.status = Accepted /\ result[w].final = 2)
    BY Zenon, <1>6 DEF FenceInv, WireInv, MemoryInv
  <2> HIDE DEF e, b, x
  <2>4. CASE x.status = Unknown
    <3>1. Decide(e, b).action = "DELIVERY_UNKNOWN"
      BY Zenon, <1>3, <2>4 DEF Decide, AcceptanceUncertain, Decision, Unknown, Accepted
    <3>2. QED
      BY Zenon, <1>2, <2>2, <2>4, <3>1 DEF FinishedStatus
  <2>5. CASE x.status = Accepted /\ result[w].final = 2
    <3>1. Decide(e, b).action = "ACCEPT"
      BY Zenon, <1>3, <2>5 DEF Decide, Decision
    <3>2. FinishedStatus(w, r, fits) = result[w].rc[r].status
      BY Zenon, <1>2, <2>2, <3>1 DEF FinishedStatus
    <3>3. QED
      BY Zenon, <2>5, <3>2 DEF x, Accepted
  <2>6. QED
    BY Zenon, <2>3, <2>4, <2>5
<1>7. ASSUME ~FinishSuppression(w, r),
             DecideRecipient(w, r, fits).action = "RETRY_SAME_PROVIDER"
      PROVE  FinishedStatus(w, r, fits) = "TEMP_FAILED"
  <2>1. rstatus[r] # "SUPPRESSED"
    BY Zenon, <1>4, <1>7 DEF FinishSuppression
  <2>2. x.code = 4 => x.status = Temporary
    BY Zenon DEF FenceInv, WireInv, MemoryInv
  <2> HIDE DEF e, b, x
  <2>3. Retryable(e)
    BY <1>2, <1>7 DEF Decide, Decision
  <2>4. x.status = Temporary
    BY Zenon, <1>3, <2>2, <2>3 DEF Retryable
  <2>5. FinishedStatus(w, r, fits) = result[w].rc[r].status
    BY Zenon, <1>7, <2>1 DEF FinishedStatus
  <2>6. QED
    BY Zenon, <2>4, <2>5 DEF x, Temporary
<1>8. QED
  BY Zenon, <1>5, <1>6, <1>7

\* Finish is one too: what is on the wire is accepted or unknown.
LEMMA FinishCloses ==
    ASSUME TypeOK, FenceInv, NEW w \in Workers, Finish(w) PROVE ClosingStep(job[w])
<1> DEFINE a == job[w]
           S == RecipientsOf(a)
           decided == {r \in S : ~FinishSuppression(w, r)}
           resumed == {r \in S \ decided : rstatus[r] # "SUPPRESSED"}
           rs(fits) == [r \in Recipients |->
                    IF r \in S THEN FinishedStatus(w, r, fits) ELSE rstatus[r]]
           at(fits) == [r \in Recipients |->
                    IF r \notin S THEN retryAt[r]
                    ELSE IF r \in decided /\ RetryEnabled
                            /\ DecideRecipient(w, r, fits).action = "RETRY_SAME_PROVIDER"
                    THEN "waiting" ELSE "none"]
           may(fits) == (mayHaveDelivered \ (decided \cup resumed)) \cup
                    {r \in decided : DecideRecipient(w, r, fits).mayHaveDelivered}
           ar == [attemptRecipient EXCEPT ![a] =
                    [r \in Recipients |-> IF r \in S THEN result[w].rc[r].status ELSE "none"]]
<1>1. PICK fits \in SUBSET S :
        Settle(rs(fits), retryAutomatic \ decided, at(fits), may(fits), ar)
  BY Zenon DEF Finish
<1>2. /\ attemptRecipient' = ar
      /\ pc[w] = "finish" /\ lockedBy = a
      /\ lockedBy' = 0 /\ inProgress' = inProgress \ {a}
      /\ UNCHANGED <<claims, armed, suppressionBlocked, expiryBlocked, acknowledged, wire>>
  BY Zenon DEF Finish, Fence, policyVars
<1>3. a \in Attempts /\ a # 0
  <2>1. pc[w] # "idle"
    BY Zenon, <1>2
  <2>2. QED
    BY <2>1 DEF TypeOK, WorkerType, Attempts
<1>4. \A r \in Recipients : r \in S <=> Carries(a, r)
  BY Zenon DEF RecipientsOf, Carries
<1>5. \A r \in Recipients : r \in S => result[w].rc[r].status \in ResultStatus
  BY Zenon DEF Finish
<1>6. \A b \in Attempts, r \in Recipients :
        ar[b][r] = IF b # a THEN attemptRecipient[b][r]
                   ELSE IF r \in S THEN result[w].rc[r].status ELSE "none"
  BY Zenon, <1>3 DEF TypeOK, AttemptType
<1>7. \A r \in Recipients :
        /\ rs(fits)[r] = IF r \in S THEN FinishedStatus(w, r, fits) ELSE rstatus[r]
        /\ at(fits)[r] # "none" =>
             \/ r \notin S /\ retryAt[r] # "none"
             \/ /\ r \in S /\ ~FinishSuppression(w, r)
                /\ DecideRecipient(w, r, fits).action = "RETRY_SAME_PROVIDER"
        /\ r \notin S /\ r \in mayHaveDelivered => r \in may(fits)
  OBVIOUS
<1>8. \A r \in Recipients : r \in S =>
        /\ FinishedStatus(w, r, fits) \notin {"SENDING", "EXPIRED"}
        /\ rstatus[r] = "SUPPRESSED" => FinishedStatus(w, r, fits) = "SUPPRESSED"
        /\ r \in wire[a] =>
             /\ result[w].rc[r].status \in {Accepted, Unknown}
             /\ FinishedStatus(w, r, fits) \in {"SMTP_ACCEPTED", "DELIVERY_UNKNOWN"}
        /\ ~FinishSuppression(w, r)
             /\ DecideRecipient(w, r, fits).action = "RETRY_SAME_PROVIDER" =>
             FinishedStatus(w, r, fits) = "TEMP_FAILED"
  BY Zenon, <1>2, <1>4, <1>5, FinishedFacts
<1>9. \A r \in Recipients : Exposed(a, r) => r \in wire[a] /\ r \in S
  <2>1. \A v \in Workers : job[v] = a => v = w
    BY Zenon, <1>2 DEF FenceInv, JobInv
  <2>2. \A r \in Recipients : Exposed(a, r) => r \in wire[a]
    BY Zenon, <1>2, <2>1 DEF Exposed
  <2>3. QED
    BY Zenon, <1>3, <1>4, <2>2 DEF FenceInv, WireInv
<1> HIDE DEF S, decided, resumed, rs, at, may, ar
<1>10. \A r \in Recipients :
         /\ rstatus'[r] = IF r \in Expiring(rs(fits)) THEN "EXPIRED" ELSE rs(fits)[r]
         /\ retryAt'[r] = IF r \in Expiring(rs(fits)) THEN "none" ELSE at(fits)[r]
         /\ r \in may(fits) => r \in mayHaveDelivered'
         /\ r \in Expiring(rs(fits)) /\ EverUnknown(ar, r) => r \in mayHaveDelivered'
         /\ r \in Expiring(rs(fits)) => rs(fits)[r] \in Pending
  BY <1>1, SettleAt
<1>11. status' = Projection(rstatus')
  BY Zenon, <1>1 DEF Settle
<1>12. \A r \in Recipients : retryAt[r] # "none" => rstatus[r] = "TEMP_FAILED"
  BY Zenon DEF FenceInv, RetryOnlyWhenFailed
<1>13. ASSUME NEW r \in Recipients
       PROVE  /\ Carries(a, r) => /\ rstatus'[r] # "SENDING"
                                  /\ rstatus[r] = "SUPPRESSED" => rstatus'[r] = "SUPPRESSED"
                                  /\ rstatus'[r] = "EXPIRED" /\ EverUnknown(ar, r)
                                       => r \in mayHaveDelivered'
              /\ ~Carries(a, r) =>
                   \/ /\ rstatus'[r] = rstatus[r]
                      /\ r \in mayHaveDelivered /\ rstatus[r] = "EXPIRED" =>
                           r \in mayHaveDelivered'
                   \/ /\ rstatus[r] \in Pending
                      /\ rstatus'[r] \in {"TEMP_FAILED", "EXPIRED"}
                      /\ rstatus'[r] = "EXPIRED" /\ EverUnknown(ar, r)
                           => r \in mayHaveDelivered'
              /\ retryAt'[r] # "none" => rstatus'[r] = "TEMP_FAILED"
  BY <1>4, <1>7, <1>8, <1>10, <1>12 DEF Pending
<1>14. ASSUME NEW r \in Recipients, Exposed(a, r)
       PROVE  /\ ar[a][r] \in {Accepted, Unknown}
              /\ rstatus'[r] \in {"SMTP_ACCEPTED", "DELIVERY_UNKNOWN"}
  <2>1. r \in S /\ r \in wire[a]
    BY Zenon, <1>9, <1>14
  <2>2. /\ result[w].rc[r].status \in {Accepted, Unknown}
        /\ FinishedStatus(w, r, fits) \in {"SMTP_ACCEPTED", "DELIVERY_UNKNOWN"}
    BY Zenon, <1>8, <2>1
  <2>3. ar[a][r] = result[w].rc[r].status
    BY Zenon, <1>3, <1>6, <2>1
  <2>4. rs(fits)[r] = FinishedStatus(w, r, fits)
    BY Zenon, <1>7, <2>1
  <2>5. rs(fits)[r] \notin Pending
    <3> DEFINE x == rs(fits)[r]
    <3>1. x \in {"SMTP_ACCEPTED", "DELIVERY_UNKNOWN"}
      BY Zenon, <2>2, <2>4
    <3> HIDE DEF x
    <3>2. x \notin Pending
      BY <3>1 DEF Pending
    <3>3. QED
      BY Zenon, <3>2 DEF x
  <2>6. rstatus'[r] = rs(fits)[r]
    BY Zenon, <1>10, <2>5
  <2>7. QED
    BY Zenon, <2>2, <2>3, <2>4, <2>6
<1>15. \A b \in Attempts, r \in Recipients :
         /\ b # a => attemptRecipient'[b][r] = attemptRecipient[b][r]
         /\ Carries(b, r)' <=> Carries(b, r)
  BY <1>2, <1>4, <1>5, <1>6
     DEF Carries, ResultStatus, Accepted, Temporary, Permanent, Unknown
<1>16. \A v \in Workers :
         \/ pc'[v] = pc[v] /\ job'[v] = job[v] /\ result'[v] = result[v]
         \/ pc'[v] = "idle" /\ job'[v] = 0 /\ result'[v] = NoResult
  BY Zenon DEF Finish, Idle, TypeOK, WorkerType
<1>17. QED
  BY Zenon, <1>2, <1>3, <1>11, <1>13, <1>14, <1>15, <1>16 DEF ClosingStep

\* Recover is such a step: what was armed becomes unknown.
LEMMA RecoverCloses == ASSUME TypeOK, FenceInv, Recover PROVE ClosingStep(lockedBy)
<1> DEFINE a == lockedBy
           isArmed == MayHaveSent(a)
           rs1 == [r \in Recipients |->
                     IF rstatus[r] # "SENDING" THEN rstatus[r]
                     ELSE IF isArmed THEN "DELIVERY_UNKNOWN" ELSE "QUEUED"]
           spent == {r \in Recipients : ~isArmed /\ rs1[r] = "QUEUED" /\ BudgetSpent(r)}
           rs == Set(rs1, spent, "TEMP_FAILED")
           ar == [attemptRecipient EXCEPT ![a] =
                    [r \in Recipients |->
                       IF r \in RecipientsOf(a)
                       THEN IF isArmed THEN Unknown ELSE Temporary ELSE "none"]]
<1>1. /\ Settle(rs, retryAutomatic \ spent, Clear(retryAt, spent), mayHaveDelivered \ spent, ar)
      /\ attemptRecipient' = ar
  BY Zenon DEF Recover
<1>2. /\ lockedBy' = 0 /\ inProgress' = inProgress \ {a}
      /\ UNCHANGED <<claims, armed, suppressionBlocked, expiryBlocked, acknowledged, wire,
                     pc, job, result>>
  BY Zenon DEF Recover, policyVars, workerVars
<1>3. a \in Attempts /\ a # 0
  BY DEF Recover, Recoverable, TypeOK, AttemptType, Attempts
<1>4. \A r \in Recipients :
        /\ r \in spent => ~isArmed /\ rs1[r] = "QUEUED"
        /\ rs1[r] = IF rstatus[r] # "SENDING" THEN rstatus[r]
                    ELSE IF isArmed THEN "DELIVERY_UNKNOWN" ELSE "QUEUED"
  OBVIOUS
<1>5. \A b \in Attempts, r \in Recipients :
        ar[b][r] = IF b # a THEN attemptRecipient[b][r]
                   ELSE IF ~Carries(a, r) THEN "none"
                   ELSE IF isArmed THEN Unknown ELSE Temporary
  BY Zenon, <1>3 DEF TypeOK, AttemptType, RecipientsOf, Carries
<1>6. \A r \in Recipients : Exposed(a, r) => isArmed /\ Carries(a, r) /\ rstatus[r] = "SENDING"
  <2>1. \A r \in Recipients : Exposed(a, r) => a \in armed /\ Carries(a, r)
    BY Zenon, <1>3 DEF FenceInv, WireInv, MemoryInv, Exposed
  <2>2. QED
    BY Zenon, <1>3, <2>1 DEF FenceInv, SendingInv, MayHaveSent
<1> HIDE DEF isArmed, rs1, spent, ar, rs
<1>7. \A r \in Recipients :
        /\ rs[r] = IF r \in spent THEN "TEMP_FAILED" ELSE rs1[r]
        /\ Clear(retryAt, spent)[r] = IF r \in spent THEN "none" ELSE retryAt[r]
  BY SetAt DEF Clear, rs
<1>8. \A r \in Recipients :
        /\ rstatus'[r] = IF r \in Expiring(rs) THEN "EXPIRED" ELSE rs[r]
        /\ retryAt'[r] = IF r \in Expiring(rs) THEN "none" ELSE Clear(retryAt, spent)[r]
        /\ r \in mayHaveDelivered \ spent => r \in mayHaveDelivered'
        /\ r \in Expiring(rs) /\ EverUnknown(ar, r) => r \in mayHaveDelivered'
        /\ r \in Expiring(rs) => rs[r] \in Pending
  BY <1>1, SettleAt
<1>9. status' = Projection(rstatus')
  BY Zenon, <1>1 DEF Settle
<1>10. \A r \in Recipients : retryAt[r] # "none" => rstatus[r] = "TEMP_FAILED"
  BY Zenon DEF FenceInv, RetryOnlyWhenFailed
<1>11. \A r \in Recipients :
         Carries(a, r) <=> \/ rstatus[r] = "SENDING"
                           \/ Carries(a, r) /\ rstatus[r] = "SUPPRESSED"
  BY Zenon, <1>3 DEF FenceInv, SendingInv
<1>12. ASSUME NEW r \in Recipients
       PROVE  /\ Carries(a, r) => /\ rstatus'[r] # "SENDING"
                                  /\ rstatus[r] = "SUPPRESSED" => rstatus'[r] = "SUPPRESSED"
                                  /\ rstatus'[r] = "EXPIRED" /\ EverUnknown(ar, r)
                                       => r \in mayHaveDelivered'
              /\ ~Carries(a, r) =>
                   \/ /\ rstatus'[r] = rstatus[r]
                      /\ r \in mayHaveDelivered /\ rstatus[r] = "EXPIRED" =>
                           r \in mayHaveDelivered'
                   \/ /\ rstatus[r] \in Pending
                      /\ rstatus'[r] \in {"TEMP_FAILED", "EXPIRED"}
                      /\ rstatus'[r] = "EXPIRED" /\ EverUnknown(ar, r)
                           => r \in mayHaveDelivered'
              /\ retryAt'[r] # "none" => rstatus'[r] = "TEMP_FAILED"
  BY SMTT(20), <1>4, <1>7, <1>8, <1>10, <1>11 DEF Pending
<1>13. ASSUME NEW r \in Recipients, Exposed(a, r)
       PROVE  /\ ar[a][r] \in {Accepted, Unknown}
              /\ rstatus'[r] \in {"SMTP_ACCEPTED", "DELIVERY_UNKNOWN"}
  BY SMTT(20), <1>3, <1>4, <1>5, <1>6, <1>7, <1>8, <1>13 DEF Pending
<1>14. \A b \in Attempts, r \in Recipients :
         /\ b # a => attemptRecipient'[b][r] = attemptRecipient[b][r]
         /\ Carries(b, r)' <=> Carries(b, r)
  BY Zenon, <1>1, <1>5 DEF Carries, Unknown, Temporary
<1>15. QED
  BY Zenon, <1>1, <1>2, <1>3, <1>9, <1>12, <1>13, <1>14 DEF ClosingStep

-----------------------------------------------------------------------------
(***************************************************************************)
(* FenceInv is inductive, and the properties that follow from it.          *)
(***************************************************************************)

\* Every step keeps the invariant.
LEMMA NextFence == TypeOK /\ FenceInv /\ [Next]_vars => FenceInv'
<1> SUFFICES ASSUME TypeOK, FenceInv, [Next]_vars PROVE FenceInv'
  OBVIOUS
<1>1. TypeOK'
  BY Zenon, NextType
<1>2. CASE UNCHANGED vars
  BY Zenon, <1>2, QuietFence DEF vars, messageVars, recipientVars, policyVars
<1>3. CASE Next
  BY <1>1, <1>3, ClaimFence, SendFence, ArmDataFence, FinishCloses, RecoverCloses, ClosingFence,
     SchedulePending, SweepPending, PendingFence, ResolveFence, EnvironmentFence DEF Next
<1>4. QED
  BY Zenon, <1>2, <1>3

(***************************************************************************)
(* The lease, the DATA fence, the records of closed attempts, the          *)
(* recipients and what late workers remember agree in every reachable      *)
(* state (queue.Claim, ArmData, Finish, Recover and the sweeps).           *)
(***************************************************************************)
THEOREM FenceCorrect == Spec => []FenceInv
<1>1. QED
  BY InitType, InitFence, NextType, NextFence, PTL DEF Spec

(***************************************************************************)
(* The body reaches a recipient in two attempts only if an operator has    *)
(* acknowledged the risk for the first, whatever workers stall or die and  *)
(* whichever replies are lost.                                             *)
(***************************************************************************)
THEOREM AtMostOnceUnlessAcknowledged == Spec => []NoUnacknowledgedDuplicate
<1>1. TypeOK /\ FenceInv => NoUnacknowledgedDuplicate
  <2> SUFFICES ASSUME TypeOK, FenceInv, NEW a \in Attempts, NEW b \in Attempts,
                      NEW r \in Recipients, a < b, r \in wire[a], r \in wire[b]
               PROVE  <<a, r>> \in acknowledged
    BY Zenon DEF NoUnacknowledgedDuplicate
  <2>1. b > a /\ Carries(b, r) /\ Exposed(a, r)
    BY Zenon DEF FenceInv, WireInv, Exposed, Attempts
  <2>2. a # lockedBy
    <3> SUFFICES ASSUME a = lockedBy PROVE FALSE
      OBVIOUS
    <3>1. a = claims
      BY DEF FenceInv, LeaseInv, Attempts
    <3>2. QED
      BY Zenon, <2>1, <3>1 DEF FenceInv, FutureInv
  <2>3. QED
    BY Zenon, <2>1, <2>2 DEF FenceInv, ExposedInv
<1>2. QED
  BY <1>1, TypeCorrect, FenceCorrect, PTL

\* cancelPendingTx never cancels what was sent, and nothing is sent afterwards.
THEOREM CancellationIsSafe == Spec => []CancelledNeverSent
<1>1. FenceInv => CancelledNeverSent
  BY Zenon DEF FenceInv, CancelledInv, WireInv, CancelledNeverSent
<1>2. QED
  BY <1>1, FenceCorrect, PTL

\* applyExpiry and suppression.Apply do not hide a message that went out.
THEOREM PolicyHonesty == Spec => []PolicyEndsAreHonest
<1>1. TypeOK /\ FenceInv => PolicyEndsAreHonest
  <2> SUFFICES ASSUME TypeOK, FenceInv, NEW a \in Attempts, NEW r \in Recipients, r \in wire[a]
               PROVE  /\ rstatus[r] = "EXPIRED" => r \in mayHaveDelivered
                      /\ rstatus[r] = "SUPPRESSED" => <<a, r>> \in acknowledged
    BY Zenon DEF PolicyEndsAreHonest
  <2>1. a \in armed /\ Carries(a, r) /\ Exposed(a, r)
    BY Zenon DEF FenceInv, WireInv, Exposed
  <2>2. CASE a # lockedBy
    BY Zenon, <2>1, <2>2 DEF FenceInv, ExposedInv
  <2>3. CASE a = lockedBy
    <3>1. a # 0
      BY DEF Attempts
    <3>2. QED
      BY Zenon, <2>1, <2>3, <3>1 DEF FenceInv, SendingInv
  <2>4. QED
    BY Zenon, <2>2, <2>3
<1>2. QED
  BY <1>1, TypeCorrect, FenceCorrect, PTL

\* Schedule, which requeues on the retry deadline alone, requeues only what failed.
THEOREM RetriesAreOfFailures == Spec => []RetryOnlyWhenFailed
<1>1. FenceInv => RetryOnlyWhenFailed
  BY Zenon DEF FenceInv
<1>2. QED
  BY <1>1, FenceCorrect, PTL
-----------------------------------------------------------------------------
(***************************************************************************)
(* Action properties.                                                      *)
(***************************************************************************)
\* The steps of the conversation and of the environment leave the records alone.
QuietStep == UNCHANGED <<rstatus, claims, inProgress, attemptRecipient>>

\* The steps that leave recipients, claims and evidence alone.
LEMMA QuietSteps ==
    ASSUME \/ LeaseExpires \/ DeadlinePasses
           \/ \E r \in Recipients : \/ SuppressionAdd(r) \/ SuppressionRelease(r)
                                    \/ RetryFallsDue(r) \/ WindowCloses(r)
           \/ \E w \in Workers : \/ SendFails(w) \/ SendRcpt(w) \/ SendData(w)
                                 \/ SendFinal(w) \/ Abandon(w)
           \/ UNCHANGED vars
    PROVE  QuietStep
BY Zenon DEF QuietStep, LeaseExpires, DeadlinePasses, SuppressionAdd, SuppressionRelease,
   RetryFallsDue, WindowCloses, SendFails, SendRcpt, SendData, SendFinal, Abandon, vars,
   recipientVars, attemptVars

\* Every step is of one of the kinds above.
LEMMA StepCases ==
    ASSUME TypeOK, FenceInv, [Next]_vars
    PROVE  \/ QuietStep
           \/ \E w \in Workers : \/ Claim(w) \/ Finish(w)
                                 \/ \E learns \in BOOLEAN : ArmData(w, learns)
           \/ Recover
           \/ PendingStep
           \/ \E r \in Recipients, a \in Attempts : ResolveUnknown(r, a)
<1>1. CASE UNCHANGED vars
  BY Zenon, <1>1, QuietSteps
<1>2. CASE Schedule \/ SweepExpired \/ SweepSuppressed \/ CancelPending
  BY Zenon, <1>2, SchedulePending, SweepPending
<1>3. CASE \E w \in Workers : \/ SendFails(w) \/ SendRcpt(w) \/ SendData(w)
                              \/ SendFinal(w) \/ Abandon(w)
  BY Zenon, <1>3, QuietSteps
<1>4. CASE \/ LeaseExpires \/ DeadlinePasses
           \/ \E r \in Recipients : \/ SuppressionAdd(r) \/ SuppressionRelease(r)
                                    \/ RetryFallsDue(r) \/ WindowCloses(r)
  BY Zenon, <1>4, QuietSteps
<1>5. QED
  BY Zenon, <1>1, <1>2, <1>3, <1>4 DEF Next

\* Closing an attempt moves only its own recipients and pending ones.
LEMMA ClosingMoves ==
    ASSUME FenceInv, NEW a, ClosingStep(a), NEW r \in Recipients
    PROVE  rstatus'[r] = rstatus[r] \/ rstatus[r] \in Pending \cup {"SENDING"}
<1>1. CASE Carries(a, r)
  <2>1. /\ a = lockedBy /\ a # 0
        /\ rstatus[r] = "SUPPRESSED" => rstatus'[r] = "SUPPRESSED"
    BY Zenon, <1>1 DEF ClosingStep
  <2>2. lockedBy # 0 /\ Carries(lockedBy, r)
    BY Zenon, <1>1, <2>1 DEF Carries
  <2>3. rstatus[r] = "SENDING" \/ rstatus[r] = "SUPPRESSED"
    BY Zenon, <2>2 DEF FenceInv, SendingInv
  <2>4. QED
    BY Zenon, <2>1, <2>3
<1>2. CASE ~Carries(a, r)
  BY Zenon, <1>2 DEF ClosingStep
<1>3. QED
  BY Zenon, <1>1, <1>2

\* Late workers, sweeps, retries and recovery rewrite no settled recipient, and
\* only ResolveUnknown decides about one that is DELIVERY_UNKNOWN.
THEOREM FactsAreFinal == Spec => FactsStay
<1> DEFINE Kept(r) ==
             /\ rstatus[r] \in Settled => rstatus'[r] = rstatus[r]
             /\ rstatus[r] = Unknown /\ rstatus'[r] # Unknown =>
                  \E a \in Attempts : ResolveUnknown(r, a)
<1>1. ASSUME TypeOK, FenceInv, [Next]_vars PROVE \A r \in Recipients : Kept(r)
  <2>1. ASSUME \A r \in Recipients :
                 rstatus'[r] = rstatus[r] \/ rstatus[r] \in Pending \cup {"SENDING"}
        PROVE  \A r \in Recipients : Kept(r)
    BY Zenon, <2>1 DEF Settled, Pending, Unknown
  <2>2. CASE QuietStep
    BY Zenon, <2>1, <2>2 DEF QuietStep
  <2>3. CASE \E w \in Workers : Claim(w)
    BY <2>1, <2>3, SetAt DEF Claim, Claimable, Pending
  <2>4. CASE \E w \in Workers, learns \in BOOLEAN : ArmData(w, learns)
    <3> DEFINE hits == {r \in Recipients : rstatus[r] = "SENDING" /\ r \in suppressed}
    <3>1. rstatus' = Set(rstatus, hits, "SUPPRESSED") \/ rstatus' = rstatus
      BY Zenon, <2>4 DEF ArmData, recipientVars
    <3>2. \A r \in Recipients : r \in hits => rstatus[r] = "SENDING"
      OBVIOUS
    <3> HIDE DEF hits
    <3>3. \A r \in Recipients : rstatus'[r] = rstatus[r] \/ rstatus[r] = "SENDING"
      BY <3>1, <3>2, SetAt
    <3>4. QED
      BY Zenon, <2>1, <3>3
  <2>6. CASE PendingStep
    BY Zenon, <2>1, <2>6 DEF PendingStep
  <2>7. CASE \E q \in Recipients, a \in Attempts : ResolveUnknown(q, a)
    <3>1. PICK q \in Recipients, a \in Attempts : ResolveUnknown(q, a)
      BY Zenon, <2>7
    <3>2. /\ rstatus[q] = Unknown
          /\ \A r \in Recipients : r # q => rstatus'[r] = rstatus[r]
      BY <3>1 DEF ResolveUnknown, Resolvable, TypeOK, RecipientType
    <3>3. QED
      BY Zenon, <3>1, <3>2 DEF Settled, Unknown
  <2>8. CASE Recover \/ \E w \in Workers : Finish(w)
    <3>1. \A r \in Recipients :
            rstatus'[r] = rstatus[r] \/ rstatus[r] \in Pending \cup {"SENDING"}
      BY Zenon, <1>1, <2>8, FinishCloses, RecoverCloses, ClosingMoves
    <3>2. QED
      BY Zenon, <2>1, <3>1
  <2>9. QED
    BY Zenon, <1>1, <2>2, <2>3, <2>4, <2>6, <2>7, <2>8, StepCases
<1>2. TypeOK /\ FenceInv /\ [Next]_vars => [\A r \in Recipients : Kept(r)]_vars
  BY Zenon, <1>1
<1>3. QED
  BY <1>2, TypeCorrect, FenceCorrect, PTL DEF Spec, FactsStay

\* Finish and Recover close the attempt that holds the lease and no other, so
\* what a closed attempt recorded is never rewritten.
THEOREM EvidenceCorrect == Spec => EvidenceIsFinal
<1> DEFINE Final(a) == a \notin inProgress => /\ attemptRecipient'[a] = attemptRecipient[a]
                                              /\ a \notin inProgress'
<1>1. ASSUME TypeOK, FenceInv, [Next]_vars PROVE \A a \in 1 .. claims : Final(a)
  <2>1. CASE UNCHANGED <<inProgress, attemptRecipient>>
    BY Zenon, <2>1
  <2>2. CASE \E w \in Workers : Claim(w)
    <3>1. /\ attemptRecipient' = [attemptRecipient EXCEPT ![claims + 1] =
                                    attemptRecipient'[claims + 1]]
          /\ inProgress' = inProgress \cup {claims + 1}
      BY Zenon, <2>2 DEF Claim, TypeOK, AttemptType, Attempts
    <3>2. \A a \in 1 .. claims : a # claims + 1 /\ a \in Attempts
      <4>1. claims \in Int /\ claims <= AttemptBound /\ AttemptBound \in Int
        BY <1>1, QueueAssumption DEF TypeOK, AttemptType
      <4>2. QED
        BY <4>1 DEF Attempts
    <3>3. ASSUME NEW a \in 1 .. claims PROVE Final(a)
      <4>1. attemptRecipient'[a] = attemptRecipient[a]
        <5>1. attemptRecipient' = [attemptRecipient EXCEPT ![claims + 1] =
                                     attemptRecipient'[claims + 1]]
          BY Zenon, <3>1
        <5>2. a # claims + 1 /\ a \in DOMAIN attemptRecipient
          BY ZenonT(30), <1>1, <3>2 DEF TypeOK, AttemptType
        <5>3. QED
          BY Zenon, <5>1, <5>2
      <4>2. QED
        BY Zenon, <3>1, <3>2, <4>1
    <3>4. QED
      BY Zenon, <3>3
  <2>3. CASE \E w \in Workers : Finish(w)
    <3>1. PICK w \in Workers : Finish(w)
      BY Zenon, <2>3
    <3>2. job[w] \in inProgress
      BY Zenon, <3>1 DEF Finish, Fence
    <3>3. QED
      BY <3>1, <3>2 DEF Finish, TypeOK, AttemptType, Attempts
  <2>4. CASE Recover
    BY <2>4 DEF Recover, Recoverable, TypeOK, AttemptType, Attempts
  <2>5. QED
    BY Zenon, <1>1, <2>1, <2>2, <2>3, <2>4, StepCases
       DEF QuietStep, PendingStep, ArmData, ResolveUnknown, attemptVars
<1>2. TypeOK /\ FenceInv /\ [Next]_vars => [\A a \in 1 .. claims : Final(a)]_vars
  BY Zenon, <1>1
<1>3. QED
  BY <1>2, TypeCorrect, FenceCorrect, PTL DEF Spec, EvidenceIsFinal

\* Claim finds no message with an unknown recipient.
THEOREM UnknownFreezes == Spec => UnknownFreezesMessage
<1>1. ASSUME TypeOK, FenceInv, [Next]_vars, claims' # claims
      PROVE  \A r \in Recipients : rstatus[r] # Unknown
  <2>1. CASE \E w \in Workers : Claim(w)
    BY Zenon, <1>1, <2>1 DEF Claim, FenceInv, QueuedInv
  <2>2. CASE \E w \in Workers : Finish(w) \/ \E learns \in BOOLEAN : ArmData(w, learns)
    BY Zenon, <1>1, <2>2 DEF Finish, ArmData
  <2>3. CASE \/ Recover \/ PendingStep \/ QuietStep
             \/ \E r \in Recipients, a \in Attempts : ResolveUnknown(r, a)
    BY Zenon, <1>1, <2>3 DEF QuietStep, PendingStep, Recover, ResolveUnknown, attemptVars
  <2>4. QED
    BY Zenon, <1>1, <2>1, <2>2, <2>3, StepCases
<1>2. TypeOK /\ FenceInv /\ [Next]_vars =>
        [claims' # claims => \A r \in Recipients : rstatus[r] # Unknown]_vars
  BY Zenon, <1>1
<1>3. QED
  BY <1>2, TypeCorrect, FenceCorrect, PTL DEF Spec, UnknownFreezesMessage
=============================================================================
