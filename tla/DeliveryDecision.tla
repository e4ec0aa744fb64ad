--------------------------- MODULE DeliveryDecision ---------------------------
(***************************************************************************)
(* Package internal/delivery: what to do with a recipient, from the SMTP   *)
(* evidence of one attempt and what is left of its retry budget.  Pure     *)
(* operators, no state.                                                    *)
(*                                                                         *)
(* A reply code is abstracted to its first digit, 0 standing for "no       *)
(* reply": every comparison in the code is a test of that digit.  Reason   *)
(* and Scope are audit wording and are left out.                           *)
(***************************************************************************)
EXTENDS Integers

CONSTANT MaxAttempts        \* delivery.MaxAttempts, 7 in the code

ASSUME MaxAttemptsAssumption == MaxAttempts \in Nat \ {0}

ReplyClass == 0 .. 5

Accepted  == "SMTP_ACCEPTED"
Temporary == "TEMP_FAILED"
Permanent == "PERM_FAILED"
Unknown   == "DELIVERY_UNKNOWN"

\* The statuses a recipient result may carry when Finish reads it.
ResultStatus == {Accepted, Temporary, Permanent, Unknown}

\* Where the conversation ended, "none" when it did not begin.
Stages == {"none", "INVALID_ENVELOPE", "INVALID_EML", "DNS_ERROR", "CONNECT_ERROR",
    "TLS_ERROR", "SMTP_GREETING_ERROR", "EHLO_ERROR", "STARTTLS_ERROR", "AUTH_ERROR",
    "MAIL_FROM_REJECTED", "RCPT_REJECTED", "RCPT_ACCEPTED", "RECORDER_ERROR",
    "DATABASE_ERROR", "SUPPRESSION_BLOCKED", "EXPIRY_BLOCKED", "DATA_REJECTED",
    "DATA_WRITE_ERROR", "FINAL_RESPONSE_ERROR", "FINAL_RESPONSE"}

\* The values of ErrorClass: classify returns the stage unless the error says
\* more.  A class "<stage>_TIMEOUT" is treated as the stage's own by every
\* test of the package, and so has no value here.
ErrorClasses == Stages \cup {"CONNECT_REFUSED", "CONNECTION_RESET",
    "AUTH_CONNECTION_ERROR", "FINAL_RESPONSE_UNKNOWN", "FINAL_RESPONSE_TIMEOUT",
    "LOCAL_STORAGE_ERROR", "CREDENTIAL_DECRYPTION_ERROR"}

\* The classes with one of the prefixes DNS_, CONNECT_, TLS_, STARTTLS_,
\* SMTP_GREETING_, EHLO_ and AUTH_CONNECTION_.
ProviderSetupClasses == {"DNS_ERROR", "CONNECT_ERROR", "CONNECT_REFUSED",
    "TLS_ERROR", "STARTTLS_ERROR", "SMTP_GREETING_ERROR", "EHLO_ERROR",
    "AUTH_CONNECTION_ERROR"}
LocalClasses == {"LOCAL_STORAGE_ERROR", "DATABASE_ERROR", "RECORDER_ERROR"}
MessageClasses == {"INVALID_EML", "INVALID_ENVELOPE"}

(***************************************************************************)
(* Evidence: stage and code belong to the recipient, class, final (0 when  *)
(* there was no final response) and body to the attempt.                   *)
(***************************************************************************)
SafeTemporary(e) ==
    \/ e.code = 4
    \/ e.final = 4
    \/ e.class \in ProviderSetupClasses
    \/ e.class = "CONNECTION_RESET" /\ ~e.body

RcptRejected(e) == e.stage = "RCPT_REJECTED" /\ e.code \in {4, 5}

\* The second case of Decide: the remote may have taken the message.
AcceptanceUncertain(e) ==
    \/ e.status = Unknown
    \/ ~RcptRejected(e) /\ e.final = 2 /\ e.status # Accepted
    \/ ~RcptRejected(e) /\ e.body /\ e.final \notin {4, 5}

\* The evidence alone asks for a retry; the budget has still to agree.
Retryable(e) ==
    \/ RcptRejected(e) /\ e.code = 4
    \/ /\ ~RcptRejected(e)
       /\ \/ e.class = "AUTH_ERROR" /\ e.code = 4
          \/ /\ e.class \notin {"AUTH_ERROR", "CREDENTIAL_DECRYPTION_ERROR"}
                                  \cup LocalClasses \cup MessageClasses
             /\ e.status = Temporary
             /\ SafeTemporary(e)

Rejected5xx(e) ==
    \/ RcptRejected(e) /\ e.code = 5
    \/ /\ ~RcptRejected(e)
       /\ e.class \notin {"AUTH_ERROR", "CREDENTIAL_DECRYPTION_ERROR"}
                           \cup LocalClasses \cup MessageClasses
       /\ e.status = Permanent
       /\ e.stage \notin {"SMTP_GREETING_ERROR", "EHLO_ERROR", "STARTTLS_ERROR"}
       /\ e.code = 5 \/ e.final = 5

\* Permission to try another provider: nothing of the message was sent.
FailoverAllowed(e) ==
    /\ ~RcptRejected(e) /\ e.class # "AUTH_ERROR"
    /\ ~e.body /\ e.final = 0
    /\ \/ e.code = 0 /\ e.stage \in {"DNS_ERROR", "CONNECT_ERROR", "TLS_ERROR"}
       \/ e.code = 4 /\ e.stage = "DATA_REJECTED"

(***************************************************************************)
(* The retry budget of a recipient: attempts made, whether the 24 h window *)
(* that opened with its first claim is over, and whether the backed-off    *)
(* retry would still land inside that window.                              *)
(***************************************************************************)
BudgetLeft(b) ==
    b.attempts >= 1 /\ b.attempts < MaxAttempts /\ ~b.windowOver /\ b.fits

Decision(action, may, failover) ==
    [action |-> action, mayHaveDelivered |-> may, failoverAllowed |-> failover]

Decide(e, b) ==
    IF e.status = Accepted /\ e.final = 2 THEN Decision("ACCEPT", TRUE, FALSE)
    ELSE IF AcceptanceUncertain(e) THEN Decision("DELIVERY_UNKNOWN", TRUE, FALSE)
    ELSE IF Rejected5xx(e) THEN Decision("PERMANENT_FAILURE", FALSE, FALSE)
    ELSE IF Retryable(e) /\ BudgetLeft(b)
         THEN Decision("RETRY_SAME_PROVIDER", FALSE, FailoverAllowed(e))
    ELSE Decision("MANUAL_INTERVENTION", FALSE, FALSE)

(***************************************************************************)
(* ProviderOutcome: the health sample an attempt leaves on its provider.   *)
(***************************************************************************)
ProviderOutcome(e) ==
    IF e.final = 2 /\ e.status \in {Accepted, "PARTIAL_ACCEPTED"} THEN "SUCCESS"
    ELSE IF e.class \in LocalClasses \cup MessageClasses
                          \cup {"CREDENTIAL_DECRYPTION_ERROR"} THEN "IGNORED"
    ELSE IF e.class = "AUTH_ERROR"
         THEN IF e.code = 4 THEN "FAILURE" ELSE "IGNORED"
    ELSE IF \/ e.class \in ProviderSetupClasses
            \/ e.class \in {"CONNECTION_RESET", "DATA_WRITE_ERROR",
                            "FINAL_RESPONSE_UNKNOWN", "FINAL_RESPONSE_TIMEOUT"}
            \/ e.stage \in {"DATA_REJECTED", "FINAL_RESPONSE_ERROR"} /\ e.code = 4
         THEN "FAILURE"
    ELSE "IGNORED"
===============================================================================
