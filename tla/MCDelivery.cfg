\* Two recipients, two workers, three attempts: races of stalled, crashed and
\* late workers with recovery, operators and policy changes, and the progress
\* of leases, retries and deadlines under the fairness of the loops.
CONSTANTS
    r1 = r1
    r2 = r2
    w1 = w1
    w2 = w2
    Recipients = {r1, r2}
    Workers = {w1, w2}
    MaxAttempts = 2
    AttemptBound = 3
    RetryEnabled = TRUE
    RcptReplies = {2, 4, 5}
    PreDataFailures <- MCPreDataFailures
SPECIFICATION MCSpec
INVARIANTS
    NoUnacknowledgedDuplicate
    PolicyEndsAreHonest
PROPERTIES
    FactsStay
    LeaseIsSettled
    RetryIsServed
    DeadlineIsApplied
CHECK_DEADLOCK FALSE
