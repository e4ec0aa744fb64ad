\* Two recipients of which one gets a reply to RCPT that is neither 25x, 4xx
\* nor 5xx.
CONSTANTS
    Recipients = {r1, r2}
    Workers = {w1}
    MaxAttempts = 2
    AttemptBound = 1
    RetryEnabled = TRUE
    RcptReplies = {2, 3}
    PreDataFailures <- MCPreDataFailures
SPECIFICATION Spec
INVARIANT
    UnknownIsResolvable
