----------------------------- MODULE WebhookOutbox -----------------------------
(***************************************************************************)
(* The notification outbox of one webhook endpoint (internal/webhook and   *)
(* migration 00014): rows captured in the transaction of a mail event,     *)
(* leased by a dispatcher, sent over HTTP, and confirmed, retried, retired *)
(* or replayed.                                                            *)
(*                                                                         *)
(* Dispatchers are the processes that may touch the outbox: the running    *)
(* gateway and one that an operator replaced while it was stalled.  Each   *)
(* was started with a configuration, here its hash.  A dispatcher may stop *)
(* at any step.  Clock readings are what the queries compare: a lease is   *)
(* live, a row is due, a deadline has passed.                              *)
(***************************************************************************)
EXTENDS Integers, FiniteSets

CONSTANTS
    Rows,               \* mail events of the identity that owns the endpoint
    Dispatchers,
    Hashes,             \* configurations the endpoint may be started with
    MaxAttempts,        \* 8 in the code
    GenerationBound,    \* bound: replays of one row
    SyncBound,          \* bound: starts and pauses
    NoRow

ASSUME WebhookAssumption ==
    /\ MaxAttempts \in Nat \ {0} /\ GenerationBound \in Nat /\ SyncBound \in Nat
    /\ Hashes # {} /\ NoRow \notin Rows

VARIABLES
    outbox,     \* webhook_outbox
    endpoint,   \* webhook_endpoints: enabled, config_hash
    config,     \* the configuration each dispatcher was started with
    disp,       \* RunOne of each dispatcher
    tokens,     \* lease tokens drawn so far; a token is never drawn twice
    changes     \* starts and pauses so far

vars == <<outbox, endpoint, config, disp, tokens, changes>>

Row == [state : {"none", "PENDING", "IN_FLIGHT", "DELIVERED", "DEAD"},
        attempts : 0 .. MaxAttempts, generation : 0 .. GenerationBound,
        token : Nat, leased : BOOLEAN, due : BOOLEAN, late : BOOLEAN]

NotCaptured == [state |-> "none", attempts |-> 0, generation |-> 0, token |-> 0,
                leased |-> FALSE, due |-> FALSE, late |-> FALSE]

Idle == [at |-> "idle", row |-> NoRow, token |-> 0, attempt |-> 0, success |-> FALSE]

\* The owner's key stays enabled: nothing under src/ disables one.
Eligible(d) == endpoint.enabled /\ endpoint.hash = config[d]

Init ==
    /\ outbox = [n \in Rows |-> NotCaptured]
    /\ config \in [Dispatchers -> Hashes]
    /\ endpoint \in {[enabled |-> TRUE, hash |-> config[d]] : d \in Dispatchers}
    /\ disp = [d \in Dispatchers |-> Idle]
    /\ tokens = 0
    /\ changes = 0

\* The trigger capture_webhook_event, in the transaction of the mail event.
\* An event of a paused endpoint leaves no row.
Capture(n) ==
    /\ outbox[n].state = "none"
    /\ endpoint.enabled
    /\ outbox' = [outbox EXCEPT ![n].state = "PENDING", ![n].due = TRUE]
    /\ UNCHANGED <<endpoint, config, disp, tokens, changes>>

(***************************************************************************)
(* claim: rows that are over are retired, then one that is due is leased.  *)
(***************************************************************************)
\* Slip: every row that is not under a live lease is free.
FreeUnlessLeased(r) == r.state # "none" /\ ~r.leased
Free(r) == r.state = "PENDING" \/ (r.state = "IN_FLIGHT" /\ ~r.leased)

Retirable(r) == Free(r) /\ (r.late \/ r.attempts >= MaxAttempts)

Leasable(r) ==
    /\ r.attempts < MaxAttempts /\ ~r.late
    /\ \/ r.state = "PENDING" /\ r.due
       \/ r.state = "IN_FLIGHT" /\ ~r.leased

Retired == [n \in Rows |->
    IF Retirable(outbox[n])
    THEN [outbox[n] EXCEPT !.state = "DEAD", !.token = 0, !.leased = FALSE]
    ELSE outbox[n]]

Leased(r) == [r EXCEPT !.state = "IN_FLIGHT", !.attempts = @ + 1, !.token = tokens + 1,
                       !.leased = TRUE]

Claim(d, n) ==
    /\ disp[d].at = "idle"
    /\ Eligible(d)
    /\ Leasable(outbox[n])
    /\ tokens' = tokens + 1
    /\ outbox' = [Retired EXCEPT ![n] = Leased(outbox[n])]
    /\ disp' = [disp EXCEPT ![d] = [at |-> "claimed", row |-> n, token |-> tokens + 1,
                                    attempt |-> outbox[n].attempts + 1,
                                    success |-> FALSE]]
    /\ UNCHANGED <<endpoint, config, changes>>

\* Nothing to lease: the retirement alone commits.
Retire(d) ==
    /\ disp[d].at = "idle"
    /\ Eligible(d)
    /\ \A n \in Rows : ~Leasable(outbox[n])
    /\ Retired # outbox
    /\ outbox' = Retired
    /\ UNCHANGED <<endpoint, config, disp, tokens, changes>>

(***************************************************************************)
(* RunOne after its claim: the second look at the configuration, the       *)
(* request, and finish.                                                    *)
(***************************************************************************)
Recheck(d) ==
    /\ disp[d].at = "claimed"
    /\ disp' = [disp EXCEPT ![d].at = IF Eligible(d) THEN "sending" ELSE "sent"]
    /\ UNCHANGED <<outbox, endpoint, config, tokens, changes>>

\* The site's answer may be 2xx and lost on the way back: processed says what
\* the site did, success what sender.Send returned.
Send(d, processed, success) ==
    /\ disp[d].at = "sending"
    /\ success => processed
    /\ disp' = [disp EXCEPT ![d].at = "sent", ![d].success = success]
    /\ UNCHANGED <<outbox, endpoint, config, tokens, changes>>

Owned(d) ==
    LET r == outbox[disp[d].row] IN
    r.token = disp[d].token /\ r.state = "IN_FLIGHT" /\ r.leased

\* Slip: any answer of the site counts.
FinishedStateAny(d) ==
    IF disp[d].attempt >= MaxAttempts THEN "DEAD" ELSE "DELIVERED"
FinishedState(d) ==
    IF disp[d].success THEN "DELIVERED"
    ELSE IF disp[d].attempt >= MaxAttempts THEN "DEAD"
    ELSE "PENDING"

Finished(r, d) == [r EXCEPT !.state = FinishedState(d), !.token = 0, !.leased = FALSE,
                            !.due = FALSE]

\* When the claim is no longer owned, finish changes nothing and fails.
Finish(d) ==
    /\ disp[d].at = "sent"
    /\ outbox' = IF Owned(d)
                 THEN [outbox EXCEPT ![disp[d].row] = Finished(@, d)]
                 ELSE outbox
    /\ disp' = [disp EXCEPT ![d] = Idle]
    /\ UNCHANGED <<endpoint, config, tokens, changes>>

\* A failed transaction, a cancelled context or the end of the process.
Abandon(d) ==
    /\ disp[d].at # "idle"
    /\ disp' = [disp EXCEPT ![d] = Idle]
    /\ UNCHANGED <<outbox, endpoint, config, tokens, changes>>

(***************************************************************************)
(* Administration.                                                         *)
(***************************************************************************)
Replayed(r) == [r EXCEPT !.state = "PENDING", !.attempts = 0,
                         !.generation = r.generation + 1, !.due = TRUE, !.late = FALSE]

\* Replay with the generation the operator read in list-webhooks.
Replay(n, generation) ==
    /\ generation < GenerationBound
    /\ outbox[n].state = "DEAD" /\ outbox[n].generation = generation
    /\ outbox' = [outbox EXCEPT ![n] = Replayed(outbox[n])]
    /\ UNCHANGED <<endpoint, config, disp, tokens, changes>>

Pause ==
    /\ changes < SyncBound
    /\ endpoint' = [endpoint EXCEPT !.enabled = FALSE]
    /\ changes' = changes + 1
    /\ UNCHANGED <<outbox, config, disp, tokens>>

\* A process starts with configuration h, which Sync makes the endpoint's.
Start(d, h) ==
    /\ changes < SyncBound
    /\ disp[d].at = "idle"
    /\ config' = [config EXCEPT ![d] = h]
    /\ endpoint' = [enabled |-> TRUE, hash |-> h]
    /\ changes' = changes + 1
    /\ UNCHANGED <<outbox, disp, tokens>>

(***************************************************************************)
(* The clock.                                                              *)
(***************************************************************************)
LeaseExpires(n) ==
    /\ outbox[n].leased
    /\ outbox' = [outbox EXCEPT ![n].leased = FALSE]
    /\ UNCHANGED <<endpoint, config, disp, tokens, changes>>

FallsDue(n) ==
    /\ outbox[n].state = "PENDING" /\ ~outbox[n].due
    /\ outbox' = [outbox EXCEPT ![n].due = TRUE]
    /\ UNCHANGED <<endpoint, config, disp, tokens, changes>>

DeadlinePasses(n) ==
    /\ outbox[n].state \in {"PENDING", "IN_FLIGHT"} /\ ~outbox[n].late
    /\ outbox' = [outbox EXCEPT ![n].late = TRUE]
    /\ UNCHANGED <<endpoint, config, disp, tokens, changes>>

\* All that happens without the mail events and without the site.
OutboxStep ==
    \/ \E d \in Dispatchers, n \in Rows : Claim(d, n)
    \/ \E d \in Dispatchers : Retire(d)
    \/ \E d \in Dispatchers : Recheck(d)
    \/ \E d \in Dispatchers : Finish(d)
    \/ \E d \in Dispatchers : Abandon(d)
    \/ \E n \in Rows, g \in 0 .. GenerationBound : Replay(n, g)
    \/ Pause
    \/ \E d \in Dispatchers, h \in Hashes : Start(d, h)
    \/ \E n \in Rows : LeaseExpires(n)
    \/ \E n \in Rows : FallsDue(n)
    \/ \E n \in Rows : DeadlinePasses(n)

Next ==
    \/ OutboxStep
    \/ \E n \in Rows : Capture(n)
    \/ \E d \in Dispatchers, processed, success \in BOOLEAN : Send(d, processed, success)

Spec == Init /\ [][Next]_vars

(***************************************************************************)
(* Properties.                                                             *)
(***************************************************************************)
\* The type of the state, with the table's CHECK: a row has a lease token
\* exactly while it is in flight, and no more than MaxAttempts claims.
TypeOK ==
    /\ outbox \in [Rows -> Row]
    /\ \A n \in Rows : outbox[n].state = "IN_FLIGHT" <=> outbox[n].token # 0
    /\ endpoint \in [enabled : BOOLEAN, hash : Hashes]
    /\ config \in [Dispatchers -> Hashes]
    /\ disp \in [Dispatchers ->
           [at : {"idle", "claimed", "sending", "sent"}, row : Rows \cup {NoRow},
            token : Nat, attempt : 0 .. MaxAttempts, success : BOOLEAN]]
    /\ tokens \in Nat
    /\ changes \in Nat

\* A confirmed row never changes again, and a dead one only by a replay, which
\* opens the next generation.
OutcomesStay ==
    [][\A n \in Rows :
         /\ outbox[n].state = "DELIVERED" => outbox'[n] = outbox[n]
         /\ outbox[n].state = "DEAD" /\ outbox'[n] # outbox[n] =>
                outbox'[n].generation = outbox[n].generation + 1]_vars

================================================================================
