# RelayTale: TLA+ models and proofs

RelayTale is a mail gateway in Go over PostgreSQL. It accepts messages over SMTP and HTTP, archives
them, delivers them through upstream SMTP providers, tells websites what happened through signed
webhooks, and collects feedback mail. Its promises are about *state*: a body is never silently sent
twice, what is not known is recorded as not known, an accepted message is not lost, a website learns
what it has to know, and nothing waits for ever.

These modules model the parts of the program that keep those promises. TLC checks small instances,
TLAPS proves the safety properties for every value of the constants.

## 1. The system and its modules

The parts meet in the database. Ingress commits a message with its recipients. A worker's claim
passes the provider controls and the failover rule in one transaction. Every transaction that
changes what a website may see writes an event, and a trigger captures the webhook row in the same
transaction. Only one gateway, or one offline command, works on the database at a time.

| Part of the code | Module | Proofs |
|---|---|---|
| `internal/delivery` | `DeliveryDecision` | |
| `internal/queue` (repository, decisions, expiry, suppression, manual, worker), `internal/smtpclient`, `internal/suppression`, `internal/message/cancel.go` | `DeliveryQueue` | `DeliveryQueueProofs`, `DeliveryFenceProofs` |
| `queue/controls.go`, `queue/fairness.go`, `internal/provider` | `ProviderControls` (extends `Upstream`) | `RoutingProofs` |
| `queue/failover.go` | `FailoverRoute` (extends `Upstream`) | `RoutingProofs` |
| `internal/message`, `internal/storage` | `Submission`, which implements `SubmissionPromise` | `SubmissionProofs` |
| `internal/resource` | `ResourceLimiter` | `IngressProofs` |
| `api/send.go`, the limiter and the connection pool together | `Ingress` (extends `ResourceLimiter`) | `IngressProofs` |
| `internal/smtpserver` | `SMTPAdmission` | `IngressProofs` |
| `internal/webhook`, migrations 00014 and 00030 | `WebhookOutbox` | |
| `examples/website`, `api/send_status.go`, `api/feedback_publication.go` | `Website` | |
| outbox and website together | `WebhookWebsite` | `RecoveryWebsiteProofs` |
| `internal/database`, `cmd/relaytale` | `RuntimeOwnership` | `OperationsProofs` |
| `internal/recovery`, `internal/encryption` | `Recovery` | `RecoveryWebsiteProofs` |
| `internal/operations` | `ArchiveLifecycle` | `OperationsProofs` |
| `feedback/collect.go`, `internal/feedbackimap` | `FeedbackCollector` | `FeedbackProofs` |
| `internal/feedback` (publication, service, decision), migration 00030 | `FeedbackPublication` | `FeedbackProofs` |

`MC*` modules are the instances for TLC. `PROJECT.json` has the source lines of every definition, the
hazards of the code with the properties that cover them, and the list of runs and theorems.

A definition whose comment starts with `Slip:` is not part of a model. It is the definition after it
with a mistake the code could have had, and shows that a property notices that mistake.

## 2. How the models correspond to the code

One action is one committed transaction, one statement that waits for a lock, or one step of a
program between two of them. A transaction that fails changes nothing and shows only in its caller.
A commit may take effect although its reply is lost. A program may stop at every step; its session,
and what the server was already sent, may outlive it.

Clocks are what the queries compare: a lease is live, a retry is due, a deadline has passed, a
reservation is in the last hour. Each changes at any time.

### DeliveryQueue

| Code | Action |
|---|---|
| `Repository.Claim` | `Claim(w)`: any non-empty set of claimable recipients, since the quota decides how many |
| `Client.Send` | `SendFails`, `SendRcpt`, `SendData`, `SendFinal` |
| `Repository.ArmData` (called by Send before DATA) | `ArmData(w, learns)`: suppression first, then expiry, then the armed mark |
| `Repository.Finish` with decideRecipient, finishSuppression, applyExpiry, refresh | `Finish(w)` |
| panic, kill, refused or failed Finish | `Abandon(w)` |
| `Recover`, `Schedule`, `SweepExpired`, `SweepSuppressed` | actions of the same names |
| `ResolveUnknown`, `cancelPendingTx`, suppression Add and Release | `ResolveUnknown`, `CancelPending`, `SuppressionAdd`, `SuppressionRelease` |

Every transaction of the queue locks the message row first, and messages share nothing in these
tables, so one message is enough. `wire[a]` is the one variable without a counterpart in the program:
the recipients for whom attempt `a` put the body on the wire and was not refused. A worker is not
stopped by losing its lease; it may sit between ArmData and DATA for as long as it likes and then
send.

Reply codes are their first digit. The sandbox, the `archive_state` gate and `schedule_at` are left
out: they only delay a claim, so leaving them out adds behaviours. Batches are one message per action.

### ProviderControls and FailoverRoute

A claim is two steps, `Select` on a snapshot and `ClaimCommits` after the provider lock, because what the
selection read may be stale by then. The lock holder rechecks connections, both quota layers and the
circuit, reserves, and may take the probe. `Configure`, `ConfigureGroup` and `AttachQuotaGroup`
change the limits underneath. `FinishHealth` and `RecoverAttempt` are the parts of Finish and Recover
that concern the provider.

`FailoverRoute` replaces the conversation by its outcome, one decision per recipient, and quota by
"any provider may be available for any number of recipients". What remains is the rule: `SafeFailover`,
`EligibleProvider`, and the evidence `recordFailover` demands when the claim is made. A suppression
that ArmData finds ends some recipients of the attempt and blocks it; its end (`finishSuppression`)
resumes the others without a verdict of their own.

Reserved units are counted one by one: a row of three units is three pairs of the row and a number, and
`SUM` over rows is the number of their pairs. The same goes for the budgets of `Submission` and for what
the callers of `ResourceLimiter` took.

### Submission, ResourceLimiter, Ingress, SMTPAdmission

`Submission` has one step per statement of `ReceiveReplacing` and `Receive`: the advisory lock of the
key, the lookup, the ledger row, cancelling what is replaced, the reservation under the website's row
lock, the link and the directory sync of the archive, the commit, and its reply. The program and its
transaction are separate: the program may be gone while the server commits. A request that is repeated
is another member of `Requests` with the same key and fingerprint.

`SubmissionPromise` is what the client may rely on: a key stands for the first request that was
accepted with it, for ever; success names that request; who was turned away is not accepted later; an
error promises nothing. `KeepsPromise` says that `Submission` implements it, with the ledger as the
accepted requests and the replies to requests with keys as what was told.

`Ingress` composes `ResourceLimiter` with slots, places per key and the pool of connections. A handler
is the sequence of what it takes and gives back. `SMTPAdmission` has the `sourceState` objects, which a
sweep deletes while connections and password checks still hold pointers to them.

### WebhookOutbox, Website, WebhookWebsite

Dispatchers are the running process and one that was replaced while it was stalled, each with the
configuration it was started with. The website reads status and feedback in two steps each, since
`snapshot_at` is the time of BEGIN and the snapshot is taken by the first query. In the composition an
event and its outbox row commit together, and a dispatcher's request is the site's `receive`.

### RuntimeOwnership and Recovery

A member of `Processes` is one run of a program: a gateway, an offline command, an auxiliary command.
Sessions, locks, the uncommitted change of a program's row and the committed rows are separate state.

`Recovery` has backup, restore, verify-restore and key rotation step by step, with files that are
whole, partial or missing, and entries that a power failure may lose until they are synced. It assumes
what `RuntimeOwnership` shows, that at most one command runs and none beside a gateway, and what
`--offline` asserts: the operator keeps every other writer stopped from the begin of a restore until
its gate is on disk, and during a rotation. A backup does not rely on it: writers that were left
behind go on beside it.

### ArchiveLifecycle, FeedbackCollector, FeedbackPublication

`ArchiveLifecycle` has cleanup (intent, unlink, directory sync, completion) and reclaim (observe,
retire, remove, record) against writers that are slow to enqueue and reports that put a hold on an
archive. `FeedbackCollector` reads a mailbox whose folder may be replaced under it, and
whose mail may be empty, too large, or larger than announced. In
`FeedbackPublication` the four operations are transactions at READ COMMITTED under one advisory lock,
and what a link says is computed from append-only rows.

## 3. The runs

Every run is exhaustive for its instance. A run marked V is expected to end in a violation: it shows
where the code and what is written about it disagree (section 6).

| Run | Instance | What it shows |
|---|---|---|
| `delivery` | 2 scenarios: 1 recipient (the other suppressed at ingress), 2 workers, 3 attempts; 2 recipients, 1 worker, 2 attempts; `MaxAttempts` 2 | no body is left with the remote twice unless an operator acknowledged the first (`NoUnacknowledgedDuplicate`); EXPIRED and SUPPRESSED do not hide a possible delivery (`PolicyEndsAreHonest`); settled recipients stay, UNKNOWN moves only by an operator (`FactsStay`); leases are settled, retries served, deadlines applied, also of a message that went out in part or is frozen by an UNKNOWN (`LeaseIsSettled`, `RetryIsServed`, `DeadlineIsApplied`) |
| `delivery_odd_reply` V | 2 recipients, 1 worker, 1 attempt | an UNKNOWN recipient can always be resolved (`UnknownIsResolvable`): violated |
| `provider` | 2 providers, a quota group that has one or both of them, 2 workers, 3 attempts, 1 change of membership or limits | at most one probe (`ProbeIsAlone`); a committed reservation fits both layers and the connections although the selection was stale (`ReservationFits`); only the probe decides a half-open circuit, stragglers do not (`ProbeDecides`); half-open ends though the probe is lost (`HalfOpenEnds`) |
| `failover_route` | 4 providers, limit 3, 2 recipients, 4 attempts | a move has complete current evidence (`MovesOnlyWhenAllowed`), never returns (`RouteGoesForward`), and what the selection accepts the claim's evidence query accepts (`SelectionSuffices`) |
| `submission` | 2 requests in 5 pairs of asks, 1 existing message, 2 keys | the promise (`KeepsPromise`); an accepted message has its archive through power failures (`MessageHasArchive`); budgets and the cap on schedules hold under concurrency (`LimitsHonoured`); a replacement and its target are not both sent (`ReplacementIsExclusive`); every request is answered (`RequestIsAnswered`) |
| `ingress` | 2 slots, 2 places per key, pool of 3, in scenarios: 3 POSTs of 2 keys and a worker; 2 POSTs and an inspection; a POST, an inspection, an SMTP session and a worker; and SMTP admission, 3 connections from 2 sources | reservations fit the budget (`WithinBudget`); limits hold of what is really open although idle sources are swept (`SourceLimitsHold`); no handler waits for ever on slots, keys, memory or connections that others hold (`EveryoneFinishes`) |
| `webhook` | 2 dispatchers, 2 readers, 2 clients, in three scenarios | an outcome stays whatever answers late (`OutcomesStay`); DELIVERED is in the inbox (`DeliveredIsKept`); a refreshed row shows its inbox (`RefreshCoversInbox`); every event is shown, unless its row is DEAD or no running dispatcher may serve the endpoint (`EventReachesSite`) |
| `website_stamps` V | 2 readers | the row never goes back (`SnapshotsAdvance`): violated |
| `ownership` | 1 gateway, 1 migrator, 2 auxiliaries; and 2 messages, 2 providers, 2 keys, 2 power failures | programs exclude each other (`Exclusion`); an auxiliary knows its schema (`AuxiliarySchemaFits`); an accepted bundle is whole, a successful backup stays (`BundleIsWhole`, `BackupSurvives`); no gateway on an unverified restore (`GateHolds`); stored credentials open (`CredentialsOpen`) |
| `ownership_schema` V | 1 gateway, 1 migrator | the gateway knows its schema (`GatewaySchemaFits`): violated |
| `archive` | an SMTP and an HTTP archive, 1 cleanup, 2 reclaims, 1 failure, 1 report | AVAILABLE has its file (`AvailableHasFile`); what is purged stays away (`GoneIsGone`); an intent is stated only without holds (`IntentRespectsHolds`) and is carried out (`IntentIsCarriedOut`) |
| `feedback` | 2 collectors over a folder that grows and is replaced; 2 conflicting reports of one bounce, 2 transactions of operators | no mail is skipped (`NothingSkipped`), quotas are charged once (`ChargesAgree`), mail is collected (`MailIsCollected`), a change of what a website is told is announced (`ChangesAreAnnounced`), a decision is on current evidence (`DecisionsAreInformed`) |

An instance with *scenarios* has parts that share no state, or restricts a composition in one respect
at a time. Its `scenario` variable is chosen in Init and never changes, so one run covers them all.

**Bounds.** Two of everything that competes, and one more of what follows it. In `delivery` two
workers are a stalled one and the one that overtakes it; three attempts are a first, its retry and the
one past `MaxAttempts` that an operator forces. All races of two recipients exceed the time a run may
take; the scenario with two of them has one worker, the replies to RCPT and to the body as its
failures and no change of policy, which is enough for PARTIAL_ACCEPTED and for an UNKNOWN that freezes
the other's retry. The proofs of the safety properties cover any number. In `ingress` three POSTs
would fit the limiter and the places of their keys, and fill the pool with their first connections: it
is the slots that keep one connection free. In `failover_route` four providers and a limit of three leave one provider that must not be used.
`provider` needs a third attempt as the straggler that ends while the second is the probe.
`LossBound` 2 is a power failure during the command and one during its repetition. Bounds stand in
the guards of the actions that would exceed them and are named in the CONSTANTS of each module.
`MCFailoverRoute` uses symmetry over providers (no liveness is checked there); no other run does.

**Deadlock** is not checked: in every run the system may come to rest, with every request answered,
every event shown, every bound used up. That nothing gets stuck before is what the liveness properties
say.

**Fairness.**

| Module | Assumed | Because |
|---|---|---|
| `DeliveryQueue` | weak: the lease and the retry time pass, Recover, Schedule and SweepExpired | `Worker.Run` calls them in every round; nothing is assumed of a worker that claimed |
| `ProviderControls` | weak: the lease passes, Recover | the same loop |
| `Submission` | weak: a program goes on, the server ends the transaction of one that is gone, a failed statement is reported | a handler executes its statements; the server notices a program that is gone and releases its locks |
| `Ingress` | weak: a handler goes on, or fails once its context is gone; strong: `TakeConnection` | `database/sql` gives a connection that is returned to one of the waiting requests, picked at random, so none is passed over for ever |
| `WebhookWebsite` | weak: each dispatcher's steps, the clocks, the steps of the readers | both poll, and every call has a timeout |
| `ArchiveLifecycle` | weak: a report ends, a cleanup goes on | `operations.Run` repeats the cleanup; a report is one transaction |
| `FeedbackCollector` | strong: a run starts; weak: its steps | `collect-feedback` repeats its calls and is started again when one fails; the lock is free again and again |

Nothing is ever assumed of failures: they may come or not. Where a module bounds their number
(`MaxFailures`), liveness says what follows once they stop.

## 4. What is proved

All theorems are of the form `Spec => []P` or `Spec => [][A]_vars`, or a refinement, for every value
of the constants that satisfies the named assumptions of the modules. Each rests on an inductive
invariant, because none of the properties is inductive as it stands.

| Module | Theorem | States |
|---|---|---|
| `DeliveryQueueProofs` | `TypeCorrect` | types of all tables and of workers' memory |
| `DeliveryFenceProofs` | `FenceCorrect` | the inductive invariant `FenceInv` |
| | `AtMostOnceUnlessAcknowledged` | `NoUnacknowledgedDuplicate` |
| | `PolicyHonesty`, `FactsAreFinal` | `PolicyEndsAreHonest`, `FactsStay` |
| | `CancellationIsSafe` | a cancelled message has no body on the wire, now or later |
| | `RetriesAreOfFailures`, `EvidenceCorrect`, `UnknownFreezes` | only TEMP_FAILED has a retry time; a closed attempt is never rewritten; no attempt starts beside an UNKNOWN recipient |
| `RoutingProofs` | `RecipientsMoveSafely`, `RouteNeverReturns`, `SelectionIsEnough` | `MovesOnlyWhenAllowed`, `RouteGoesForward`, `SelectionSuffices` |
| | `ProbesAreAlone`, `ProbesDecide`, `ReservationsFit` | `ProbeIsAlone`, `ProbeDecides`, `ReservationFits` |
| `SubmissionProofs` | `SubmissionKeepsPromise` | `KeepsPromise`: Submission implements SubmissionPromise |
| | `ArchiveIsThere`, `ReplacementsExclude`, `LimitsAreHonoured` | `MessageHasArchive`, `ReplacementIsExclusive`, `LimitsHonoured` |
| `IngressProofs` | `LimiterBudget` | `WithinBudget` of the limiter alone |
| | `HandlersUseLimiter`, `HandlersWithinBudget` | Ingress implements ResourceLimiter, so that `WithinBudget` holds for the handlers |
| | `SMTPLimits` | `SourceLimitsHold` |
| `RecoveryWebsiteProofs` | `SiteIsCurrent`, `ConfirmedIsKept`, `OutcomesAreFinal` | `RefreshCoversInbox`, `DeliveredIsKept`, `OutcomesStay` of the composition |
| | `AcceptedBundleIsWhole`, `BackupIsDurable`, `GateIsRespected`, `CredentialsStayOpen` | `BundleIsWhole`, `BackupSurvives`, `GateHolds`, `CredentialsOpen` |
| `OperationsProofs` | `OwnersExclude`, `AuxiliarySchemaStays` | `Exclusion`, `AuxiliarySchemaFits` |
| | `AvailableFilesStay`, `GoneStaysGone`, `IntentsRespectHolds` | `AvailableHasFile`, `GoneIsGone`, `IntentRespectsHolds` |
| `FeedbackProofs` | `NoMailSkipped`, `SourceCharges` | `NothingSkipped`, `ChargesAgree` |
| | `ChangesReachTheSite`, `OperatorsDecideInformed` | `ChangesAreAnnounced`, `DecisionsAreInformed` |

**Delivery** (`QueueAssumption`, `MaxAttemptsAssumption`). A worker that lost its lease may still send,
so what is true of the tables must be true whatever such a worker does next. `FenceInv` therefore
speaks of the *possible* sends. An attempt is exposed for a recipient when its body is on the wire or its worker,
however late, still holds the permission to put it there. Once an exposed attempt has lost the lease,
its record says the recipient may have been reached, and the recipient is out of the queue unless an
operator put it back. Its conjuncts are `ExposedInv`,
`LeaseInv`, `JobInv`, `SendingInv`, `WireInv`, `AcknowledgedInv`, `CancelledInv`, `QueuedInv` and
`FutureInv`. `DeliveryQueueProofs` proves it for the claim and the conversation. In `DeliveryFenceProofs`
every transaction that ends an attempt is shown to be a `ClosingStep`, and every one that moves only
pending recipients of an unleased message a `PendingStep`; `ClosingFence` and `PendingFence` then do the rest once.

**Submission** (`SubmissionAssumption`). `PromiseInv` says that a row in the ledger belongs to the
request that committed it, and that a program's progress agrees with its transaction and its identity
row. It does not use the advisory lock of the key: the lock may be lost with its connection, and the
promise still holds because the ledger row decides. The refinement maps the commit to Accept, its
confirmation to Succeed, a lookup that finds the key to Replay or Conflict, refusals to TurnAway and
failures, power failures included, to GiveUp; everything else stutters. `ArchiveInv` orders link,
directory sync and commit. `ReplaceInv` says that who holds the target's row locked has it cancellable.
`LimitsInv` has `Room`: from its reservation until its transaction is over, a request fits in every
window it is in and under the cap on schedules. Others may only make room meanwhile, since a reservation
needs the identity's row, which the transaction holds even when its program is gone. So a commit that
lands late is still within the limits.

**Routes and provider controls** (`FailoverAssumption`, `UpstreamAssumption`, `ControlsAssumption`).
`RouteInv` says where each unfinished recipient was last: with the provider of the message's last
attempt, or with another because a claim took only others since, and then with the permission to fail
over (`LeftBehind`, with `LastAttempt` and `RouteIsLast`). From this
`EvidenceFollows` shows that the selection's test implies the evidence query's. `ControlsInv` adds to
`ProbeIsAlone` that only watched providers have probes, so that every later claim meets the circuit.
`ReservationFits` follows from the recheck alone; nothing is used of what the selection saw.

**Ingress** (`LimiterAssumption`, `IngressAssumption`, `AdmissionAssumption`). For the limiter the budget
is inductive with the types: a grant is made when it fits, and only a holder gives back. Every step of
`Ingress` is a step of `ResourceLimiter` or leaves it alone, and the budget carries over. The limits of
the SMTP listener are harder, because a sweep deletes the object that counts a source and a new one may
follow. `AdmissionInv` says that an open connection and a running password check always point to the
object their source has now (`PointersHold`), and that its counters are their numbers (`CountersHold`).

**Webhooks and website** (`WebhookAssumption`, `WebsiteAssumption`, `RowsAreEvents`). `OutboxInv` ties a
dispatcher's memory to the row by token and generation. `SiteInv` has the fact on which the website's
page rests: as long as the row has the revision a reader asked for, what the reader has read covers the
inbox (`ReadingFits`). `snapshot_at` plays no part in the argument; compare finding 3.

**Ownership** (`OwnershipAssumption`). A program at work is protected by its committed row and not by
its session, which may be gone. The invariant relates sessions, lock, uncommitted change and rows
(`SessionHolds`, `AdmissionExcludes`, `ChangeIsOwn`, `KeyGuardsRow`, `OfflineIsAlone`,
`BootstrapHasNoRow`, `AuxiliaryRowsFit`, `SlotsAreFree`, `WorkHasRow`, `SchemaStays`). `Exclusion`
excepts a row that an operator cleared although its owner was alive.

**Recovery** (`RecoveryAssumption`: a message is not named like the dump or the manifest). Three
orders carry the argument: the gate is durable before the first table is restored, the archives before
the manifest, and every credential is rotated before an old key goes (`GateInv`, `KeyInv`,
`RestoreInv`, `BackupInv`, `BundleInv`).

**Archives** (`LifecycleAssumption`). `ArchiveInv` ties each file to its writer, row and retirement
(`FileOK`), and each call of Cleanup and ReclaimArchive to what it committed before (`CleanerOK`,
`ReclaimerOK`). The steps of others only go on (`Onward`): no file comes back, and no row or retirement
is undone, so that a call which was stalled between two steps removes nothing it may not.

**Feedback** (`CollectorAssumption`, `PublicationAssumption`). `CollectorInv` says that who holds the lock
works from the stored checkpoint, that a window lies below the UIDNEXT it was chosen by, and that mail in
it is still to do or has its receipt (`MailBelowNext`, `SourceOK`, `CallOK`). `PublicationInv` says of a
transaction behind the fence that its checks and the links it will notify are still right (`Checked`).

## 5. What is only model-checked

* Liveness: `LeaseIsSettled`, `RetryIsServed`, `DeadlineIsApplied`, `HalfOpenEnds`, `EventReachesSite`,
  `RequestIsAnswered`, `EveryoneFinishes`, `IntentIsCarriedOut`, `MailIsCollected`. TLAPS does not
  reason about fairness.
* `UnknownIsResolvable`, `GatewaySchemaFits` and `SnapshotsAdvance`, which the code violates.
* The decision table of `DeliveryDecision` has no theorem of its own: its operators are used, and
  expanded, in the proofs about `DeliveryQueue`.

All other properties of the runs, that is all safety properties that hold, are proved.

## 6. Where the code and what is written about it disagree

1. `delivery_odd_reply` (code). A RCPT reply that is neither 25x, 4xx nor 5xx is recorded TEMP_FAILED
   in `attempt_recipients` (`smtpclient/client.go:332`), while `Decide` makes the recipient
   DELIVERY_UNKNOWN once another recipient's body was started (`delivery/decision.go:63`).
   `ResolveUnknown` wants the attempt's record to be UNKNOWN too (`queue/manual.go:70`), so it refuses every
   resolution and the message stays frozen. `docs/operations.md:122` promises that retries wait until
   an operator has resolved it.
2. `ownership_schema` (document). The gateway checks the schema (`cmd/relaytale/main.go:105`) before it
   takes migration admission (`main.go:113`), and not again. A migration in between leaves it on a
   schema it does not know. `docs/phase-9b1-migrations.md:28` says that an older binary refuses to
   start on a newer history. Auxiliary commands do it in the safe order, and are proved to.
3. `website_stamps` (document). The comment at `examples/website/site/site.go:194` says `snapshot_at`
   keeps older reads from overwriting newer snapshots. It is the time of BEGIN, and the snapshot is taken
   by the first query after it, so of two overlapping reads the one that began later may have the older
   state. What the site was notified of is shown all the same (`RefreshCoversInbox`, proved).

An observation that contradicts no document: `suppression.Apply` writes `may_have_delivered = false`
also for a recipient whose earlier UNKNOWN attempt an operator chose to repeat.
`PolicyEndsAreHonest` therefore allows SUPPRESSED after an acknowledged attempt.

## 7. Not modelled

* The administration API with its browser sessions and password changes, templates, business data,
  stream and expiry values: single transactions on rows that no other part changes, or pure validation.
* Database privileges, configuration, metrics, MIME inspection, development TLS, the test server,
  listings and statistics: they change no state the properties speak of.
* Cryptography, TLS, DNS, DSN and header parsing: a conversion there has the outcomes its caller tells
  apart. A key is a version, a ciphertext the version it was sealed with.
* Backoff and window arithmetic: a time has passed or not. The order in which fair selection offers
  candidates: any eligible one may be chosen.
* In parts marked *partly* in `PROJECT.json`, the note says which operations are missing.

## 8. Running

    tlc -workers 2 -config MCDelivery.cfg MCDelivery          # any run: its cfg and module
    tlapm DeliveryFenceProofs.tla                             # any proof module

The longest run takes three to four minutes on two cores, a proof module two to six minutes. In long
proof modules leaves name the prover that finds them quickly (`Zenon` or `SMT`).
