------------------------------ MODULE Submission ------------------------------
(***************************************************************************)
(* Accepting messages (internal/message, internal/storage): the HTTP path  *)
(* with its idempotency ledger, website and stream budgets, schedule       *)
(* capacity and replacement, and the SMTP path, which archives first and   *)
(* then enqueues.  One website identity; requests of different identities  *)
(* share nothing here.                                                     *)
(*                                                                         *)
(* A request is one call of Receive; a client that repeats a request is    *)
(* another member of Requests with the same key and fingerprint.  The      *)
(* message id of a request is the request itself.  The program and its     *)
(* transaction are separate: the program may give up while the server      *)
(* still holds, or later commits, what it was sent.  The per-key advisory  *)
(* lock lives on another connection than the transaction.                  *)
(*                                                                         *)
(* Ages stand for reserved_at: a reservation is in the last minute, hour,  *)
(* day, or older.  Validation, MIME headers and the limiter are left out;  *)
(* a request that fails them never gets here.  The identity is one of the  *)
(* production environment (a sandbox message takes the same path and is    *)
(* complete from the start).  Budgets do not change while requests run;    *)
(* an identity or stream that is disabled, a deadline that has passed and  *)
(* the byte total of scheduled messages are Denied, at any time.           *)
(***************************************************************************)
EXTENDS Integers, FiniteSets

CONSTANTS
    Requests, Existing,     \* new requests; ids of messages already accepted
    Keys, NoKey,            \* idempotency keys; NoKey marks an SMTP submission
    Streams,
    Asks,                   \* what a request may ask for
    Budget,                 \* the website's limit per window, 0 for none
    StreamBudget,           \* the same for each enabled stream
    ScheduleCap,            \* bound of admitSchedule, 100 in the code
    Nobody

Ids == Requests \cup Existing
Windows == {"minute", "hour", "day"}
ASSUME SubmissionAssumption ==
    /\ Requests \cap Existing = {} /\ Nobody \notin Ids /\ NoKey \notin Keys
    /\ \A a \in Asks :
        /\ a.key \in Keys \cup {NoKey} /\ a.stream \in Streams
        /\ a.units \in Nat \ {0} /\ a.scheduled \in BOOLEAN
        /\ a.replaces \in Existing \cup {Nobody}
        /\ a.key = NoKey => a.replaces = Nobody /\ ~a.scheduled
    /\ Budget \in [Windows -> Nat]
    /\ DOMAIN StreamBudget \subseteq Streams
    /\ \A s \in DOMAIN StreamBudget : StreamBudget[s] \in [Windows -> Nat]
    /\ ScheduleCap \in Nat

VARIABLES
    req,        \* what each request asks for; never changes
    pc,         \* where the program is with a request
    reply,      \* what the client was told
    keyLock,    \* the request whose connection holds the key's advisory lock
    tx,         \* its transaction, as the server sees it
    identity,   \* the transaction that holds the api_keys row lock
    ledger,     \* api_submission_ledger: the message of a key
    messages,   \* the committed messages
    age,        \* of a quota reservation, "none" when there is none
    cancelled,  \* cancelled_at of committed messages
    delivery,   \* what delivery has made of a message
    due,        \* schedule_at has passed
    linked,     \* the archive files in the directory
    durable     \* the archive files whose directory entry is synced

vars == <<req, pc, reply, keyLock, tx, identity, ledger, messages, age, cancelled, delivery,
          due, linked, durable>>
Keyed == {r \in Requests : req[r].key # NoKey}
database == <<ledger, messages, age, cancelled>>
world == <<delivery, due>>
disk == <<linked, durable>>

NoReply == [kind |-> "none", id |-> Nobody]
Accepted(id) == [kind |-> "accepted", id |-> id]
Replayed(id) == [kind |-> "replayed", id |-> id]
Refused(why) == [kind |-> why, id |-> Nobody]

TypeOK ==
    /\ req \in [Requests -> Asks]
    /\ pc \in [Requests -> {"start", "locked", "looked", "ledger", "cancelling",
                            "reserved", "linked", "published", "committing", "done"}]
    /\ reply \in [Requests ->
            [kind : {"none", "accepted", "replayed", "conflict", "busy", "refused", "error"},
             id : Ids \cup {Nobody}]]
    /\ keyLock \in [Keys -> Keyed \cup {Nobody}]
    /\ tx \in [Requests -> {"none", "open", "committing", "committed", "aborted"}]
    /\ identity \in Keyed \cup {Nobody}
    /\ ledger \in [Keys -> Keyed \cup {Nobody}]
    /\ messages \subseteq Ids
    /\ age \in [Requests -> {"none", "minute", "hour", "day", "old"}]
    /\ cancelled \subseteq messages
    /\ delivery \in [Ids -> {"queued", "claimed", "sent", "suppressed"}]
    /\ due \subseteq Requests
    /\ linked \subseteq Ids /\ durable \subseteq linked

Init ==
    /\ req \in [Requests -> Asks]
    /\ pc = [r \in Requests |-> "start"] /\ reply = [r \in Requests |-> NoReply]
    /\ keyLock = [k \in Keys |-> Nobody] /\ tx = [r \in Requests |-> "none"]
    /\ identity = Nobody
    /\ ledger = [k \in Keys |-> Nobody]
    /\ messages = Existing /\ age = [r \in Requests |-> "none"]
    /\ cancelled = {} /\ delivery = [m \in Ids |-> "queued"]
    /\ due = {r \in Requests : ~req[r].scheduled}
    /\ linked = Existing /\ durable = Existing

Key(r) == req[r].key
Live(r) == tx[r] \in {"open", "committing"}

\* cancelPendingTx reads its target FOR UPDATE, after the identity row: the
\* transaction that has the one has the other, until it ends.
RowLocked(m) == identity # Nobody /\ req[identity].replaces = m

Answer(r, a) ==
    /\ reply' = [reply EXCEPT ![r] = a]
    /\ pc' = [pc EXCEPT ![r] = "done"]

Goto(r, where) == pc' = [pc EXCEPT ![r] = where] /\ UNCHANGED reply

\* Slip: the identity lock outlives its transaction.
RollbackKeepsIdentity(r) ==
    /\ tx' = [tx EXCEPT ![r] = IF Live(r) THEN "aborted" ELSE @]
    /\ age' = [age EXCEPT ![r] = IF Live(r) THEN "none" ELSE @]
    /\ UNCHANGED <<identity, ledger, messages, cancelled>>
\* What the server does when a transaction of r ends without commit.
Rollback(r) ==
    /\ tx' = [tx EXCEPT ![r] = IF Live(r) THEN "aborted" ELSE @]
    /\ identity' = IF identity = r THEN Nobody ELSE identity
    /\ age' = [age EXCEPT ![r] = IF Live(r) THEN "none" ELSE @]
    /\ UNCHANGED <<ledger, messages, cancelled>>

(***************************************************************************)
(* The HTTP path: ReceiveReplacing and enqueueIdempotent.                  *)
(***************************************************************************)
\* pg_try_advisory_lock of the key.
LockKey(r) ==
    /\ r \in Keyed /\ pc[r] = "start"
    /\ IF keyLock[Key(r)] = Nobody
       THEN keyLock' = [keyLock EXCEPT ![Key(r)] = r] /\ Goto(r, "locked")
       ELSE Answer(r, Refused("busy")) /\ UNCHANGED keyLock
    /\ UNCHANGED <<tx, identity, database, world, disk>>

\* The unlock at the end, or the end of the connection at any time.
UnlockKey(r) ==
    /\ r \in Keyed /\ keyLock[Key(r)] = r
    /\ keyLock' = [keyLock EXCEPT ![Key(r)] = Nobody]
    /\ UNCHANGED <<pc, reply, tx, identity, database, world, disk>>

\* The answer when the ledger has the key already.
Original(r) ==
    IF req[ledger[Key(r)]].print = req[r].print
    THEN Replayed(ledger[Key(r)]) ELSE Refused("conflict")

\* The ledger is read under the key lock, before an id is made.
Lookup(r) ==
    /\ pc[r] = "locked"
    /\ IF ledger[Key(r)] = Nobody THEN Goto(r, "looked") ELSE Answer(r, Original(r))
    /\ UNCHANGED <<keyLock, tx, identity, database, world, disk>>

\* INSERT ... ON CONFLICT DO NOTHING waits for an uncommitted row of the key.
InsertLedger(r) ==
    /\ pc[r] = "looked"
    /\ \A q \in Keyed : Key(q) = Key(r) => ~Live(q)
    /\ IF ledger[Key(r)] = Nobody
       THEN tx' = [tx EXCEPT ![r] = "open"] /\ Goto(r, "ledger")
       ELSE Answer(r, Original(r)) /\ UNCHANGED tx
    /\ UNCHANGED <<keyLock, identity, database, world, disk>>

\* cancelPendingTx for a replacement, after the identity row is locked.
\* Only production messages of the API; active leases are refused.
Cancellable(m) ==
    m \in (messages \cap (Existing \cup Keyed)) \ cancelled /\ delivery[m] = "queued"

\* Slip: the target is not looked at again under its lock.
CancelTargetAnyState(r) ==
    /\ pc[r] = "ledger" /\ tx[r] = "open" /\ req[r].replaces # Nobody
    /\ identity = Nobody
    /\ identity' = r /\ Goto(r, "cancelling")
    /\ UNCHANGED <<tx, keyLock, database, world, disk>>
CancelTarget(r) ==
    /\ pc[r] = "ledger" /\ tx[r] = "open" /\ req[r].replaces # Nobody
    /\ identity = Nobody
    /\ IF Cancellable(req[r].replaces)
       THEN identity' = r /\ Goto(r, "cancelling") /\ UNCHANGED <<tx, database>>
       ELSE Answer(r, Refused("refused")) /\ Rollback(r)
    /\ UNCHANGED <<keyLock, world, disk>>

\* What CancelTarget and Reserve refuse for other reasons, under the same lock.
Denied(r) ==
    /\ pc[r] \in {"ledger", "cancelling"} /\ tx[r] = "open" /\ identity \in {Nobody, r}
    /\ Answer(r, Refused("refused")) /\ Rollback(r)
    /\ UNCHANGED <<keyLock, world, disk>>

\* Sums over the committed reservations of the window; the identity lock keeps
\* uncommitted ones of others from existing.
InWindow(m, w) ==
    CASE w = "minute" -> age[m] = "minute"
      [] w = "hour"   -> age[m] \in {"minute", "hour"}
      [] w = "day"    -> age[m] \in {"minute", "hour", "day"}
UnitsOf(rows) == UNION {{m} \X (1 .. req[m].units) : m \in rows}
Used(rows, w) == Cardinality(UnitsOf({m \in rows : InWindow(m, w)}))
Reserved == messages \cap Keyed
OfStream(s) == {m \in Reserved : req[m].stream = s}

Fits(limits, rows, units) ==
    \A w \in Windows : limits[w] > 0 => Used(rows, w) + units <= limits[w]

\* admitSchedule: the future messages that are not finished.
Future == {m \in (messages \cap Keyed) \ (cancelled \cup due) :
               delivery[m] \in {"queued", "claimed"}}

AdmitSchedule(r) ==
    req[r].scheduled => r \notin due /\ Cardinality(Future) < ScheduleCap

\* Every test of reserveSubmission, the website's limits before the stream's.
Admits(r) ==
    /\ AdmitSchedule(r)
    /\ Fits(Budget, Reserved, req[r].units)
    /\ req[r].stream \in DOMAIN StreamBudget
    /\ Fits(StreamBudget[req[r].stream], OfStream(req[r].stream), req[r].units)

\* Slip: the identity row is read without a lock.
MayReserveUnlocked(r) == tx[r] = "open"
\* SELECT ... FOR NO KEY UPDATE on the identity row.
MayReserve(r) == tx[r] = "open" /\ identity \in {Nobody, r}

\* reserveSubmission.
Reserve(r) ==
    /\ pc[r] = IF req[r].replaces = Nobody THEN "ledger" ELSE "cancelling"
    /\ r \in Keyed /\ MayReserve(r)
    /\ IF Admits(r)
       THEN /\ identity' = r /\ age' = [age EXCEPT ![r] = "minute"]
            /\ Goto(r, "reserved")
            /\ UNCHANGED <<tx, ledger, messages, cancelled>>
       ELSE Answer(r, Refused("refused")) /\ Rollback(r)
    /\ UNCHANGED <<keyLock, world, disk>>

(***************************************************************************)
(* LocalStore.Save, then the transaction that makes the message.           *)
(***************************************************************************)
\* The hard link that publishes the archive; for SMTP it comes first of all.
Link(r) ==
    /\ pc[r] = IF r \in Keyed THEN "reserved" ELSE "start"
    /\ linked' = linked \cup {r}
    /\ Goto(r, "linked")
    /\ UNCHANGED <<keyLock, tx, identity, database, world, durable>>

\* Slip: the archive directory is not synced.
SyncNothing(r) ==
    /\ pc[r] = "linked"
    /\ Goto(r, "published")
    /\ UNCHANGED <<keyLock, tx, identity, database, world, disk>>
SyncDirectory(r) ==
    /\ pc[r] = "linked"
    /\ durable' = durable \cup {r}
    /\ Goto(r, "published")
    /\ UNCHANGED <<keyLock, tx, identity, database, world, linked>>

\* enqueueTx, then the commit is sent.
Enqueue(r) ==
    /\ pc[r] = "published" /\ (r \in Keyed => tx[r] = "open")
    /\ tx' = [tx EXCEPT ![r] = "committing"]
    /\ Goto(r, "committing")
    /\ UNCHANGED <<keyLock, identity, database, world, disk>>

\* The server commits: ledger row, reservation, message and cancellation at once.
\* suppression.Apply may have suppressed every recipient.
CommitLands(r) ==
    /\ tx[r] = "committing"
    /\ tx' = [tx EXCEPT ![r] = "committed"]
    /\ identity' = IF identity = r THEN Nobody ELSE identity
    /\ ledger' = IF r \in Keyed THEN [ledger EXCEPT ![Key(r)] = r] ELSE ledger
    /\ messages' = messages \cup {r}
    /\ cancelled' = IF req[r].replaces = Nobody THEN cancelled
                    ELSE cancelled \cup {req[r].replaces}
    /\ \E d \in {"queued", "suppressed"} : delivery' = [delivery EXCEPT ![r] = d]
    /\ UNCHANGED <<pc, reply, keyLock, age, due, disk>>

\* The reply to the commit arrives.
Confirm(r) ==
    /\ pc[r] = "committing" /\ tx[r] = "committed"
    /\ Answer(r, Accepted(r))
    /\ UNCHANGED <<keyLock, tx, identity, database, world, disk>>

(***************************************************************************)
(* What goes wrong.                                                        *)
(***************************************************************************)
\* The server drops a transaction: its session ended, or a statement failed.
TransactionEnds(r) ==
    /\ Live(r) /\ Rollback(r)
    /\ UNCHANGED <<pc, reply, keyLock, world, disk>>

\* Slip: an error of the commit is answered like a success.
FailsAsAccepted(r) ==
    /\ pc[r] \notin {"start", "done"}
    /\ Answer(r, IF pc[r] = "committing" THEN Accepted(r) ELSE Refused("error"))
    /\ UNCHANGED <<keyLock, tx, identity, database, world, disk>>
\* Any error or timeout the program meets, and its death: the client has no
\* answer it can rely on, the archive stays where it is.
Fails(r) ==
    /\ pc[r] \notin {"start", "done"}
    /\ Answer(r, Refused("error"))
    /\ UNCHANGED <<keyLock, tx, identity, database, world, disk>>

\* The host of the archive loses power: programs die, unsynced entries may go.
PowerLoss(kept) ==
    /\ linked # durable /\ kept \subseteq linked \ durable
    /\ linked' = durable \cup kept
    /\ pc' = [r \in Requests |-> IF pc[r] = "start" THEN "start" ELSE "done"]
    /\ reply' = [r \in Requests |->
                    IF pc[r] \in {"start", "done"} THEN reply[r] ELSE Refused("error")]
    /\ UNCHANGED <<keyLock, tx, identity, database, world, durable>>

(***************************************************************************)
(* The rest of the system.                                                 *)
(***************************************************************************)
\* Postgres.CancelPending, the website's own cancellation: one transaction.
CancelPending(m) ==
    /\ identity = Nobody /\ Cancellable(m)
    /\ cancelled' = cancelled \cup {m}
    /\ UNCHANGED <<pc, reply, keyLock, tx, identity, ledger, messages, age, world, disk>>

\* A worker claims a message (Claim skips locked rows and waits for schedule_at),
\* puts it back after a failure before DATA, or sends it.
Deliver(m) ==
    /\ m \in messages \ cancelled /\ ~RowLocked(m)
    /\ \/ /\ delivery[m] = "queued" /\ (m \in Requests => m \in due)
          /\ delivery' = [delivery EXCEPT ![m] = "claimed"]
       \/ /\ delivery[m] = "claimed"
          /\ \E d \in {"queued", "sent"} : delivery' = [delivery EXCEPT ![m] = d]
    /\ UNCHANGED <<pc, reply, keyLock, tx, identity, database, due, disk>>

ScheduleFallsDue(r) ==
    /\ r \notin due
    /\ due' = due \cup {r}
    /\ UNCHANGED <<pc, reply, keyLock, tx, identity, database, delivery, disk>>

\* All reservations grow older together.
Older(a) == CASE a = "none" -> "none" [] a = "minute" -> "hour" [] a = "hour" -> "day"
              [] OTHER -> "old"
TimePasses ==
    /\ \E r \in Requests : age[r] \notin {"none", "old"}
    /\ age' = [r \in Requests |-> Older(age[r])]
    /\ UNCHANGED <<pc, reply, keyLock, tx, identity, ledger, messages, cancelled, world, disk>>

Step(r) ==
    \/ LockKey(r) \/ Lookup(r) \/ InsertLedger(r) \/ CancelTarget(r) \/ Denied(r)
    \/ Reserve(r) \/ Link(r) \/ SyncDirectory(r) \/ Enqueue(r) \/ CommitLands(r) \/ Confirm(r)

Next ==
    /\ UNCHANGED req
    /\ \/ \E r \in Requests : Step(r) \/ UnlockKey(r) \/ TransactionEnds(r) \/ Fails(r)
                              \/ ScheduleFallsDue(r)
       \/ \E m \in Ids : CancelPending(m) \/ Deliver(m)
       \/ \E kept \in SUBSET Requests : PowerLoss(kept)
       \/ TimePasses

Spec == Init /\ [][Next]_vars

(***************************************************************************)
(* Fairness: the program executes its statements; the server carries out a *)
(* commit it was sent, notices a program that is gone, and releases its    *)
(* locks.  Nothing is assumed of failures.                                 *)
(***************************************************************************)
Fairness ==
    \A r \in Requests :
        /\ WF_vars(UNCHANGED req /\ Step(r))
        /\ WF_vars(UNCHANGED req /\ pc[r] = "done" /\ UnlockKey(r))
        /\ WF_vars(UNCHANGED req /\ pc[r] = "done" /\ TransactionEnds(r))
        /\ WF_vars(UNCHANGED req /\ tx[r] = "aborted" /\ Fails(r))

FairSpec == Spec /\ Fairness

(***************************************************************************)
(* Properties.                                                             *)
(***************************************************************************)
\* ReceiveReplacing keeps what SubmissionPromise says of keys: the ledger row that
\* commits first stands for the key, a reply of success names it, and a request
\* that was turned away is not accepted by a commit that arrives late.
Promise == INSTANCE SubmissionPromise WITH
    asked <- req, accepted <- ledger,
    told <- [r \in Requests |-> IF r \in Keyed THEN reply[r] ELSE NoReply]
KeepsPromise == Promise!Spec

\* A message in the queue has its archive on disk, also after a power failure
\* (Receiver.Receive and ReceiveReplacing: Save returns before the insert).
MessageHasArchive == messages \subseteq linked

\* The committed reservations of every window respect the website's and the
\* stream's limit, and the scheduled messages that wait for their time the cap,
\* whatever requests ran concurrently (reserveSubmission, the schedule's lock).
LimitsHonoured ==
    /\ Cardinality(Future) <= ScheduleCap
    /\ \A w \in Windows :
        /\ Budget[w] > 0 => Used(Reserved, w) <= Budget[w]
        /\ \A s \in DOMAIN StreamBudget :
            StreamBudget[s][w] > 0 => Used(OfStream(s), w) <= StreamBudget[s][w]

\* A replacement and the message it replaces are never both sent, and at most one
\* replacement of a message is accepted (cancelPendingTx in the same transaction).
ReplacementIsExclusive ==
    \A r \in messages \cap Keyed : req[r].replaces # Nobody =>
        /\ req[r].replaces \in cancelled /\ delivery[req[r].replaces] = "queued"
        /\ \A q \in messages \cap Keyed : req[q].replaces = req[r].replaces => q = r

\* Every request is answered: the waits for ledger rows, for the identity row and
\* for the target's row form no cycle and are not left behind by a dead program.
RequestIsAnswered == \A r \in Requests : pc[r] = "locked" ~> pc[r] = "done"
===============================================================================
