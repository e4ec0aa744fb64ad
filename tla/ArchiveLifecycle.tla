--------------------------- MODULE ArchiveLifecycle ---------------------------
(***************************************************************************)
(* The life of an archived message file after Save: retention, which       *)
(* purges the file of a settled message (operations.Cleanup, run by hand   *)
(* or by the scheduler), and reclaim, which removes a file no message      *)
(* refers to (ObserveArchive, ReclaimArchive), against writers that are    *)
(* slow to enqueue, feedback that arrives meanwhile, lost connections,     *)
(* crashes and power failures.                                             *)
(*                                                                         *)
(* An archive has one writer and one id, the message's.  Disk: `visible'   *)
(* is what the directory shows, `durable' what survives a power failure; a *)
(* directory sync makes them equal.  A commit is one step: a commit whose  *)
(* reply is lost is a commit followed by the crash of the caller, since    *)
(* its locks stay with the server session until it is over.                *)
(*                                                                         *)
(* Left out: inventories and listings, which write nothing; audit rows;    *)
(* the purge of debug logs, one statement; hashes, a file is never changed.*)
(* Of the dependencies of an archive, ledger rows, feedback links and      *)
(* webhook rows belong to messages of the HTTP API only, which the first   *)
(* of them holds for ever.                                                 *)
(***************************************************************************)
EXTENDS Integers, FiniteSets

CONSTANTS
    Archives, Api,          \* those submitted over HTTP have a ledger row for ever
    Cleaners, Reclaimers,   \* calls of Cleanup and of ReclaimArchive
    MaxFailures,            \* bound on crashes, lost sessions and power failures
    MaxReports,             \* bound on feedback reports
    Nobody

ASSUME LifecycleAssumption ==
    /\ Api \subseteq Archives /\ MaxFailures \in Nat /\ MaxReports \in Nat
    /\ Nobody \notin Archives \cup Cleaners \cup {"report"} /\ "report" \notin Cleaners

VARIABLES
    writer,     \* how far the receiver of an archive is
    row,        \* archive_state of the message, "none" without a row
    settled,    \* terminal, idle and older than the retention period
    events,     \* the number of ARCHIVE_PURGED events of a message
    visible, durable,
    observed,   \* archive_observations: none, "fresh", or "aged" after 24 h
    retired, reclaimed,     \* archive_retirements, archive_reclaims
    feedback,   \* reports nobody reviewed; one may be in an open transaction
    gate,       \* who holds advisory lock 78320420
    cleanup,    \* whose session holds advisory lock 78320419
    cleaner,    \* per call of Cleanup: pc, the item, whether its session lives
    reclaimer,  \* per call of ReclaimArchive: pc, the item, what it inspected
    failures

files == <<visible, durable>>
messages == <<writer, row, settled, events>>
retention == <<feedback, gate, cleanup, cleaner>>
recovery == <<observed, retired, reclaimed, reclaimer>>
archiveVars == <<messages, files, retention, recovery, failures>>

IdleCleaner == [pc |-> "idle", item |-> Nobody, session |-> FALSE]
IdleReclaimer == [pc |-> "idle", item |-> Nobody, present |-> FALSE]

ArchiveTypeOK ==
    /\ writer \in [Archives -> {"start", "linked", "synced", "inserted", "done"}]
    /\ row \in [Archives -> {"none", "AVAILABLE", "PURGE_PENDING", "PURGED"}]
    /\ settled \subseteq {x \in Archives : row[x] # "none"}
    /\ events \in [Archives -> 0 .. 1]
    /\ visible \subseteq Archives /\ durable \subseteq Archives
    /\ observed \in [Archives -> {"none", "fresh", "aged"}]
    /\ reclaimed \subseteq retired /\ retired \subseteq Archives
    /\ feedback \in [open : BOOLEAN, unreviewed : BOOLEAN, reports : 0 .. MaxReports]
    /\ gate \in Cleaners \cup {"report", Nobody} /\ cleanup \in Cleaners \cup {Nobody}
    /\ cleaner \in [Cleaners ->
            [pc : {"idle", "chosen", "gated", "pending", "unlinked", "synced"},
             item : Archives \cup {Nobody}, session : BOOLEAN]]
    /\ reclaimer \in [Reclaimers ->
            [pc : {"idle", "inspected", "retired", "removed", "synced"},
             item : Archives \cup {Nobody}, present : BOOLEAN]]
    /\ failures \in 0 .. MaxFailures

ArchiveInit ==
    /\ writer = [x \in Archives |-> "start"] /\ row = [x \in Archives |-> "none"]
    /\ settled = {} /\ events = [x \in Archives |-> 0]
    /\ visible = {} /\ durable = {}
    /\ observed = [x \in Archives |-> "none"] /\ retired = {} /\ reclaimed = {}
    /\ feedback = [open |-> FALSE, unreviewed |-> FALSE, reports |-> 0]
    /\ gate = Nobody /\ cleanup = Nobody
    /\ cleaner = [c \in Cleaners |-> IdleCleaner]
    /\ reclaimer = [o \in Reclaimers |-> IdleReclaimer]
    /\ failures = 0

(***************************************************************************)
(* The writer: Save, then the transaction that inserts the message.        *)
(***************************************************************************)
Link(x) ==
    /\ writer[x] = "start"
    /\ writer' = [writer EXCEPT ![x] = "linked"] /\ visible' = visible \cup {x}
    /\ UNCHANGED <<row, settled, events, durable, retention, recovery, failures>>

SyncWritten(x) ==
    /\ writer[x] = "linked"
    /\ writer' = [writer EXCEPT ![x] = "synced"] /\ durable' = visible
    /\ UNCHANGED <<row, settled, events, visible, retention, recovery, failures>>

NotRetired(x) == x \notin retired

\* The insert holds its lock on the table messages until its transaction ends.
Insert(x) ==
    /\ writer[x] = "synced" /\ NotRetired(x)
    /\ writer' = [writer EXCEPT ![x] = "inserted"]
    /\ UNCHANGED <<row, settled, events, files, retention, recovery, failures>>

CommitMessage(x) ==
    /\ writer[x] = "inserted"
    /\ writer' = [writer EXCEPT ![x] = "done"] /\ row' = [row EXCEPT ![x] = "AVAILABLE"]
    /\ UNCHANGED <<settled, events, files, retention, recovery, failures>>

\* Any error, the death of the process, a rejected insert: the file stays.
WriterFails(x) ==
    /\ writer[x] \in {"linked", "synced", "inserted"}
    /\ writer' = [writer EXCEPT ![x] = "done"]
    /\ UNCHANGED <<row, settled, events, files, retention, recovery, failures>>

\* Delivery ends and the retention period passes.
Settle(x) ==
    /\ row[x] = "AVAILABLE" /\ x \notin settled
    /\ settled' = settled \cup {x}
    /\ UNCHANGED <<writer, row, events, files, retention, recovery, failures>>

(***************************************************************************)
(* Feedback reports hold every archive until they are reviewed.            *)
(***************************************************************************)
\* Slip: the trigger feedback_retention_gate is not there.
GateFreeUnchecked == ~feedback.open
GateFree == gate = Nobody

\* The insert takes the gate and keeps it until its transaction ends.
InsertReport ==
    /\ GateFree /\ feedback.reports < MaxReports
    /\ gate' = "report"
    /\ feedback' = [feedback EXCEPT !.open = TRUE, !.reports = @ + 1]
    /\ UNCHANGED <<messages, files, recovery, cleanup, cleaner, failures>>

\* The report's transaction commits or rolls back.
EndReport ==
    /\ feedback.open
    /\ gate' = IF gate = "report" THEN Nobody ELSE gate
    /\ \E committed \in BOOLEAN :
        feedback' = [feedback EXCEPT !.open = FALSE, !.unreviewed = @ \/ committed]
    /\ UNCHANGED <<messages, files, recovery, cleanup, cleaner, failures>>

ReviewReports ==
    /\ feedback.unreviewed
    /\ feedback' = [feedback EXCEPT !.unreviewed = FALSE]
    /\ UNCHANGED <<messages, files, recovery, gate, cleanup, cleaner, failures>>

(***************************************************************************)
(* Cleanup: one item of a run.                                             *)
(***************************************************************************)
\* Slip: a report also holds intents that are committed.
CandidateHeld(x) ==
    /\ row[x] \in {"AVAILABLE", "PURGE_PENDING"}
    /\ x \in settled /\ x \notin Api /\ ~feedback.unreviewed
\* retentionCandidate, as a snapshot sees it.  The row of a committed intent stays
\* terminal: retention_message_gate refuses to reactivate it.
Candidate(x) ==
    \/ row[x] = "AVAILABLE" /\ x \in settled /\ x \notin Api /\ ~feedback.unreviewed
    \/ row[x] = "PURGE_PENDING"

Move(c, where) == cleaner' = [cleaner EXCEPT ![c].pc = where]

MayClean == cleanup = Nobody

\* The run takes its lock and lists its candidates.
StartCleanup(c, x) ==
    /\ cleaner[c].pc = "idle" /\ MayClean
    /\ Candidate(x)
    /\ cleanup' = c
    /\ cleaner' = [cleaner EXCEPT ![c] = [pc |-> "chosen", item |-> x, session |-> TRUE]]
    /\ UNCHANGED <<messages, files, recovery, feedback, gate, failures>>

\* The run ends: its lock is given back.
Finished(c) ==
    /\ cleaner' = [cleaner EXCEPT ![c] = IdleCleaner]
    /\ cleanup' = IF cleanup = c THEN Nobody ELSE cleanup

TakeGate(c) ==
    /\ cleaner[c].pc = "chosen" /\ cleaner[c].session /\ gate = Nobody
    /\ gate' = c /\ Move(c, "gated")
    /\ UNCHANGED <<messages, files, recovery, feedback, cleanup, failures>>

\* The message is locked and looked at again; the intent commits, or the purge of
\* this item fails.
Intend(c) ==
    /\ cleaner[c].pc = "gated" /\ cleaner[c].session
    /\ gate' = Nobody
    /\ LET x == cleaner[c].item IN
       IF Candidate(x)
       THEN /\ row' = [row EXCEPT ![x] = "PURGE_PENDING"]
            /\ Move(c, "pending") /\ UNCHANGED cleanup
       ELSE Finished(c) /\ UNCHANGED row
    /\ UNCHANGED <<writer, settled, events, files, recovery, feedback, failures>>

Unlink(c) ==
    /\ cleaner[c].pc = "pending"
    /\ visible' = visible \ {cleaner[c].item} /\ Move(c, "unlinked")
    /\ UNCHANGED <<messages, durable, recovery, feedback, gate, cleanup, failures>>

\* Slip: the directory is not synced before the purge is recorded.
SyncPurgedSkipped(c) ==
    /\ cleaner[c].pc = "unlinked"
    /\ Move(c, "synced")
    /\ UNCHANGED <<messages, files, recovery, feedback, gate, cleanup, failures>>
SyncPurged(c) ==
    /\ cleaner[c].pc = "unlinked"
    /\ durable' = visible /\ Move(c, "synced")
    /\ UNCHANGED <<messages, visible, recovery, feedback, gate, cleanup, failures>>

\* The update is conditional, the event is not.
Complete(c) ==
    /\ cleaner[c].pc = "synced" /\ cleaner[c].session
    /\ LET x == cleaner[c].item IN
       /\ row' = [row EXCEPT ![x] = IF @ = "PURGE_PENDING" THEN "PURGED" ELSE @]
       /\ events' = [events EXCEPT ![x] = @ + 1]
    /\ Finished(c)
    /\ UNCHANGED <<writer, settled, files, recovery, feedback, gate, failures>>

\* A call whose session is gone fails at its next statement.
CleanupFails(c) ==
    /\ cleaner[c].pc \in {"chosen", "gated", "synced"} /\ ~cleaner[c].session
    /\ Finished(c)
    /\ UNCHANGED <<messages, files, recovery, feedback, gate, failures>>

Fail == failures < MaxFailures /\ failures' = failures + 1

\* The session ends and its locks with it; the program may go on with the files.
CleanerLosesSession(c) ==
    /\ cleaner[c].session /\ Fail
    /\ cleaner' = [cleaner EXCEPT ![c].session = FALSE]
    /\ cleanup' = IF cleanup = c THEN Nobody ELSE cleanup
    /\ gate' = IF gate = c THEN Nobody ELSE gate
    /\ UNCHANGED <<messages, files, recovery, feedback>>

CleanerDies(c) ==
    /\ cleaner[c].pc # "idle" /\ Fail
    /\ Finished(c) /\ gate' = IF gate = c THEN Nobody ELSE gate
    /\ UNCHANGED <<messages, files, recovery, feedback>>

(***************************************************************************)
(* ObserveArchive and ReclaimArchive.                                      *)
(***************************************************************************)
Referenced(x) == row[x] # "none"

Observe(x) ==
    /\ observed[x] = "none" /\ x \in visible /\ ~Referenced(x)
    /\ observed' = [observed EXCEPT ![x] = "fresh"]
    /\ UNCHANGED <<messages, files, retention, retired, reclaimed, reclaimer, failures>>

ObservationAges(x) ==
    /\ observed[x] = "fresh"
    /\ observed' = [observed EXCEPT ![x] = "aged"]
    /\ UNCHANGED <<messages, files, retention, retired, reclaimed, reclaimer, failures>>

Go(o, where) == reclaimer' = [reclaimer EXCEPT ![o].pc = where]

\* A missing file is accepted only when the archive is retired already.
Inspect(o, x) ==
    /\ reclaimer[o].pc = "idle" /\ observed[x] = "aged"
    /\ x \in visible \/ x \in retired
    /\ reclaimer' = [reclaimer EXCEPT ![o] =
            [pc |-> "inspected", item |-> x, present |-> x \in visible]]
    /\ UNCHANGED <<messages, files, retention, observed, retired, reclaimed, failures>>

\* Slip: the lock on the table messages does not wait for open inserts.
TableLockedAtOnce == TRUE
TableLocked == \A x \in Archives : writer[x] # "inserted"

\* Under the table lock the references are checked and the retirement commits.
Retire(o) ==
    /\ reclaimer[o].pc = "inspected" /\ TableLocked
    /\ LET x == reclaimer[o].item IN
       IF Referenced(x)
       THEN reclaimer' = [reclaimer EXCEPT ![o] = IdleReclaimer] /\ UNCHANGED retired
       ELSE retired' = retired \cup {x} /\ Go(o, "retired")
    /\ UNCHANGED <<messages, files, retention, observed, reclaimed, failures>>

\* A file that was there is inspected again and removed; another call may remove
\* it before the inspection, which then fails, or after it.
Remove(o) ==
    /\ reclaimer[o].pc = "retired"
    /\ LET x == reclaimer[o].item IN
       \/ /\ reclaimer[o].present /\ x \notin visible
          /\ reclaimer' = [reclaimer EXCEPT ![o] = IdleReclaimer]
          /\ UNCHANGED visible
       \/ /\ visible' = IF reclaimer[o].present THEN visible \ {x} ELSE visible
          /\ Go(o, "removed")
    /\ UNCHANGED <<messages, durable, retention, observed, retired, reclaimed, failures>>

SyncReclaimed(o) ==
    /\ reclaimer[o].pc = "removed"
    /\ durable' = visible /\ Go(o, "synced")
    /\ UNCHANGED <<messages, visible, retention, observed, retired, reclaimed, failures>>

RecordReclaim(o) ==
    /\ reclaimer[o].pc = "synced"
    /\ reclaimed' = reclaimed \cup {reclaimer[o].item}
    /\ reclaimer' = [reclaimer EXCEPT ![o] = IdleReclaimer]
    /\ UNCHANGED <<messages, files, retention, observed, retired, failures>>

ReclaimerDies(o) ==
    /\ reclaimer[o].pc # "idle" /\ Fail
    /\ reclaimer' = [reclaimer EXCEPT ![o] = IdleReclaimer]
    /\ UNCHANGED <<messages, files, retention, observed, retired, reclaimed>>

\* The host loses power: what was not synced is as before or as it was shown.
\* An open insert is over as well; the transaction of a report is elsewhere.
PowerLoss(after) ==
    /\ visible # durable /\ Fail
    /\ durable \cap visible \subseteq after /\ after \subseteq durable \cup visible
    /\ visible' = after /\ durable' = after
    /\ writer' = [x \in Archives |-> IF writer[x] = "start" THEN "start" ELSE "done"]
    /\ cleaner' = [c \in Cleaners |-> IdleCleaner] /\ cleanup' = Nobody
    /\ gate' = IF gate = "report" THEN gate ELSE Nobody
    /\ reclaimer' = [o \in Reclaimers |-> IdleReclaimer]
    /\ UNCHANGED <<row, settled, events, feedback, observed, retired, reclaimed>>

CleanStep(c) ==
    \/ \E x \in Archives : StartCleanup(c, x)
    \/ TakeGate(c) \/ Intend(c) \/ Unlink(c) \/ SyncPurged(c) \/ Complete(c)
    \/ CleanupFails(c)

ReclaimStep(o) == Retire(o) \/ Remove(o) \/ SyncReclaimed(o) \/ RecordReclaim(o)

ArchiveNext ==
    \/ \E x \in Archives :
        \/ Link(x) \/ SyncWritten(x) \/ Insert(x) \/ CommitMessage(x) \/ WriterFails(x)
        \/ Settle(x) \/ Observe(x) \/ ObservationAges(x)
    \/ InsertReport \/ EndReport \/ ReviewReports
    \/ \E c \in Cleaners : CleanStep(c) \/ CleanerLosesSession(c) \/ CleanerDies(c)
    \/ \E o \in Reclaimers :
        ReclaimStep(o) \/ ReclaimerDies(o) \/ \E x \in Archives : Inspect(o, x)
    \/ \E after \in SUBSET Archives : PowerLoss(after)

ArchiveSpec == ArchiveInit /\ [][ArchiveNext]_archiveVars

(***************************************************************************)
(* Fairness: the scheduler starts cleanups again and again and they run    *)
(* (operations.Run), transactions of reports end.  Failures are bounded by *)
(* MaxFailures: a host that crashes in every purge completes none.         *)
(***************************************************************************)
ArchiveFairSpec ==
    /\ ArchiveSpec /\ WF_archiveVars(EndReport) /\ \A c \in Cleaners : WF_archiveVars(CleanStep(c))

(***************************************************************************)
(* Properties.                                                             *)
(***************************************************************************)
\* A message that is AVAILABLE has its file, on disk for good: reclaim never takes
\* the file of a message, however slow its writer was, and retention none before
\* its intent is committed.
AvailableHasFile ==
    \A x \in Archives : row[x] = "AVAILABLE" => x \in visible \cap durable

\* What is recorded as gone is gone and does not come back after a power failure:
\* PURGED messages and reclaimed archives have no file.
GoneIsGone ==
    \A x \in Archives :
        row[x] = "PURGED" \/ x \in reclaimed => x \notin visible \cup durable

\* A new intent is committed only for a settled message without ledger row, when
\* no committed report waits for review (retentionDependencies after the locks).
IntentRespectsHolds ==
    [][\A x \in Archives : row[x] = "AVAILABLE" /\ row'[x] = "PURGE_PENDING" =>
        x \in settled /\ x \notin Api /\ ~feedback.unreviewed /\ ~feedback.open]_archiveVars

\* A committed intent is carried out, whatever crashed between the intent, the
\* unlink and the completion, and although reports may wait for review by then.
IntentIsCarriedOut == \A x \in Archives : row[x] = "PURGE_PENDING" ~> row[x] = "PURGED"
===============================================================================
