-------------------------- MODULE FeedbackCollector --------------------------
(***************************************************************************)
(* Collecting feedback mail (internal/feedback: Collect, initializeSource, *)
(* collectorAlert, saveCollected): one IMAP mailbox is read in UID order   *)
(* from a checkpoint in the database, each message in a transaction that   *)
(* stores its receipt, its evidence and the checkpoint.                    *)
(*                                                                         *)
(* The mailbox is the server's: mail arrives with growing UIDs, is removed *)
(* by others, the folder may be made anew under another UIDVALIDITY        *)
(* (epoch), also under one it had before, and a restore may lower UIDNEXT. *)
(* A read-only session sees one epoch; when the folder is replaced its     *)
(* next command fails.                                                     *)
(*                                                                         *)
(* All statements of a collector run on the connection that holds the      *)
(* source's advisory lock: who lost the lock has lost the database.  A     *)
(* reply to a commit that gets lost is the commit followed by Fails.       *)
(* Mail is a normal message of one unit of size, or empty, or oversized,   *)
(* or one whose body is oversized though its announced size is not; a body *)
(* that differs from the announced size in another way is a failure.       *)
(* Audit rows and the identity digest of a source, which is fixed here,    *)
(* are left out; a full evidence store (feedback_capacity) is a failure.   *)
(***************************************************************************)
EXTENDS Integers, FiniteSets, FiniteSetsExt

CONSTANTS
    Collectors, NoCollector,
    Batch,              \* UID slots per call
    MaxRecords,         \* CollectorMaxRecords, 10000 in the code
    MaxBytes,           \* CollectorMaxBytes, in units
    Kinds,              \* the kinds of mail that arrive
    MaxEpoch, MaxUid,   \* bounds on what the mail server does,
    MaxChanges,         \* and on its replacing and rolling back the folder
    MaxFaults           \* bound on errors, lost sessions and crashes

Epochs == 1 .. MaxEpoch
Outcomes == {"IMPORTED", "OVERSIZE", "EMPTY", "VANISHED"}
AlertKinds == {"UIDVALIDITY_CHANGED", "UIDNEXT_REGRESSED"}

ASSUME CollectorAssumption ==
    /\ Batch \in Nat \ {0} /\ MaxRecords \in Nat /\ MaxBytes \in Nat
    /\ Kinds \subseteq {"normal", "empty", "oversize", "understated"}
    /\ MaxEpoch \in Nat \ {0} /\ MaxUid \in Nat /\ MaxChanges \in Nat
    /\ MaxFaults \in Nat
    /\ NoCollector \notin Collectors

VARIABLES
    epoch,      \* UIDVALIDITY of the folder
    next,       \* UIDNEXT of the folder in each epoch
    mail,       \* what is in the folder of each epoch
    rolledBack, \* the epochs whose UIDNEXT went back
    changes,    \* how often the folder was replaced or rolled back
    source,     \* the row of feedback_imap_sources
    receipts, alerts,
    lock,       \* the collector whose session holds the source's lock
    collector,  \* a call of Collect
    faults

mailbox == <<epoch, next, mail, rolledBack, changes>>
records == <<receipts, alerts>>
collectorVars == <<mailbox, source, records, lock, collector, faults>>

NoSource == [exists |-> FALSE, epoch |-> 0, last |-> 0, records |-> 0, bytes |-> 0]
Idle == [pc |-> "idle", accept |-> 0, epoch |-> 0, next |-> 0, last |-> 0, end |-> 0,
         todo |-> {}, outcome |-> "none", alert |-> "none"]

Mail == [epoch : Epochs, uid : 1 .. MaxUid, kind : Kinds]

CollectorTypeOK ==
    /\ epoch \in Epochs /\ next \in [Epochs -> 1 .. MaxUid + 1]
    /\ mail \subseteq Mail /\ rolledBack \subseteq Epochs
    /\ changes \in 0 .. MaxChanges
    /\ source \in [exists : BOOLEAN, epoch : Epochs \cup {0}, last : 0 .. MaxUid,
                   records : Nat, bytes : Nat]
    /\ receipts \subseteq [epoch : Epochs, uid : 1 .. MaxUid, outcome : Outcomes]
    /\ alerts \subseteq [epoch : Epochs, kind : AlertKinds]
    /\ lock \in Collectors \cup {NoCollector}
    /\ collector \in [Collectors ->
            [pc : {"idle", "locked", "selected", "ready", "alert", "fetched", "saving"},
             accept : Epochs \cup {0}, epoch : Epochs \cup {0}, next : 0 .. MaxUid + 1,
             last : 0 .. MaxUid, end : 0 .. MaxUid, todo : SUBSET Mail,
             outcome : Outcomes \cup {"none"}, alert : AlertKinds \cup {"none"}]]
    /\ faults \in 0 .. MaxFaults

CollectorInit ==
    /\ epoch = 1 /\ next = [e \in Epochs |-> 1] /\ mail = {} /\ rolledBack = {} /\ changes = 0
    /\ source = NoSource /\ receipts = {} /\ alerts = {}
    /\ lock = NoCollector /\ collector = [c \in Collectors |-> Idle] /\ faults = 0

(***************************************************************************)
(* The mail server.                                                        *)
(***************************************************************************)
Arrive(kind) ==
    /\ next[epoch] <= MaxUid
    /\ mail' = mail \cup {[epoch |-> epoch, uid |-> next[epoch], kind |-> kind]}
    /\ next' = [next EXCEPT ![epoch] = @ + 1]
    /\ UNCHANGED <<epoch, rolledBack, changes, source, records, lock, collector, faults>>

Expunge(m) ==
    /\ m \in mail /\ mail' = mail \ {m}
    /\ UNCHANGED <<epoch, next, rolledBack, changes, source, records, lock, collector,
                   faults>>

Change == changes < MaxChanges /\ changes' = changes + 1

ReplaceFolder(e) ==
    /\ e # epoch /\ epoch' = e /\ Change
    /\ UNCHANGED <<next, mail, rolledBack, source, records, lock, collector, faults>>

RollBack(n) ==
    /\ n < next[epoch] /\ Change
    /\ next' = [next EXCEPT ![epoch] = n]
    /\ mail' = {m \in mail : m.epoch = epoch => m.uid < n}
    /\ rolledBack' = rolledBack \cup {epoch}
    /\ UNCHANGED <<epoch, source, records, lock, collector, faults>>

(***************************************************************************)
(* Collect.                                                                *)
(***************************************************************************)
Set(c, r) == collector' = [collector EXCEPT ![c] = r]
Finish(c) == Set(c, Idle) /\ lock' = IF lock = c THEN NoCollector ELSE lock

Connected(c) == lock = c

\* pg_try_advisory_lock; a collector that finds it taken is not heard of again.
\* accept is the UIDVALIDITY an operator acknowledges, 0 for none.
Start(c, accept) ==
    /\ collector[c].pc = "idle" /\ lock = NoCollector
    /\ lock' = c
    /\ Set(c, [Idle EXCEPT !.pc = "locked", !.accept = accept])
    /\ UNCHANGED <<mailbox, source, records, faults>>

SelectFolder(c) ==
    /\ collector[c].pc = "locked"
    /\ IF collector[c].accept \in {0, epoch}
       THEN /\ Set(c, [collector[c] EXCEPT !.pc = "selected", !.epoch = epoch,
                                           !.next = next[epoch]])
            /\ UNCHANGED lock
       ELSE Finish(c)
    /\ UNCHANGED <<mailbox, source, records, faults>>

Accepted(k) == k.accept = k.epoch

\* initializeSource: the row is made, or compared with the snapshot.
InitializeSource(c) ==
    /\ collector[c].pc = "selected" /\ Connected(c)
    /\ LET k == collector[c]
           made == IF source.exists THEN source
                   ELSE [NoSource EXCEPT !.exists = TRUE, !.epoch = k.epoch]
           reset == [made EXCEPT !.epoch = k.epoch, !.last = 0]
           row == IF made.epoch = k.epoch THEN made ELSE reset
       IN \/ /\ made.records >= MaxRecords
             /\ Finish(c) /\ UNCHANGED source
          \/ /\ made.records < MaxRecords /\ made.epoch # k.epoch /\ ~Accepted(k)
             /\ Set(c, [k EXCEPT !.pc = "alert", !.alert = "UIDVALIDITY_CHANGED"])
             /\ UNCHANGED <<lock, source>>
          \/ /\ made.records < MaxRecords /\ (made.epoch = k.epoch \/ Accepted(k))
             /\ source' = row
             /\ Set(c, [k EXCEPT !.pc = "ready", !.last = row.last])
             /\ UNCHANGED lock
    /\ UNCHANGED <<mailbox, records, faults>>

\* collectorAlert: recorded once, and charged like a message.
RaiseAlert(c) ==
    /\ collector[c].pc = "alert" /\ Connected(c)
    /\ LET a == [epoch |-> collector[c].epoch, kind |-> collector[c].alert] IN
       IF a \notin alerts /\ source.records < MaxRecords
       THEN /\ alerts' = alerts \cup {a}
            /\ source' = [source EXCEPT !.records = @ + 1]
       ELSE UNCHANGED <<alerts, source>>
    /\ Finish(c)
    /\ UNCHANGED <<mailbox, receipts, faults>>

\* Slip: the window reaches up to UIDNEXT itself.
WindowEndAtNext(k) == IF k.last + Batch >= k.next THEN k.next ELSE k.last + Batch
WindowEnd(k) == IF k.last + Batch >= k.next THEN k.next - 1 ELSE k.last + Batch

\* The window is chosen and its metadata fetched; nothing new ends the call.
FetchMetadata(c) ==
    /\ collector[c].pc = "ready"
    /\ LET k == collector[c] IN
       \/ /\ k.next <= k.last
          /\ Set(c, [k EXCEPT !.pc = "alert", !.alert = "UIDNEXT_REGRESSED"])
          /\ UNCHANGED lock
       \/ k.next > k.last /\ WindowEnd(k) = k.last /\ Finish(c)
       \/ /\ k.next > k.last /\ WindowEnd(k) > k.last /\ epoch = k.epoch
          /\ Set(c, [k EXCEPT !.pc = "fetched", !.end = WindowEnd(k), !.todo =
                {m \in mail : m.epoch = epoch /\ m.uid \in k.last + 1 .. WindowEnd(k)}])
          /\ UNCHANGED lock
    /\ UNCHANGED <<mailbox, source, records, faults>>

First(c) == CHOOSE m \in collector[c].todo : \A n \in collector[c].todo : m.uid <= n.uid

BodyIsFetched(m) == m.kind \in {"normal", "understated"}

\* The body of the next message, unless its size alone decides.
FetchBody(c) ==
    /\ collector[c].pc = "fetched" /\ collector[c].todo # {}
    /\ LET m == First(c) IN
       \E outcome \in Outcomes :
        /\ \/ m.kind = "oversize" /\ outcome = "OVERSIZE"
           \/ m.kind = "empty" /\ outcome = "EMPTY"
           \/ /\ BodyIsFetched(m) /\ epoch = m.epoch
              /\ outcome = IF m \notin mail THEN "VANISHED"
                           ELSE IF m.kind = "normal" THEN "IMPORTED" ELSE "OVERSIZE"
        /\ Set(c, [collector[c] EXCEPT !.pc = "saving", !.outcome = outcome])
    /\ UNCHANGED <<mailbox, source, records, lock, faults>>

Units(outcome) == IF outcome = "IMPORTED" THEN 1 ELSE 0

\* Slip: a message of an epoch accepted again is charged again.
FirstSeenAlways(r) == TRUE
FirstSeen(r) == \A q \in receipts : q.epoch # r.epoch \/ q.uid # r.uid

\* saveCollected: receipt, evidence and checkpoint, or the checkpoint alone when
\* the receipt is there.  Out of capacity the transaction is rolled back.
SaveCollected(c) ==
    /\ collector[c].pc = "saving" /\ Connected(c)
    /\ LET k == collector[c]
           m == First(c)
           r == [epoch |-> k.epoch, uid |-> m.uid, outcome |-> k.outcome]
           done == [k EXCEPT !.pc = "fetched", !.last = m.uid, !.todo = @ \ {m},
                             !.outcome = "none"]
           fits == /\ source.records < MaxRecords
                   /\ source.bytes + Units(k.outcome) <= MaxBytes
       IN \/ /\ ~FirstSeen(r) /\ source' = [source EXCEPT !.last = m.uid]
             /\ Set(c, done) /\ UNCHANGED <<receipts, lock>>
          \/ /\ FirstSeen(r) /\ fits
             /\ source' = [source EXCEPT !.last = m.uid, !.records = @ + 1,
                                         !.bytes = @ + Units(k.outcome)]
             /\ receipts' = receipts \cup {r}
             /\ Set(c, done) /\ UNCHANGED lock
          \/ FirstSeen(r) /\ ~fits /\ Finish(c) /\ UNCHANGED <<source, receipts>>
    /\ UNCHANGED <<mailbox, alerts, faults>>

\* Slip: the checkpoint stays at the last message that was seen.
WindowDoneStays(c) ==
    /\ collector[c].pc = "fetched" /\ collector[c].todo = {} /\ Connected(c)
    /\ Finish(c)
    /\ UNCHANGED <<mailbox, source, records, faults>>
\* The checkpoint moves over the UIDs of the window nobody has.
WindowDone(c) ==
    /\ collector[c].pc = "fetched" /\ collector[c].todo = {} /\ Connected(c)
    /\ source' = [source EXCEPT !.last = collector[c].end]
    /\ Finish(c)
    /\ UNCHANGED <<mailbox, records, faults>>

Fault == faults < MaxFaults /\ faults' = faults + 1

\* The session ends while the program is busy with the mail server.
LockIsLost(c) ==
    /\ lock = c /\ lock' = NoCollector /\ Fault
    /\ UNCHANGED <<mailbox, source, records, collector>>

\* Any error of the network, the folder or the database, and the program's death.
Fails(c) ==
    /\ collector[c].pc # "idle" /\ Fault /\ Finish(c)
    /\ UNCHANGED <<mailbox, source, records>>

\* Errors that are bound to happen: the session is gone, the folder was replaced.
GivesUp(c) ==
    /\ LET k == collector[c] IN
       \/ k.pc # "idle" /\ lock # c
       \/ k.pc = "ready" /\ WindowEnd(k) > k.last /\ epoch # k.epoch
       \/ k.pc = "fetched" /\ k.todo # {} /\ BodyIsFetched(First(c)) /\ epoch # k.epoch
    /\ Finish(c)
    /\ UNCHANGED <<mailbox, source, records, faults>>

Step(c) ==
    \/ SelectFolder(c) \/ InitializeSource(c) \/ RaiseAlert(c) \/ FetchMetadata(c)
    \/ FetchBody(c) \/ SaveCollected(c) \/ WindowDone(c) \/ GivesUp(c)

CollectorNext ==
    \/ \E kind \in Kinds : Arrive(kind)
    \/ \E m \in mail : Expunge(m)
    \/ \E e \in Epochs : ReplaceFolder(e)
    \/ \E n \in 1 .. MaxUid : RollBack(n)
    \/ \E c \in Collectors :
        \/ \E accept \in Epochs \cup {0} : Start(c, accept)
        \/ Step(c) \/ LockIsLost(c) \/ Fails(c)

CollectorSpec == CollectorInit /\ [][CollectorNext]_collectorVars

(***************************************************************************)
(* Fairness: collect-feedback repeats its calls (and is started again when *)
(* one of them fails), whatever calls of an operator come between; and a   *)
(* call executes its statements.                                           *)
(***************************************************************************)
CollectorFairSpec ==
    CollectorSpec /\ \A c \in Collectors : SF_collectorVars(Start(c, 0)) /\ WF_collectorVars(Step(c))

(***************************************************************************)
(* Properties.                                                             *)
(***************************************************************************)
Receipted(m) == \E r \in receipts : r.epoch = m.epoch /\ r.uid = m.uid

\* The checkpoint never passes mail that was not recorded: what is in the folder
\* below last_uid has its receipt, whichever call was cut short (saveCollected and
\* the final update of Collect).  Not after the server took back UIDs.
NothingSkipped ==
    \A m \in mail : m.epoch = source.epoch /\ m.epoch \notin rolledBack
                    /\ m.uid <= source.last => Receipted(m)

\* The counters of a source are what is stored for it, and within the quota; mail
\* of an epoch that is accepted again is not charged twice.
ChargesAgree ==
    /\ source.records = Cardinality(receipts) + Cardinality(alerts)
    /\ source.bytes = Cardinality({r \in receipts : r.outcome = "IMPORTED"})
    /\ source.records <= MaxRecords /\ source.bytes <= MaxBytes

Full == source.records >= MaxRecords \/ source.bytes >= MaxBytes

\* Mail that stays in the accepted folder is recorded in the end, over any gaps in
\* the UIDs, unless the source's quota is used up or the folder is not as it was.
MailIsCollected ==
    \A e \in Epochs, u \in 1 .. MaxUid :
        LET here == {m \in mail : m.epoch = e /\ m.uid = u} IN
        here # {} /\ source.epoch = e ~>
            here = {} \/ (\A m \in here : Receipted(m)) \/ Full \/ epoch # e
            \/ source.epoch # e \/ e \in rolledBack
==============================================================================
