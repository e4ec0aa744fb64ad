-------------------------------- MODULE Website --------------------------------
(***************************************************************************)
(* The reference website backend (examples/website): a submission is kept  *)
(* in the site's own database before the gateway is asked, signed          *)
(* notifications are committed to an inbox, and every one of them makes    *)
(* the site read the message's status, and its feedback in production,     *)
(* from the gateway again (internal/api: readMessageStatus,                *)
(* readWebsiteFeedback).                                                   *)
(*                                                                         *)
(* One submission, whose key the gateway honours (SubmissionPromise).  The *)
(* gateway's side is a version: the number of events of the message, of    *)
(* which accepting it is the first.  Two clients repeat the submission and *)
(* several Reconcile calls overlap (of site processes, or of one that was  *)
(* slow).  A read of the gateway is two steps, since snapshot_at is the    *)
(* time its transaction began and the snapshot is taken by the transac-    *)
(* tion's first query.  Only the order of these times matters: stamps has  *)
(* the calls in that order, oldest first, and Stored for the times in the  *)
(* site's row.                                                             *)
(*                                                                         *)
(* Every call may fail at any step, at the site, at the gateway or between *)
(* them; then it is made again.  Malformed requests change nothing.        *)
(***************************************************************************)
EXTENDS Integers, Sequences, FiniteSets

CONSTANTS
    MaxVersion,     \* bound: events of the message
    Clients,        \* callers of Submit with the key
    Other,          \* those of them who ask for something else with it
    Readers,        \* calls of Reconcile
    Production,     \* the environment is production, not sandbox
    MaxFailures,    \* bound: failures of the calls
    Stored

ASSUME WebsiteAssumption ==
    /\ MaxVersion \in Nat \ {0} /\ MaxFailures \in Nat /\ Production \in BOOLEAN
    /\ Other \subseteq Clients /\ Stored \notin Readers

VARIABLES
    version,    \* events of the message at the gateway, 0 before it is accepted
    site,       \* the row of relaytale_demo_submissions
    inbox,      \* relaytale_demo_inbox
    client,     \* where a call of Submit is
    reader,     \* where a call of Reconcile is, and what it has read
    stamps,     \* the order of snapshot_at and of feedback_at
    siteFailures

siteVars == <<version, site, inbox, client, reader, stamps, siteFailures>>

Kinds == IF Production THEN {"status", "feedback"} ELSE {"status"}
NotReading == [pc |-> "idle", revision |-> 0, read |-> [k \in Kinds |-> 0]]

SiteTypeOK ==
    /\ version \in 0 .. MaxVersion
    /\ site \in [exists : BOOLEAN, other : BOOLEAN, known : BOOLEAN,
                 revision : 0 .. MaxVersion, needsRefresh : BOOLEAN,
                 snapshot : [Kinds -> 0 .. MaxVersion]]
    /\ inbox \subseteq 1 .. MaxVersion
    /\ client \in [Clients -> {"idle", "kept", "posted", "done"}]
    /\ reader \in [Readers ->
            [pc : {"idle", "listed", "asked", "looking", "looked", "reading", "read"},
             revision : 0 .. MaxVersion, read : [Kinds -> 0 .. MaxVersion]]]
    /\ DOMAIN stamps = Kinds
    /\ siteFailures \in 0 .. MaxFailures

SiteInit ==
    /\ version = 0
    /\ site = [exists |-> FALSE, other |-> FALSE, known |-> FALSE, revision |-> 0,
               needsRefresh |-> TRUE, snapshot |-> [k \in Kinds |-> 0]]
    /\ inbox = {}
    /\ client = [c \in Clients |-> "idle"]
    /\ reader = [r \in Readers |-> NotReading]
    /\ stamps = [k \in Kinds |-> << >>]
    /\ siteFailures = 0

(***************************************************************************)
(* Submit: the row is kept, the gateway is asked, and its answer is kept.  *)
(***************************************************************************)
\* A key that was used for another request is a conflict.
Keep(c) ==
    /\ client[c] = "idle"
    /\ site' = IF site.exists THEN site
               ELSE [site EXCEPT !.exists = TRUE, !.other = c \in Other]
    /\ client' = [client EXCEPT ![c] = IF site'.other = (c \in Other) THEN "kept" ELSE "done"]
    /\ UNCHANGED <<version, inbox, reader, stamps, siteFailures>>

\* The gateway accepts the message, or answers with the one it has.  In the first
\* case the message's first event is captured: see the composition.
Post(c) ==
    /\ client[c] = "kept"
    /\ version' = IF version = 0 THEN 1 ELSE version
    /\ client' = [client EXCEPT ![c] = "posted"]
    /\ UNCHANGED <<site, inbox, reader, stamps, siteFailures>>

KeepAnswer(c) ==
    /\ client[c] = "posted"
    /\ site' = [site EXCEPT !.known = TRUE]
    /\ client' = [client EXCEPT ![c] = "done"]
    /\ UNCHANGED <<version, inbox, reader, stamps, siteFailures>>

(***************************************************************************)
(* receive: the notification of event e, once or more, early or late.      *)
(***************************************************************************)
Received(e) ==
    [site EXCEPT !.known = TRUE, !.revision = @ + 1, !.needsRefresh = TRUE]

Receive(e) ==
    /\ site.exists
    /\ inbox' = inbox \cup {e}
    /\ site' = IF e \in inbox THEN site ELSE Received(e)
    /\ UNCHANGED <<version, client, reader, stamps, siteFailures>>

(***************************************************************************)
(* Reconcile, called by ReconcilePending for rows marked needs_refresh.    *)
(***************************************************************************)
SetReader(r, k) == reader' = [reader EXCEPT ![r] = k]

Pending == site.needsRefresh /\ site.known

List(r) ==
    /\ reader[r].pc = "idle" /\ Pending
    /\ SetReader(r, [NotReading EXCEPT !.pc = "listed"])
    /\ UNCHANGED <<version, site, inbox, client, stamps, siteFailures>>

\* The mark is not looked at again.
Ask(r) ==
    /\ reader[r].pc = "listed"
    /\ SetReader(r, [NotReading EXCEPT !.pc = "asked", !.revision = site.revision])
    /\ UNCHANGED <<version, site, inbox, client, stamps, siteFailures>>

Without(s, r) == SelectSeq(s, LAMBDA x : x # r)

\* beginWebsiteRead: the time of the read is taken,
Begin(r, k) ==
    /\ \/ k = "status" /\ reader[r].pc = "asked"
       \/ k = "feedback" /\ reader[r].pc = "looked" /\ Production
    /\ stamps' = [stamps EXCEPT ![k] = Append(Without(@, r), r)]
    /\ SetReader(r, [reader[r] EXCEPT !.pc = IF k = "status" THEN "looking" ELSE "reading"])
    /\ UNCHANGED <<version, site, inbox, client, siteFailures>>

\* and then the snapshot, by the first query.
Snapshot(r, k, from, to) ==
    /\ reader[r].pc = from
    /\ SetReader(r, [reader[r] EXCEPT !.pc = to, !.read[k] = version])
    /\ UNCHANGED <<version, site, inbox, client, stamps, siteFailures>>

ReadStatus(r) == Snapshot(r, "status", "looking", IF Production THEN "looked" ELSE "read")
ReadFeedback(r) == Snapshot(r, "feedback", "reading", "read")

Place(s, x) == CHOOSE i \in DOMAIN s : s[i] = x
Has(s, x) == \E i \in DOMAIN s : s[i] = x

\* Slip: without a stored time (NULL) the comparison is not true.
NotOlderUnlessNull(r) ==
    \A k \in Kinds :
        Has(stamps[k], Stored) /\ Place(stamps[k], Stored) < Place(stamps[k], r)
\* Neither time is before the stored one.
NotOlder(r) ==
    \A k \in Kinds :
        Has(stamps[k], Stored) => Place(stamps[k], Stored) < Place(stamps[k], r)

\* Slip: the revision is not compared.
MayStoreUnfenced(r) == NotOlder(r)
MayStore(r) == site.revision = reader[r].revision /\ NotOlder(r)

\* The row's times become the call's.
Restamped(r) ==
    [k \in Kinds |->
        LET s == Without(stamps[k], Stored) IN
        [i \in DOMAIN s |-> IF s[i] = r THEN Stored ELSE s[i]]]

Forgotten(r) == [k \in Kinds |-> Without(stamps[k], r)]

\* The update, which concerns no row when the call is behind.
Store(r) ==
    /\ reader[r].pc = "read"
    /\ IF MayStore(r)
       THEN /\ site' = [site EXCEPT !.needsRefresh = FALSE, !.snapshot = reader[r].read]
            /\ stamps' = Restamped(r)
       ELSE site' = site /\ stamps' = Forgotten(r)
    /\ SetReader(r, NotReading)
    /\ UNCHANGED <<version, inbox, client, siteFailures>>

(***************************************************************************)
(* Failures: the call ends where it is, what it did stays.                 *)
(***************************************************************************)
SubmitFails(c) ==
    /\ client[c] \in {"kept", "posted"} /\ siteFailures < MaxFailures
    /\ client' = [client EXCEPT ![c] = "idle"]
    /\ siteFailures' = siteFailures + 1
    /\ UNCHANGED <<version, site, inbox, reader, stamps>>

ReconcileFails(r) ==
    /\ reader[r].pc # "idle" /\ siteFailures < MaxFailures
    /\ SetReader(r, NotReading)
    /\ stamps' = Forgotten(r)
    /\ siteFailures' = siteFailures + 1
    /\ UNCHANGED <<version, site, inbox, client>>

SubmitStep(c) == Keep(c) \/ Post(c) \/ KeepAnswer(c)
ReconcileStep(r) ==
    \/ List(r) \/ Ask(r) \/ (\E k \in Kinds : Begin(r, k))
    \/ ReadStatus(r) \/ ReadFeedback(r) \/ Store(r)

\* Another event of the message.
Happens == /\ version \in 1 .. MaxVersion - 1
           /\ version' = version + 1
           /\ UNCHANGED <<site, inbox, client, reader, stamps, siteFailures>>

\* The site alone: any notification of an event may come, at any time.
SiteNext ==
    \/ \E c \in Clients : SubmitStep(c) \/ SubmitFails(c)
    \/ \E r \in Readers : ReconcileStep(r) \/ ReconcileFails(r)
    \/ \E e \in 1 .. version : Receive(e)
    \/ Happens

SiteSpec == SiteInit /\ [][SiteNext]_siteVars

(***************************************************************************)
(* Properties.                                                             *)
(***************************************************************************)
\* A row that is not marked for a refresh shows everything the site was notified
\* of, in whatever order notifications and reads overlapped (Reconcile's revision).
RefreshCoversInbox ==
    site.exists /\ ~site.needsRefresh =>
        \A e \in inbox, k \in Kinds : site.snapshot[k] >= e

\* "snapshot_at also prevents concurrent older reads overwriting newer snapshots"
\* (the comment of Reconcile): what the row shows never goes back.
SnapshotsAdvance ==
    [][\A k \in Kinds : site'.snapshot[k] >= site.snapshot[k]]_siteVars
================================================================================
