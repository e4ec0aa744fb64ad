-------------------------------- MODULE Recovery --------------------------------
(***************************************************************************)
(* Backup, restore, verify-restore (internal/recovery) and the rotation of *)
(* provider keys (internal/encryption), with the loss of power at any      *)
(* point and with the operator's steps between them.                       *)
(*                                                                         *)
(* One installation: a database, a storage root, a bundle and the keyring. *)
(* At most one command runs at a time and none beside a gateway: that is   *)
(* RuntimeOwnership's Exclusion.  The operator asserts with --offline that *)
(* every other writer has stopped; a backup does not rely on it: writers   *)
(* that were left behind go on receiving and purging messages.             *)
(*                                                                         *)
(* A file is whole, partial (cut short, so that its digest differs) or     *)
(* none.  What has not been synced is loose: a loss of power may cut it    *)
(* short or lose it.                                                       *)
(***************************************************************************)
EXTENDS Integers, FiniteSets

CONSTANTS
    Messages,
    Providers,      \* the rows of providers, each with an encrypted credential
    KeyBound,       \* bound: versions of the master key
    LossBound       \* bound: losses of power and of the installation

\* The entries of a bundle have names of their own.
ASSUME RecoveryAssumption == Messages \cap {"dump", "manifest"} = {}

VARIABLES
    db,         \* the committed tables, or NoDatabase
    eml,        \* the archive files in the storage root
    gate,       \* the file .restore-pending in the root: none, loose or synced
    bundle,     \* the bundle directory
    loose,      \* its entries that are not synced
    command,    \* the running command, and where it is
    keyring,    \* the key versions the programs are configured with
    rotated,    \* the version of the last rotation that reported success
    gateway,    \* stopped, started (past CheckStartup) or working
    completed,  \* history: backup reported success for this bundle
    unreleased, \* history: the tables come from a restore nobody has released
    losses

recoveryVars == <<db, eml, gate, bundle, loose, command, keyring, rotated, gateway,
                  completed, unreleased, losses>>

Legacy == 1         \* the version of a key without one
Versions == Legacy .. KeyBound
Active(ring) == CHOOSE v \in ring : \A w \in ring : w <= v

Contents == {"none", "partial", "whole"}
\* sound: the schema is the program's and every consistency query of verify finds
\* nothing.  A purge is an intent first, then the file goes, then it is recorded.
Tables == [rows : [Messages -> {"none", "AVAILABLE", "PURGING", "PURGED"}],
           keys : [Providers -> Versions], sound : BOOLEAN]
NoDatabase == [rows |-> [m \in Messages |-> "none"], keys |-> [p \in Providers |-> 0],
               sound |-> FALSE]

NoFiles == [m \in Messages |-> "none"]
NoBundle == [exists |-> FALSE, dump |-> NoDatabase, files |-> NoFiles,
             manifest |-> "none", listed |-> {}]
NoCommand == [at |-> "none", snapshot |-> NoDatabase, left |-> {}]

At(step) == command.at = step

RecoveryTypeOK ==
    /\ db \in Tables \cup {NoDatabase}
    /\ eml \in [Messages -> Contents]
    /\ gate \in {"none", "loose", "synced"}
    /\ bundle \in [exists : BOOLEAN, dump : Tables \cup {NoDatabase},
                   files : [Messages -> Contents], manifest : {"none", "whole"},
                   listed : SUBSET Messages]
    /\ loose \subseteq {"dump", "manifest"} \cup Messages
    /\ command.at \in {"none", "locked", "live", "made", "copying", "checked", "named",
                       "accepted", "gated", "restoring", "loaded"}
    /\ keyring \in SUBSET Versions \ {{}} /\ rotated \in 0 .. KeyBound
    /\ gateway \in {"stopped", "started", "working"}
    /\ completed \in BOOLEAN /\ unreleased \in BOOLEAN
    /\ losses \in 0 .. LossBound

RecoveryInit ==
    /\ db \in {t \in Tables : /\ \A m \in Messages : t.rows[m] \in {"none", "AVAILABLE"}
                              /\ \A p \in Providers : t.keys[p] = Legacy}
    /\ eml = [m \in Messages |-> IF db.rows[m] = "AVAILABLE" THEN "whole" ELSE "none"]
    /\ gate = "none"
    /\ bundle = NoBundle /\ loose = {}
    /\ command = NoCommand
    /\ keyring = {Legacy} /\ rotated = 0
    /\ gateway = "stopped"
    /\ completed = FALSE /\ unreleased = FALSE
    /\ losses = 0

(***************************************************************************)
(* Writers: the gateway, or what was left of one.  Statements wait for a   *)
(* backup's table locks, files do not.                                     *)
(***************************************************************************)
\* Slip: the tables are not locked.
MayWriteUnlocked == db # NoDatabase
MayWrite == db # NoDatabase /\ command.snapshot = NoDatabase

\* Writers that were left behind end with the first loss.
Writing == gateway = "working" \/ losses = 0

WriterFrame == UNCHANGED <<gate, bundle, loose, command, keyring, rotated, gateway, completed,
                           unreleased, losses>>

\* The file is linked and synced before the row commits.
Link(m) ==
    /\ Writing /\ db # NoDatabase /\ db.rows[m] = "none" /\ eml[m] = "none"
    /\ eml' = [eml EXCEPT ![m] = "whole"]
    /\ UNCHANGED db /\ WriterFrame

Accept(m) ==
    /\ Writing /\ MayWrite /\ db.rows[m] = "none" /\ eml[m] = "whole"
    /\ db' = [db EXCEPT !.rows[m] = "AVAILABLE"]
    /\ UNCHANGED eml /\ WriterFrame

Intend(m) ==
    /\ Writing /\ MayWrite /\ db.rows[m] = "AVAILABLE"
    /\ db' = [db EXCEPT !.rows[m] = "PURGING"]
    /\ UNCHANGED eml /\ WriterFrame

Unlink(m) ==
    /\ Writing /\ db.rows[m] = "PURGING" /\ eml[m] # "none"
    /\ eml' = [eml EXCEPT ![m] = "none"]
    /\ UNCHANGED db /\ WriterFrame

Purged(m) ==
    /\ Writing /\ MayWrite /\ db.rows[m] = "PURGING" /\ eml[m] = "none"
    /\ db' = [db EXCEPT !.rows[m] = "PURGED"]
    /\ UNCHANGED eml /\ WriterFrame

(***************************************************************************)
(* verify: consistency queries, and every AVAILABLE archive by its digest. *)
(***************************************************************************)
Verified(t, files) ==
    t.sound /\ \A m \in Messages : t.rows[m] = "AVAILABLE" => files[m] = "whole"

(***************************************************************************)
(* Backup.                                                                 *)
(***************************************************************************)
CommandFrame == UNCHANGED <<db, eml, gate, keyring, rotated, gateway, unreleased, losses>>
Goto(step) == command' = [command EXCEPT !.at = step]

\* The gate is absent, all tables are locked, and then the snapshot is exported.
BackupLock ==
    /\ At("none") /\ gateway # "working" /\ db # NoDatabase /\ gate = "none"
    /\ command' = [at |-> "locked", snapshot |-> db, left |-> Messages]
    /\ UNCHANGED <<bundle, loose, completed>> /\ CommandFrame

BackupVerify ==
    /\ At("locked") /\ Verified(db, eml)
    /\ Goto("live")
    /\ UNCHANGED <<bundle, loose, completed>> /\ CommandFrame

\* os.Mkdir refuses a bundle that exists.
BackupMkdir ==
    /\ At("live") /\ ~bundle.exists
    /\ bundle' = [NoBundle EXCEPT !.exists = TRUE]
    /\ Goto("made")
    /\ UNCHANGED <<loose, completed>> /\ CommandFrame

\* pg_dump of the exported snapshot; the file is synced, its name is not yet.
BackupDump ==
    /\ At("made")
    /\ bundle' = [bundle EXCEPT !.dump = command.snapshot]
    /\ loose' = loose \cup {"dump"}
    /\ Goto("copying")
    /\ UNCHANGED completed /\ CommandFrame

\* Slip: copied files are not synced.
CopiedLoosely(m) == loose \cup {m}
\* copyFile syncs the file and, with its directory, all directories above.
Copied(m) == loose \ {"dump"}

\* WalkDir comes to m: its file is copied, if there is one.  A file that goes away
\* under the copy is an error (CommandFails).
BackupCopy(m) ==
    /\ At("copying") /\ m \in command.left
    /\ command' = [command EXCEPT !.left = @ \ {m}]
    /\ IF eml[m] = "none" THEN UNCHANGED <<bundle, loose>>
       ELSE /\ bundle' = [bundle EXCEPT !.files[m] = eml[m], !.listed = @ \cup {m}]
            /\ loose' = Copied(m)
    /\ UNCHANGED completed /\ CommandFrame

\* The copied bytes, against the tables that are still locked.
BackupRecheck ==
    /\ At("copying") /\ command.left = {} /\ Verified(db, bundle.files)
    /\ Goto("checked")
    /\ UNCHANGED <<bundle, loose, completed>> /\ CommandFrame

\* The manifest is written under another name, synced and renamed;
BackupManifest ==
    /\ At("checked")
    /\ bundle' = [bundle EXCEPT !.manifest = "whole"]
    /\ loose' = loose \cup {"manifest"}
    /\ Goto("named")
    /\ UNCHANGED completed /\ CommandFrame

\* its directory is synced, and the command ends.
BackupDone ==
    /\ At("named")
    /\ loose' = loose \ {"dump", "manifest"}
    /\ completed' = TRUE
    /\ command' = NoCommand
    /\ UNCHANGED bundle /\ CommandFrame

\* VerifyBundle: everything the manifest lists is there with its digest, and
\* nothing else is.
Accepted ==
    /\ bundle.manifest = "whole" /\ bundle.dump # NoDatabase
    /\ \A m \in Messages :
        IF m \in bundle.listed THEN bundle.files[m] = "whole" ELSE bundle.files[m] = "none"

(***************************************************************************)
(* Restore, to an empty database and an empty root.                        *)
(***************************************************************************)
\* The operator keeps all programs stopped (--offline).
RestoreBegin ==
    /\ At("none") /\ gateway = "stopped" /\ Accepted
    /\ db = NoDatabase /\ eml = NoFiles /\ gate = "none"
    /\ Goto("accepted")
    /\ UNCHANGED <<db, eml, gate, bundle, loose, keyring, rotated, gateway, completed, unreleased,
                   losses>>

RestoreGate ==
    /\ At("accepted")
    /\ gate' = "loose"
    /\ Goto("gated")
    /\ UNCHANGED <<db, eml, bundle, loose, keyring, rotated, gateway, completed, unreleased, losses>>

\* Slip: the marker is left to the operating system.
GateKept == gate
\* The marker and the root are synced.
GateSynced == "synced"

RestoreGateSync ==
    /\ At("gated")
    /\ gate' = GateSynced
    /\ command' = [command EXCEPT !.at = "restoring", !.left = bundle.listed]
    /\ UNCHANGED <<db, eml, bundle, loose, keyring, rotated, gateway, completed, unreleased, losses>>

\* The copy is compared with the manifest; it is synced.
RestoreCopy(m) ==
    /\ At("restoring") /\ m \in command.left /\ bundle.files[m] = "whole"
    /\ eml' = [eml EXCEPT ![m] = "whole"]
    /\ command' = [command EXCEPT !.left = @ \ {m}]
    /\ UNCHANGED <<db, gate, bundle, loose, keyring, rotated, gateway, completed, unreleased, losses>>

\* pg_restore in a single transaction.  It may have committed when it fails.
RestoreLoad ==
    /\ At("restoring") /\ command.left = {}
    /\ db' = bundle.dump
    /\ unreleased' = TRUE
    /\ Goto("loaded")
    /\ UNCHANGED <<eml, gate, bundle, loose, keyring, rotated, gateway, completed, losses>>

RestoreDone ==
    /\ At("loaded")
    /\ command' = NoCommand
    /\ UNCHANGED <<db, eml, gate, bundle, loose, keyring, rotated, gateway, completed, unreleased,
                   losses>>

\* A command ends early with an error, or dies; what it made stays.
CommandFails ==
    /\ ~At("none")
    /\ command' = NoCommand
    /\ \/ UNCHANGED <<bundle, eml>>
       \/ \E m \in command.left :
            \/ /\ At("copying") /\ eml[m] # "none"
               /\ bundle' = [bundle EXCEPT !.files[m] = "partial"]
               /\ UNCHANGED eml
            \/ /\ At("restoring")
               /\ eml' = [eml EXCEPT ![m] = "partial"]
               /\ UNCHANGED bundle
    /\ UNCHANGED <<db, gate, loose, keyring, rotated, gateway, completed, unreleased, losses>>

\* Every credential opens with the configured keys.
Opens(t) == t # NoDatabase /\ \A p \in Providers : t.keys[p] \in keyring

\* verify-restore succeeds, and the operator removes the gate.  A rotation from
\* before the restore no longer counts.
VerifyAndRelease ==
    /\ At("none") /\ gateway = "stopped" /\ gate # "none"
    /\ Verified(db, eml) /\ Opens(db)
    /\ gate' = "none" /\ unreleased' = FALSE /\ rotated' = 0
    /\ UNCHANGED <<db, eml, bundle, loose, command, keyring, gateway, completed, losses>>

(***************************************************************************)
(* RotateProviders, one transaction: every credential is opened, and those *)
(* of other versions are sealed again with the active one.                 *)
(***************************************************************************)
\* Slip: only the first credential is sealed again.
ResealedOne == LET p == CHOOSE p \in Providers : TRUE IN [db.keys EXCEPT ![p] = Active(keyring)]
Resealed == [p \in Providers |-> Active(keyring)]

\* The active version is not the legacy one.  The commit may be reported as a
\* failure.
RotateProviders ==
    /\ At("none") /\ gateway = "stopped" /\ Opens(db) /\ Active(keyring) # Legacy
    /\ db' = [db EXCEPT !.keys = Resealed]
    /\ rotated' \in {rotated, Active(keyring)}
    /\ UNCHANGED <<eml, gate, bundle, loose, command, keyring, gateway, completed,
                   unreleased, losses>>

\* The operator configures a new key beside the others,
AddKey ==
    /\ gateway = "stopped" /\ Active(keyring) < KeyBound
    /\ keyring' = keyring \cup {Active(keyring) + 1}
    /\ UNCHANGED <<db, eml, gate, bundle, loose, command, rotated, gateway, completed,
                   unreleased, losses>>

\* and removes the others after a rotation to it that reported success.
RemoveKeys ==
    /\ gateway = "stopped" /\ rotated = Active(keyring)
    /\ keyring' = {Active(keyring)}
    /\ UNCHANGED <<db, eml, gate, bundle, loose, command, rotated, gateway, completed,
                   unreleased, losses>>

(***************************************************************************)
(* The gateway, and loss.                                                  *)
(***************************************************************************)
\* CheckStartup comes first.  The operator starts nothing before a restore has
\* its gate.
CheckStartup ==
    /\ gateway = "stopped" /\ gate = "none" /\ ~At("accepted")
    /\ gateway' = "started"
    /\ UNCHANGED <<db, eml, gate, bundle, loose, command, keyring, rotated, completed, unreleased,
                   losses>>

\* The schema fits, and no command owns the database.
AcquireRuntime ==
    /\ gateway = "started" /\ db # NoDatabase /\ At("none")
    /\ gateway' = "working"
    /\ UNCHANGED <<db, eml, gate, bundle, loose, command, keyring, rotated, completed, unreleased,
                   losses>>

GatewayStops ==
    /\ gateway # "stopped"
    /\ gateway' = "stopped"
    /\ UNCHANGED <<db, eml, gate, bundle, loose, command, keyring, rotated, completed, unreleased,
                   losses>>

\* What is left of a loose file.
Remains(x, c) == IF x \in loose /\ c # "none" THEN Contents ELSE {c}

PowerLoss ==
    /\ losses < LossBound
    /\ losses' = losses + 1
    /\ gateway' = "stopped" /\ command' = NoCommand
    /\ gate' \in (IF gate = "loose" THEN {"none", "synced"} ELSE {gate})
    /\ \E files \in [Messages -> Contents], dump \in {NoDatabase, bundle.dump},
          manifest \in {"none", bundle.manifest} :
        /\ \A m \in Messages : files[m] \in Remains(m, bundle.files[m])
        /\ "dump" \notin loose => dump = bundle.dump
        /\ "manifest" \notin loose => manifest = bundle.manifest
        /\ bundle' = [bundle EXCEPT !.files = files, !.dump = dump, !.manifest = manifest]
    /\ loose' = {}
    /\ UNCHANGED <<db, eml, keyring, rotated, completed, unreleased>>

\* The installation is lost, or the operator clears a failed restore away.
Lose ==
    /\ losses < LossBound
    /\ losses' = losses + 1
    /\ db' = NoDatabase /\ eml' = NoFiles /\ gate' = "none"
    /\ gateway' = "stopped" /\ command' = NoCommand
    /\ unreleased' = FALSE
    /\ UNCHANGED <<bundle, loose, keyring, rotated, completed>>

\* The operator removes a bundle.
Discard ==
    /\ At("none") /\ bundle.exists /\ db # NoDatabase
    /\ bundle' = NoBundle /\ loose' = {} /\ completed' = FALSE
    /\ UNCHANGED <<db, eml, gate, command, keyring, rotated, gateway, unreleased, losses>>

RecoveryNext ==
    \/ \E m \in Messages : Link(m) \/ Accept(m) \/ Intend(m) \/ Unlink(m) \/ Purged(m)
    \/ BackupLock \/ BackupVerify \/ BackupMkdir \/ BackupDump
    \/ \E m \in Messages : BackupCopy(m)
    \/ BackupRecheck \/ BackupManifest \/ BackupDone
    \/ RestoreBegin \/ RestoreGate \/ RestoreGateSync
    \/ \E m \in Messages : RestoreCopy(m)
    \/ RestoreLoad \/ RestoreDone
    \/ CommandFails
    \/ VerifyAndRelease
    \/ RotateProviders \/ AddKey \/ RemoveKeys
    \/ CheckStartup \/ AcquireRuntime \/ GatewayStops
    \/ PowerLoss \/ Lose \/ Discard

RecoverySpec == RecoveryInit /\ [][RecoveryNext]_recoveryVars

(***************************************************************************)
(* Properties.                                                             *)
(***************************************************************************)
\* A bundle that VerifyBundle accepts holds the archive of every message its dump
\* has as AVAILABLE, although writers were left behind and power was lost (Backup:
\* locks before the snapshot, the manifest last).
BundleIsWhole == Accepted => Verified(bundle.dump, bundle.files)

\* A backup that reported success is accepted ever after: nothing of it is lost
\* with the power (copyFile, syncDir).
BackupSurvives == completed => Accepted

\* No gateway works on restored tables before an operator has verified and released
\* them, wherever the restore was interrupted (Marker, CheckStartup).
GateHolds == unreleased => gateway # "working"

\* A gateway that works can open every credential: after interrupted rotations,
\* removed keys, and restores from before a rotation (RotateProviders, VerifyRestored).
CredentialsOpen == gateway = "working" => Opens(db)
=================================================================================
