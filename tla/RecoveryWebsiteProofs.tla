------------------------ MODULE RecoveryWebsiteProofs ------------------------
(***************************************************************************)
(* What two parts beside the mail path promise: backup, restore and rotation*)
(* (Recovery), and the outbox with the website (WebhookWebsite).           *)
(***************************************************************************)
EXTENDS Recovery, WebhookWebsite, TLAPS

(***************************************************************************)
(* Backup, restore and rotation, for any number of messages, providers, keys*)
(* and losses of power.                                                    *)
(*                                                                         *)
(* A command may end at any of its steps, so that the argument says of every*)
(* step what is on the disk by then: the gate before the tables, the       *)
(* archives before the manifest, the rotation before the old keys go.      *)
(***************************************************************************)
Database == [rows : [Messages -> {"none", "AVAILABLE", "PURGING", "PURGED"}],
             keys : [Providers -> Int], sound : BOOLEAN]
Bundle == [exists : BOOLEAN, dump : Database, files : [Messages -> Contents],
           manifest : {"none", "whole"}, listed : SUBSET Messages]
Command == [at : {"none", "locked", "live", "made", "copying", "checked", "named",
                  "accepted", "gated", "restoring", "loaded"},
            snapshot : Database, left : SUBSET Messages]

Types ==
    /\ db \in Database /\ eml \in [Messages -> Contents]
    /\ gate \in {"none", "loose", "synced"}
    /\ bundle \in Bundle /\ loose \subseteq {"dump", "manifest"}
    /\ command \in Command
    /\ keyring \in SUBSET (Nat \ {0}) /\ rotated \in Nat
    /\ gateway \in {"stopped", "started", "working"}
    /\ completed \in BOOLEAN /\ unreleased \in BOOLEAN

\* Restored tables are behind a gate that survives a loss of power, and no gateway
\* has passed it.
GateInv ==
    /\ unreleased => gate = "synced" /\ gateway = "stopped"
    /\ At("accepted") => gate = "none" /\ gateway = "stopped"
    /\ At("gated") => gate = "loose" /\ gateway = "stopped"
    /\ At("restoring") \/ At("loaded") => gate = "synced" /\ gateway = "stopped"

\* Tables in use open with the keys there are, and with the newest alone once a
\* rotation to it has reported success.
HasNewest(ring) == \E v \in ring : \A w \in ring : w <= v

KeyInv ==
    /\ HasNewest(keyring) /\ rotated <= Active(keyring)
    /\ ~unreleased /\ db # NoDatabase =>
        /\ \A p \in Providers : db.keys[p] \in keyring
        /\ rotated = Active(keyring) => \A p \in Providers : db.keys[p] = rotated
    /\ gateway = "working" => db # NoDatabase

\* A file cut short by a restore is never beside tables.
RestoreInv ==
    /\ \A m \in Messages : eml[m] = "partial" => db = NoDatabase
    /\ command.at \in {"accepted", "gated", "restoring"} =>
        db = NoDatabase /\ \A m \in Messages : eml[m] # "partial"

\* Listed and whole, or not there.
Fits(m) == IF m \in bundle.listed THEN bundle.files[m] = "whole" ELSE bundle.files[m] = "none"

\* A backup's tables are locked; what it has put into the bundle fits them.
BackupInv ==
    /\ command.at \in {"locked", "live", "made", "copying", "checked", "named"} =>
        command.snapshot = db /\ db # NoDatabase
    /\ command.at \in {"locked", "live", "made"} => command.left = Messages
    /\ command.at \in {"made", "copying", "checked", "named"} => ~completed /\ bundle.exists
    /\ command.at \in {"made", "copying", "checked"} => bundle.manifest = "none"
    /\ At("made") => bundle.files = NoFiles /\ bundle.listed = {}
    /\ command.at \in {"copying", "checked", "named"} => bundle.dump = command.snapshot
    /\ At("copying") => \A m \in Messages :
            IF m \in command.left THEN bundle.files[m] = "none" /\ m \notin bundle.listed
            ELSE Fits(m)
    /\ command.at \in {"checked", "named"} =>
            (\A m \in Messages : Fits(m)) /\ Verified(db, bundle.files)
    /\ At("named") => bundle.manifest = "whole"

\* A manifest is of a whole bundle; only its dump may still be lost, and not after
\* the command has reported success.
BundleInv ==
    /\ bundle.manifest = "whole" /\ bundle.dump # NoDatabase =>
            Verified(bundle.dump, bundle.files)
    /\ completed => Accepted /\ loose = {} /\ bundle.exists

RecoveryInv == Types /\ GateInv /\ KeyInv /\ RestoreInv /\ BackupInv /\ BundleInv

\* The invariant implies the four properties.
LEMMA RecoverySuffices == RecoveryInv => BundleIsWhole /\ BackupSurvives /\ GateHolds /\ CredentialsOpen
  BY Zenon DEF RecoveryInv, Types, GateInv, KeyInv, BundleInv, BundleIsWhole, BackupSurvives, GateHolds,
         CredentialsOpen, Accepted, Opens

\* The newest key of a ring that has one, and the one after it.
LEMMA NewestKey ==
    ASSUME NEW ring \in SUBSET (Nat \ {0}), HasNewest(ring)
    PROVE  /\ Active(ring) \in ring /\ \A w \in ring : w <= Active(ring)
           /\ Active(ring) \in Nat \ {0} /\ Active(ring) + 1 \in Nat \ {0}
           /\ \A w \in ring : w <= Active(ring) + 1
  <1>1. Active(ring) \in ring /\ \A w \in ring : w <= Active(ring)
    BY Zenon DEF HasNewest, Active
  <1>2. ASSUME NEW a \in ring, \A w \in ring : w <= a
        PROVE  a \in Nat \ {0} /\ a + 1 \in Nat \ {0} /\ \A w \in ring : w <= a + 1
    <2>1. \A w \in ring : w \in Nat \ {0}
      OBVIOUS
    <2> QED BY <1>2, <2>1
  <1> QED BY Zenon, <1>1, <1>2

\* What is not there has its type.
LEMMA Nothing ==
    /\ NoDatabase \in Database
    /\ NoFiles \in [Messages -> Contents]
    /\ NoCommand \in Command /\ NoCommand.at = "none"
    /\ NoBundle \in Bundle /\ NoBundle.manifest = "none"
  <1>1. NoDatabase \in Database
    BY DEF NoDatabase, Database
  <1>2. NoFiles \in [Messages -> Contents]
    BY Zenon DEF NoFiles, Contents
  <1>3. NoCommand \in Command /\ NoCommand.at = "none"
    BY Zenon, <1>1 DEF NoCommand, Command
  <1>4. NoBundle \in Bundle /\ NoBundle.manifest = "none"
    BY Zenon, <1>1, <1>2 DEF NoBundle, Bundle
  <1> QED BY <1>1, <1>2, <1>3, <1>4, Zenon

\* An installation before its first backup.
LEMMA RecoveryInitially == RecoveryInit => RecoveryInv
  <1> SUFFICES ASSUME RecoveryInit PROVE RecoveryInv
    OBVIOUS
  <1>1. db \in Database /\ \A p \in Providers : db.keys[p] = 1
    <2>1. db \in Tables /\ \A p \in Providers : db.keys[p] = 1
      BY Zenon DEF RecoveryInit, Legacy
    <2>2. Versions \subseteq Int
      BY DEF Versions, Legacy
    <2> QED BY Zenon, <2>1, <2>2 DEF Tables, Database
  <1>2. eml \in [Messages -> Contents] /\ \A m \in Messages : eml[m] # "partial"
    BY Zenon DEF RecoveryInit, Contents
  <1>3. /\ keyring = {1} /\ rotated = 0 /\ gateway = "stopped" /\ gate = "none"
        /\ bundle = NoBundle /\ loose = {} /\ command = NoCommand
        /\ completed = FALSE /\ unreleased = FALSE
    BY Zenon DEF RecoveryInit, Legacy
  <1>4. Types
    <2>1. {1} \in SUBSET (Nat \ {0}) /\ 0 \in Nat
      OBVIOUS
    <2> QED BY <1>1, <1>2, <1>3, <2>1, Nothing, Zenon DEF Types
  <1>5. GateInv /\ RestoreInv /\ BackupInv /\ BundleInv
    BY Zenon, <1>2, <1>3, Nothing DEF GateInv, RestoreInv, BackupInv, BundleInv, At
  <1>6. HasNewest(keyring)
    BY <1>3 DEF HasNewest
  <1>7. Active(keyring) = 1
    BY Zenon, <1>3, <1>4, <1>6, NewestKey DEF Types
  <1>8. KeyInv
    BY <1>1, <1>3, <1>6, <1>7 DEF KeyInv
  <1> QED BY Zenon, <1>4, <1>5, <1>8 DEF RecoveryInv

(***************************************************************************)
(* The steps.                                                              *)
(***************************************************************************)
\* Writers wait for the tables, and do without a command.
LEMMA WriterSafe ==
    ASSUME RecoveryInv, NEW m \in Messages, Link(m) \/ Accept(m) \/ Intend(m) \/ Unlink(m) \/ Purged(m)
    PROVE  RecoveryInv'
  <1> USE DEF RecoveryInv, Types, GateInv, KeyInv, RestoreInv, BackupInv, BundleInv, At, WriterFrame,
              MayWrite, Verified, Accepted, Fits, Database, Command, Contents, NoDatabase
  <1>1. CASE Link(m)
    BY <1>1 DEF Link
  <1>2. CASE Accept(m)
    BY <1>2 DEF Accept
  <1>3. CASE Intend(m)
    BY <1>3 DEF Intend
  <1>4. CASE Unlink(m)
    BY <1>4 DEF Unlink
  <1>5. CASE Purged(m)
    BY <1>5 DEF Purged
  <1> QED BY Zenon, <1>1, <1>2, <1>3, <1>4, <1>5

\* A command that has dealt with one of its messages.
LEMMA LessLeft ==
    ASSUME NEW c \in Command, NEW m
    PROVE  LET x == [c EXCEPT !.left = @ \ {m}] IN
           /\ x \in Command /\ x.left = c.left \ {m}
           /\ x.at = c.at /\ x.snapshot = c.snapshot
  BY Zenon DEF Command

\* What is copied is listed, and whole: beside tables no file is cut short.
LEMMA BackupCopySafe == ASSUME RecoveryInv, NEW m \in Messages, BackupCopy(m) PROVE RecoveryInv'
  <1>0. bundle \in Bundle /\ command \in Command /\ command.at = "copying" /\ m \in command.left
    BY Zenon DEF RecoveryInv, Types, BackupCopy, At
  <1>1. /\ command' \in Command /\ command'.left = command.left \ {m}
        /\ command'.at = command.at /\ command'.snapshot = command.snapshot
    BY Zenon, <1>0, LessLeft DEF BackupCopy
  <1>2. UNCHANGED completed /\ CommandFrame
    BY Zenon DEF BackupCopy
  <1> USE DEF RecoveryInv, Types, GateInv, KeyInv, RestoreInv, BackupInv, BundleInv, At, CommandFrame,
              Verified, Accepted, Fits
  <1>3. CASE eml[m] = "none"
    <2>1. UNCHANGED <<bundle, loose>>
      BY Zenon, <1>3 DEF BackupCopy
    <2> QED BY <1>0, <1>1, <1>2, <2>1
  <1>4. CASE eml[m] # "none"
    <2>1. eml[m] = "whole" /\ "whole" \in Contents
      BY Zenon, <1>0, <1>4 DEF Contents
    <2>2. /\ bundle' = [bundle EXCEPT !.files[m] = "whole", !.listed = bundle.listed \cup {m}]
          /\ loose' \subseteq loose /\ bundle.listed \cup {m} \in SUBSET Messages
      BY <1>0, <1>4, <2>1 DEF BackupCopy, Copied, Bundle
    <2>3. /\ bundle' \in Bundle /\ bundle'.files = [bundle.files EXCEPT ![m] = "whole"]
          /\ bundle'.listed = bundle.listed \cup {m} /\ bundle'.exists = bundle.exists
          /\ bundle'.manifest = bundle.manifest /\ bundle'.dump = bundle.dump
      <3> HIDE DEF RecoveryInv
      <3>1. bundle' \in Bundle
        BY Zenon, <1>0, <2>1, <2>2 DEF Bundle
      <3>2. bundle'.files = [bundle.files EXCEPT ![m] = "whole"]
        BY Zenon, <1>0, <2>1, <2>2 DEF Bundle
      <3>3. /\ bundle'.listed = bundle.listed \cup {m} /\ bundle'.exists = bundle.exists
            /\ bundle'.manifest = bundle.manifest /\ bundle'.dump = bundle.dump
        BY Zenon, <1>0, <2>1, <2>2 DEF Bundle
      <3> QED BY Zenon, <3>1, <3>2, <3>3
    <2>4. bundle.files \in [Messages -> Contents]
      BY Zenon, <1>0 DEF Bundle
    <2>5. BackupInv'
      BY <1>0, <1>1, <1>2, <2>3, <2>4
    <2> QED BY <1>0, <1>1, <1>2, <2>2, <2>3, <2>4, <2>5
  <1> QED BY Zenon, <1>3, <1>4

\* A backup puts the archives into the bundle before the manifest, and reports
\* success when nothing is loose.
LEMMA BackupSafe ==
    ASSUME RecoveryInv,
           \/ BackupLock \/ BackupVerify \/ BackupMkdir \/ BackupDump
           \/ \E m \in Messages : BackupCopy(m)
           \/ BackupRecheck \/ BackupManifest \/ BackupDone
    PROVE  RecoveryInv'
  <1> USE DEF RecoveryInv, Types, GateInv, KeyInv, RestoreInv, BackupInv, BundleInv, At, Goto,
              CommandFrame, Verified, Accepted, Fits, Bundle, Command
  <1>1. CASE BackupLock
    BY <1>1 DEF BackupLock
  <1>2. CASE BackupVerify
    BY <1>2 DEF BackupVerify
  <1>3. CASE BackupMkdir
    <2>1. /\ bundle' \in Bundle /\ bundle'.exists /\ bundle'.manifest = "none"
          /\ bundle'.files = NoFiles /\ bundle'.listed = {}
      BY Zenon, <1>3, Nothing DEF BackupMkdir, NoBundle
    <2> QED BY <1>3, <2>1 DEF BackupMkdir
  <1>4. CASE BackupDump
    BY <1>4 DEF BackupDump, NoFiles
  <1>5. ASSUME NEW m \in Messages, BackupCopy(m) PROVE RecoveryInv'
    BY Zenon, <1>5, BackupCopySafe
  <1>6. CASE BackupRecheck
    BY <1>6 DEF BackupRecheck
  <1>7. CASE BackupManifest
    BY <1>7 DEF BackupManifest
  <1>8. CASE BackupDone
    BY <1>8, Nothing DEF BackupDone
  <1> QED BY Zenon, <1>1, <1>2, <1>3, <1>4, <1>5, <1>6, <1>7, <1>8

\* A restore has its gate on the disk before the tables.
LEMMA RestoreSafe ==
    ASSUME RecoveryInv,
           \/ RestoreBegin \/ RestoreGate \/ RestoreGateSync
           \/ \E m \in Messages : RestoreCopy(m)
           \/ RestoreLoad \/ RestoreDone \/ VerifyAndRelease
    PROVE  RecoveryInv'
  <1> USE DEF RecoveryInv, Types, GateInv, KeyInv, RestoreInv, BackupInv, BundleInv, At, Goto,
              Verified, Accepted, Fits, Bundle, Command, Contents
  <1>1. CASE RestoreBegin
    BY <1>1 DEF RestoreBegin, NoFiles
  <1>2. CASE RestoreGate
    BY <1>2 DEF RestoreGate
  <1>3. CASE RestoreGateSync
    BY Zenon, <1>3 DEF RestoreGateSync, GateSynced
  <1>4. ASSUME NEW m \in Messages, RestoreCopy(m) PROVE RecoveryInv'
    BY <1>4 DEF RestoreCopy
  <1>5. CASE RestoreLoad
    BY <1>5 DEF RestoreLoad
  <1>6. CASE RestoreDone
    BY <1>6, Nothing DEF RestoreDone
  <1>7. CASE VerifyAndRelease
    <2>1. Active(keyring) \in Nat \ {0}
      BY Zenon, NewestKey
    <2>2. KeyInv'
      BY <1>7, <2>1 DEF VerifyAndRelease, Opens
    <2>3. Types' /\ GateInv' /\ RestoreInv' /\ BackupInv' /\ BundleInv'
      BY Zenon, <1>7 DEF VerifyAndRelease
    <2> QED BY Zenon, <2>2, <2>3
  <1> QED BY Zenon, <1>1, <1>2, <1>3, <1>4, <1>5, <1>6, <1>7

\* A command that ends, with an error or with success, or that dies, leaves what it made.
LEMMA EndSafe ==
    ASSUME RecoveryInv, CommandFails PROVE RecoveryInv'
  <1>0. ~At("none") /\ command' = NoCommand /\ command'.at = "none" /\ command' \in Command
    BY Zenon, Nothing DEF CommandFails
  <1>1. UNCHANGED <<db, gate, loose, keyring, rotated, gateway, completed, unreleased>>
    BY Zenon DEF CommandFails
  <1> USE DEF RecoveryInv, Types, GateInv, KeyInv, RestoreInv, BackupInv, BundleInv, At
  <1>2. CASE UNCHANGED <<bundle, eml>>
    BY <1>0, <1>1, <1>2 DEF Verified, Accepted
  <1>3. ASSUME NEW m \in command.left, At("copying"), UNCHANGED eml,
               bundle' = [bundle EXCEPT !.files[m] = "partial"]
        PROVE  RecoveryInv'
    <2>1. /\ bundle' \in Bundle /\ bundle'.manifest = "none" /\ ~completed
      BY Zenon, <1>3 DEF Bundle, Command, Contents
    <2> QED BY Zenon, <1>0, <1>1, <1>3, <2>1
  <1>4. ASSUME NEW m \in command.left, At("restoring"), UNCHANGED bundle,
               eml' = [eml EXCEPT ![m] = "partial"]
        PROVE  RecoveryInv'
    <2>1. eml' \in [Messages -> Contents] /\ db = NoDatabase
      BY Zenon, <1>4 DEF Contents, Command
    <2> QED BY Zenon, <1>0, <1>1, <1>4, <2>1 DEF Verified, Accepted
  <1> QED BY Zenon, <1>2, <1>3, <1>4 DEF CommandFails

\* A rotation is complete before the older keys go.
LEMMA KeysSafe == ASSUME RecoveryInv, RotateProviders \/ AddKey \/ RemoveKeys PROVE RecoveryInv'
  <1>0. /\ Active(keyring) \in keyring /\ \A w \in keyring : w <= Active(keyring)
        /\ keyring \in SUBSET (Nat \ {0}) /\ Active(keyring) \in Nat \ {0}
        /\ Active(keyring) + 1 \in Nat \ {0} /\ \A w \in keyring : w <= Active(keyring) + 1
    BY Zenon, NewestKey DEF RecoveryInv, Types, KeyInv
  <1>1. CASE RotateProviders
    <2> USE DEF RecoveryInv, Types, GateInv, KeyInv, RestoreInv, BackupInv, BundleInv, At, Verified, Accepted
    <2> QED BY <1>0, <1>1 DEF RotateProviders, Resealed, Opens, Database, NoDatabase
  <1>2. CASE AddKey
    <2>0. /\ keyring' = keyring \cup {Active(keyring) + 1}
          /\ Active(keyring) + 1 \in Nat \ {0}
          /\ \A w \in keyring' : w <= Active(keyring) + 1
      BY <1>0, <1>2 DEF AddKey
    <2>1. keyring' \in SUBSET (Nat \ {0}) /\ HasNewest(keyring')
      BY Zenon, <1>0, <2>0 DEF HasNewest
    <2>2. Active(keyring') = Active(keyring) + 1
      BY <1>0, <2>0, <2>1, NewestKey
    <2>3. KeyInv'
      BY <1>0, <1>2, <2>0, <2>1, <2>2 DEF AddKey, RecoveryInv, Types, KeyInv
    <2> QED BY <1>2, <2>1, <2>3 DEF AddKey, RecoveryInv, Types, GateInv, RestoreInv, BackupInv,
                                    BundleInv, At, Fits, Verified, Accepted
  <1>3. CASE RemoveKeys
    <2>1. keyring' = {Active(keyring)} /\ rotated = Active(keyring) /\ gateway = "stopped"
      BY Zenon, <1>3 DEF RemoveKeys
    <2>2. keyring' \in SUBSET (Nat \ {0}) /\ HasNewest(keyring')
      BY <1>0, <2>1 DEF HasNewest
    <2>3. Active(keyring') = Active(keyring)
      BY Zenon, <1>0, <2>1, <2>2, NewestKey
    <2>4. KeyInv'
      BY Zenon, <1>0, <1>3, <2>1, <2>2, <2>3 DEF RemoveKeys, RecoveryInv, Types, KeyInv
    <2> QED BY <1>3, <2>2, <2>4 DEF RemoveKeys, RecoveryInv, Types, GateInv, RestoreInv, BackupInv,
                                    BundleInv, At, Fits, Verified, Accepted
  <1> QED BY Zenon, <1>1, <1>2, <1>3

\* A gateway starts past the gate only.
LEMMA GatewaySafe == ASSUME RecoveryInv, CheckStartup \/ AcquireRuntime \/ GatewayStops PROVE RecoveryInv'
  <1> USE DEF RecoveryInv, Types, GateInv, KeyInv, RestoreInv, BackupInv, BundleInv, At, Fits,
              Verified, Accepted
  <1>1. CASE CheckStartup
    BY <1>1 DEF CheckStartup
  <1>2. CASE AcquireRuntime
    BY Zenon, <1>2 DEF AcquireRuntime
  <1>3. CASE GatewayStops
    BY <1>3 DEF GatewayStops
  <1> QED BY Zenon, <1>1, <1>2, <1>3

\* What was synced is still there after a loss of power.
LEMMA LossSafe ==
    ASSUME RecoveryInv, PowerLoss \/ Lose \/ Discard PROVE RecoveryInv'
  <1>1. CASE PowerLoss
    <2>0. /\ gateway' = "stopped" /\ command' = NoCommand /\ loose' = {}
          /\ gate' \in (IF gate = "loose" THEN {"none", "synced"} ELSE {gate})
          /\ UNCHANGED <<db, eml, keyring, rotated, completed, unreleased>>
      BY Zenon, <1>1 DEF PowerLoss
    <2>1. PICK files \in [Messages -> Contents], dump \in {NoDatabase, bundle.dump},
               manifest \in {"none", bundle.manifest} :
            /\ \A m \in Messages : files[m] \in Remains(m, bundle.files[m])
            /\ "dump" \notin loose => dump = bundle.dump
            /\ "manifest" \notin loose => manifest = bundle.manifest
            /\ bundle' = [bundle EXCEPT !.files = files, !.dump = dump, !.manifest = manifest]
      BY Zenon, <1>1 DEF PowerLoss
    <2>2. bundle \in Bundle /\ loose \cap Messages = {}
      BY Zenon, RecoveryAssumption DEF RecoveryInv, Types
    <2>3. files = bundle.files
      <3>1. \A m \in Messages : files[m] = bundle.files[m]
        BY Zenon, <2>1, <2>2 DEF Remains
      <3>2. bundle.files \in [Messages -> Contents]
        BY Zenon, <2>2 DEF Bundle
      <3> QED BY <3>1, <3>2
    <2>4. /\ bundle' \in Bundle /\ bundle'.files = bundle.files /\ bundle'.dump = dump
          /\ bundle'.manifest = manifest /\ bundle'.listed = bundle.listed
          /\ bundle'.exists = bundle.exists
      BY Zenon, <2>1, <2>2, <2>3, Nothing DEF Bundle
    <2>5. Types' /\ GateInv' /\ KeyInv' /\ RestoreInv' /\ BackupInv'
      BY Zenon, <2>0, <2>4, Nothing DEF RecoveryInv, Types, GateInv, KeyInv, RestoreInv, BackupInv, At
    <2>6. BundleInv'
      BY <2>0, <2>1, <2>4 DEF RecoveryInv, BundleInv, Verified, Accepted
    <2> QED BY Zenon, <2>5, <2>6 DEF RecoveryInv
  <1>2. CASE Lose
    BY Zenon, <1>2, Nothing DEF Lose, RecoveryInv, Types, GateInv, KeyInv, RestoreInv, BackupInv, BundleInv,
                         At, NoFiles, Verified, Accepted
  <1>3. CASE Discard
    BY Zenon, <1>3, Nothing
       DEF Discard, RecoveryInv, Types, GateInv, KeyInv, RestoreInv, BackupInv, BundleInv, At
  <1> QED BY Zenon, <1>1, <1>2, <1>3

\* Every step keeps the invariant.
LEMMA RecoverySafe == ASSUME RecoveryInv, [RecoveryNext]_recoveryVars PROVE RecoveryInv'
  <1>1. CASE UNCHANGED recoveryVars
    BY <1>1 DEF recoveryVars, RecoveryInv, Types, GateInv, KeyInv, RestoreInv, BackupInv, BundleInv, At, Fits,
                Verified, Accepted
  <1> QED BY Zenon, <1>1, WriterSafe, BackupSafe, RestoreSafe, EndSafe, KeysSafe, GatewaySafe, LossSafe
          DEF RecoveryNext

\* A bundle that is accepted holds the archive of every message of its dump, whatever
\* was written and purged meanwhile and wherever the power was lost (Backup).
THEOREM AcceptedBundleIsWhole == RecoverySpec => []BundleIsWhole
  BY RecoveryInitially, RecoverySafe, RecoverySuffices, PTL DEF RecoverySpec

\* A backup that reported success is not lost with the power (copyFile, syncDir).
THEOREM BackupIsDurable == RecoverySpec => []BackupSurvives
  BY RecoveryInitially, RecoverySafe, RecoverySuffices, PTL DEF RecoverySpec

\* No gateway works on restored tables that nobody has verified and released, wherever
\* the restore was interrupted (Marker, CheckStartup).
THEOREM GateIsRespected == RecoverySpec => []GateHolds
  BY RecoveryInitially, RecoverySafe, RecoverySuffices, PTL DEF RecoverySpec

\* A gateway at work opens every credential, after any number of rotations, removed
\* keys and restores (RotateProviders, VerifyRestored).
THEOREM CredentialsStayOpen == RecoverySpec => []CredentialsOpen
  BY RecoveryInitially, RecoverySafe, RecoverySuffices, PTL DEF RecoverySpec

-----------------------------------------------------------------------------
(***************************************************************************)
(* The outbox and the website together, for every number of events,        *)
(* dispatchers, clients and overlapping reconciliations.                   *)
(*                                                                         *)
(* RefreshCoversInbox is about a row that a reconciliation has stored; the *)
(* danger is one that is still under way.  The invariant says of each what *)
(* the comparison of revisions will rely on: as long as the row's revision *)
(* is the one it asked for, everything it has read covers the inbox.       *)
(***************************************************************************)
\* What a reconciliation has read so far.
HasRead(x) ==
    CASE x.pc \in {"looked", "reading"} -> {"status"}
      [] x.pc = "read" -> Kinds
      [] OTHER -> {}

Covers(n) == \A e \in inbox : n >= e

SiteRow == [exists : BOOLEAN, other : BOOLEAN, known : BOOLEAN, revision : Nat,
            needsRefresh : BOOLEAN, snapshot : [Kinds -> Nat]]

Reading == [pc : {"idle", "listed", "asked", "looking", "looked", "reading", "read"},
            revision : Nat, read : [Kinds -> Nat]]

SiteType ==
    /\ version \in Nat /\ inbox \subseteq 1 .. version
    /\ site \in SiteRow
    /\ reader \in [Readers -> Reading]

ReadingFits(x) ==
    /\ x.revision <= site.revision
    /\ x.revision = site.revision => \A k \in HasRead(x) : Covers(x.read[k])

SiteInv ==
    /\ SiteType
    /\ \A r \in Readers : ReadingFits(reader[r])
    /\ ~site.needsRefresh => \A k \in Kinds : Covers(site.snapshot[k])

RowFits(n, x) ==
    /\ x \in Row
    /\ x.state # "none" => n <= version
    /\ x.leased => x.state = "IN_FLIGHT"
    /\ x.state = "DELIVERED" => n \in inbox

Dispatch == [at : {"idle", "claimed", "sending", "sent"}, row : Rows \cup {NoRow},
             token : Nat, attempt : Nat, success : BOOLEAN]

DispatchFits(x) ==
    /\ x \in Dispatch
    /\ x.at # "idle" => x.row \in Rows /\ x.row <= version
    /\ x.success => x.row \in inbox

OutboxInv ==
    /\ outbox \in [Rows -> Row] /\ disp \in [Dispatchers -> Dispatch] /\ tokens \in Nat
    /\ \A n \in Rows : RowFits(n, outbox[n])
    /\ \A d \in Dispatchers : DispatchFits(disp[d])

\* What OutcomesStay says of one row.
RowKept(x, y) ==
    /\ x.state = "DELIVERED" => y = x
    /\ x.state = "DEAD" /\ y # x => y.generation = x.generation + 1

(***************************************************************************)
(* The website.                                                            *)
(***************************************************************************)
\* The kinds are of the two that a reconciliation may read.
LEMMA KindsAre ==
    /\ "status" \in Kinds
    /\ Kinds \subseteq {"status", "feedback"}
    /\ ~Production => Kinds = {"status"}
  BY Zenon DEF Kinds

\* At the start nothing is in the inbox and nothing is being read.
LEMMA SiteInitially == SiteInit => SiteInv
  BY KindsAre
     DEF SiteInit, SiteInv, SiteType, SiteRow, Reading, NotReading, ReadingFits, HasRead, Covers

\* Keeping a request changes neither the revision nor what was read.
LEMMA KeptRow ==
    ASSUME NEW s \in SiteRow, NEW b \in BOOLEAN
    PROVE  LET kept == [s EXCEPT !.exists = TRUE, !.other = b] IN
           /\ kept \in SiteRow
           /\ kept.revision = s.revision /\ kept.needsRefresh = s.needsRefresh
           /\ kept.snapshot = s.snapshot
  BY Zenon DEF SiteRow

\* A notification raises the revision and marks the row.
LEMMA ReceivedRow ==
    ASSUME NEW s \in SiteRow, NEW n \in Nat
    PROVE  LET got == [s EXCEPT !.known = TRUE, !.revision = n, !.needsRefresh = TRUE] IN
           got \in SiteRow /\ got.revision = n /\ got.needsRefresh
  BY Zenon DEF SiteRow

\* A submission does not touch what reconciliations compare.
LEMMA SubmitSafe == ASSUME SiteInv, NEW c \in Clients, SubmitStep(c) \/ SubmitFails(c)
                    PROVE  SiteInv'
  <1>1. CASE Keep(c)
    <2>1. /\ site' \in SiteRow
          /\ UNCHANGED <<site.revision, site.needsRefresh, site.snapshot>>
      <3> (c \in Other) \in BOOLEAN
        OBVIOUS
      <3> QED BY <1>1, KeptRow, Zenon DEF SiteInv, SiteType, Keep
    <2> QED BY Zenon, <1>1, <2>1 DEF SiteInv, SiteType, ReadingFits, HasRead, Covers, Keep
  <1>2. CASE Post(c)
    BY <1>2 DEF SiteInv, SiteType, ReadingFits, HasRead, Covers, Post
  <1>3. CASE KeepAnswer(c)
    <2>1. /\ site' \in SiteRow
          /\ UNCHANGED <<site.revision, site.needsRefresh, site.snapshot>>
      BY Zenon, <1>3 DEF SiteInv, SiteType, SiteRow, KeepAnswer
    <2> QED BY Zenon, <1>3, <2>1 DEF SiteInv, SiteType, ReadingFits, HasRead, Covers, KeepAnswer
  <1>4. CASE SubmitFails(c)
    BY Zenon, <1>4 DEF SiteInv, SiteType, ReadingFits, HasRead, Covers, SubmitFails
  <1> QED BY Zenon, <1>1, <1>2, <1>3, <1>4 DEF SubmitStep

\* A new notification raises the revision, past what every reconciliation asked for.
LEMMA ReceiveSafe == ASSUME SiteInv, NEW e \in 1 .. version, Receive(e)
                     PROVE  SiteInv'
  <1>1. CASE e \in inbox
    <2>1. UNCHANGED <<version, site, inbox, reader>>
      BY Zenon, <1>1 DEF Receive
    <2> QED BY Zenon, <2>1 DEF SiteInv, SiteType, ReadingFits, HasRead, Covers
  <1>2. CASE e \notin inbox
    <2>1. /\ site' = Received(e) /\ UNCHANGED <<version, reader>>
          /\ inbox' = inbox \cup {e}
      BY Zenon, <1>2 DEF Receive
    <2>0. site' \in SiteRow /\ site'.revision = site.revision + 1 /\ site'.needsRefresh
      <3>1. site \in SiteRow /\ site.revision + 1 \in Nat
        BY DEF SiteInv, SiteType, SiteRow
      <3> QED BY <2>1, <3>1, ReceivedRow, Zenon DEF Received
    <2>2. SiteType'
      BY Zenon, <2>0, <2>1 DEF SiteInv, SiteType
    <2>3. \A r \in Readers : reader'[r].revision < site'.revision
      BY <2>0, <2>1 DEF SiteInv, SiteType, SiteRow, Reading, ReadingFits
    <2>4. site'.needsRefresh
      BY Zenon, <2>0
    <2> QED BY <2>2, <2>3, <2>4 DEF SiteInv, SiteType, SiteRow, Reading, ReadingFits
  <1> QED BY Zenon, <1>1, <1>2

\* A step of a reconciliation is safe if what it leaves fits the row as it is.
LEMMA ReaderSet ==
    ASSUME SiteInv, NEW r \in Readers, NEW x \in Reading, SetReader(r, x),
           UNCHANGED <<version, site, inbox>>, ReadingFits(x)
    PROVE  SiteInv'
  <1>1. SiteType'
    BY Zenon DEF SiteInv, SiteType, SetReader
  <1>2. ASSUME NEW q \in Readers PROVE ReadingFits(reader[q])'
    <2>1. reader'[q] = IF q = r THEN x ELSE reader[q]
      BY Zenon DEF SiteInv, SiteType, SetReader
    <2> QED BY Zenon, <2>1 DEF SiteInv, ReadingFits, HasRead, Covers
  <1> QED BY Zenon, <1>1, <1>2 DEF SiteInv, Covers

\* Nothing read is nothing to compare.
LEMMA NotReadingFits == SiteInv => NotReading \in Reading /\ ReadingFits(NotReading)
  BY DEF SiteInv, SiteType, SiteRow, Reading, NotReading, ReadingFits, HasRead

\* What a transaction of the gateway reads covers every notification so far.
LEMMA VersionCovers == SiteInv => Covers(version)
  BY DEF SiteInv, SiteType, Covers

\* A snapshot of the gateway covers the inbox, whatever revision it is compared to.
LEMMA SnapshotSafe == ASSUME SiteInv, NEW r \in Readers, ReadStatus(r) \/ ReadFeedback(r)
                      PROVE  SiteInv'
  <1> USE DEF SiteInv, SiteType
  <1>1. CASE ReadStatus(r)
    <2> DEFINE to == IF Production THEN "looked" ELSE "read"
    <2> DEFINE x == [reader[r] EXCEPT !.pc = to, !.read["status"] = version]
    <2>1. /\ SetReader(r, x) /\ UNCHANGED <<version, site, inbox>>
          /\ reader[r].pc = "looking"
      BY Zenon, <1>1 DEF ReadStatus, Snapshot
    <2>2. /\ x \in Reading /\ x.revision = reader[r].revision
          /\ x.pc = to /\ x.read["status"] = version
      BY Zenon, KindsAre DEF Reading
    <2>3. HasRead(x) = {"status"}
      BY <2>2, KindsAre DEF HasRead, Kinds
    <2>4. ReadingFits(x)
      BY Zenon, <2>2, <2>3, VersionCovers DEF ReadingFits
    <2> HIDE DEF x
    <2> QED BY Zenon, <2>1, <2>2, <2>4, ReaderSet
  <1>2. CASE ReadFeedback(r)
    <2> DEFINE x == [reader[r] EXCEPT !.pc = "read", !.read["feedback"] = version]
    <2>1. /\ SetReader(r, x) /\ UNCHANGED <<version, site, inbox>>
          /\ reader[r].pc = "reading"
      BY Zenon, <1>2 DEF ReadFeedback, Snapshot
    <2>2. /\ x \in Reading /\ x.revision = reader[r].revision /\ x.pc = "read"
          /\ x.read["status"] = reader[r].read["status"]
          /\ "feedback" \in Kinds => x.read["feedback"] = version
      BY Zenon, KindsAre DEF Reading
    <2>3. HasRead(x) \subseteq {"status", "feedback"} /\ HasRead(x) = Kinds
      BY Zenon, <2>2, KindsAre DEF HasRead
    <2>4. reader[r].revision = site.revision => Covers(reader[r].read["status"])
      BY Zenon, <2>1 DEF ReadingFits, HasRead
    <2>5. ReadingFits(x)
      BY Zenon, <2>2, <2>3, <2>4, VersionCovers DEF ReadingFits
    <2> HIDE DEF x
    <2> QED BY Zenon, <2>1, <2>2, <2>5, ReaderSet
  <1> QED BY Zenon, <1>1, <1>2

\* Storing compares the revision, so that what is stored covers the inbox.
LEMMA StoreSafe == ASSUME SiteInv, NEW r \in Readers, Store(r)
                   PROVE  SiteInv'
  <1>1. /\ SetReader(r, NotReading) /\ UNCHANGED <<version, inbox>>
        /\ reader[r].pc = "read"
    BY Zenon DEF Store
  <1>2. CASE MayStore(r)
    <2> DEFINE s == [site EXCEPT !.needsRefresh = FALSE, !.snapshot = reader[r].read]
    <2>1. site' = s /\ reader[r].revision = site.revision
      BY Zenon, <1>2 DEF Store, MayStore
    <2>2. /\ s \in SiteRow /\ s.revision = site.revision /\ ~s.needsRefresh
          /\ s.snapshot = reader[r].read
      BY Zenon DEF SiteInv, SiteType, SiteRow, Reading
    <2> HIDE DEF s
    <2>3. SiteType'
      BY Zenon, <1>1, <2>1, <2>2, NotReadingFits DEF SiteInv, SiteType, SetReader
    <2>4. \A k \in Kinds, e \in inbox' : site'.snapshot[k] >= e
      <3>1. HasRead(reader[r]) = Kinds
        BY Zenon, <1>1 DEF HasRead
      <3> QED BY Zenon, <1>1, <2>1, <2>2, <3>1 DEF SiteInv, ReadingFits, Covers
    <2>5. ASSUME NEW q \in Readers PROVE ReadingFits(reader[q])'
      <3>1. reader'[q] = IF q = r THEN NotReading ELSE reader[q]
        BY Zenon, <1>1 DEF SiteInv, SiteType, SetReader
      <3>2. ReadingFits(reader'[q])
        BY Zenon, <3>1, NotReadingFits DEF SiteInv
      <3>3. site'.revision = site.revision /\ inbox' = inbox
        BY Zenon, <1>1, <2>1, <2>2
      <3> QED BY Zenon, <3>2, <3>3 DEF ReadingFits, HasRead, Covers
    <2> QED BY Zenon, <2>3, <2>4, <2>5 DEF SiteInv, Covers
  <1>3. CASE ~MayStore(r)
    <2>1. site' = site
      BY Zenon, <1>3 DEF Store
    <2> QED BY Zenon, <1>1, <2>1, NotReadingFits, ReaderSet
  <1> QED BY Zenon, <1>2, <1>3

\* Every step of a reconciliation, or its failure, keeps the site's invariant.
LEMMA ReconcileSafe == ASSUME SiteInv, NEW r \in Readers, ReconcileStep(r) \/ ReconcileFails(r)
                       PROVE  SiteInv'
  <1>1. CASE List(r)
    <2> DEFINE x == [NotReading EXCEPT !.pc = "listed"]
    <2>1. x \in Reading /\ ReadingFits(x)
      BY DEF SiteInv, SiteType, SiteRow, Reading, NotReading, ReadingFits, HasRead
    <2>2. SetReader(r, x) /\ UNCHANGED <<version, site, inbox>>
      BY Zenon, <1>1 DEF List
    <2> HIDE DEF x
    <2> QED BY Zenon, <2>1, <2>2, ReaderSet
  <1>2. CASE Ask(r)
    <2> DEFINE x == [NotReading EXCEPT !.pc = "asked", !.revision = site.revision]
    <2>1. x \in Reading /\ x.pc = "asked" /\ x.revision = site.revision
      BY Zenon DEF SiteInv, SiteType, SiteRow, Reading, NotReading
    <2>2. ReadingFits(x)
      BY <2>1 DEF SiteInv, SiteType, SiteRow, ReadingFits, HasRead
    <2>3. SetReader(r, x) /\ UNCHANGED <<version, site, inbox>>
      BY Zenon, <1>2 DEF Ask
    <2> HIDE DEF x
    <2> QED BY Zenon, <2>1, <2>2, <2>3, ReaderSet
  <1>3. ASSUME NEW k \in Kinds, Begin(r, k) PROVE SiteInv'
    <2> DEFINE x == [reader[r] EXCEPT !.pc = IF k = "status" THEN "looking" ELSE "reading"]
    <2>1. x \in Reading /\ x.revision = reader[r].revision /\ x.read = reader[r].read
      BY Zenon DEF SiteInv, SiteType, Reading
    <2>2. SetReader(r, x) /\ UNCHANGED <<version, site, inbox>>
      BY Zenon, <1>3 DEF Begin
    <2>3. HasRead(x) \subseteq HasRead(reader[r])
      BY Zenon, <1>3 DEF Begin, HasRead, SiteInv, SiteType, Reading
    <2>4. ReadingFits(x)
      BY Zenon, <2>1, <2>3 DEF SiteInv, ReadingFits
    <2> HIDE DEF x
    <2> QED BY Zenon, <2>1, <2>2, <2>4, ReaderSet
  <1>4. CASE ReconcileFails(r)
    BY Zenon, <1>4, NotReadingFits, ReaderSet DEF ReconcileFails
  <1> QED BY Zenon, <1>1, <1>2, <1>3, <1>4, SnapshotSafe, StoreSafe DEF ReconcileStep

\* The number of events only grows.
LEMMA HappensSafe == SiteInv /\ Happens => SiteInv'
  BY DEF SiteInv, SiteType, ReadingFits, HasRead, Covers, Happens

\* Steps of the gateway alone leave the site as it is.
LEMMA SiteStutters == SiteInv /\ UNCHANGED siteVars => SiteInv'
  BY Zenon DEF SiteInv, SiteType, ReadingFits, HasRead, Covers, siteVars

\* The site's invariant says in particular what its page shows.
LEMMA SiteShows == SiteInv => RefreshCoversInbox
  BY Zenon DEF SiteInv, SiteType, SiteRow, Covers, RefreshCoversInbox

\* The website against any gateway: notifications of any of the events there were,
\* any number of times and in any order, and reconciliations that overlap, do not
\* make a row seem current that lacks a notified event (Reconcile, receive).
THEOREM SiteShowsItsInbox == SiteSpec => []RefreshCoversInbox
  <1>1. SiteInv /\ [SiteNext]_siteVars => SiteInv'
    BY SubmitSafe, ReconcileSafe, ReceiveSafe, HappensSafe, SiteStutters DEF SiteNext
  <1> QED BY <1>1, SiteInitially, SiteShows, PTL DEF SiteSpec

(***************************************************************************)
(* The outbox.                                                             *)
(***************************************************************************)
\* A row, and what a dispatcher holds, stay fitting while the site moves on.
LEMMA OutboxMono ==
    ASSUME OutboxInv, SiteInv, SiteInv', UNCHANGED vars, version <= version', inbox \subseteq inbox'
    PROVE  OutboxInv'
  <1>1. UNCHANGED <<outbox, disp, tokens>>
    BY Zenon DEF vars
  <1>2. \A n \in Rows : RowFits(n, outbox[n])'
    BY <1>1, RowsAreEvents DEF OutboxInv, RowFits, SiteInv, SiteType
  <1>3. \A d \in Dispatchers : DispatchFits(disp[d])'
    <2> TAKE d \in Dispatchers
    <2>1. disp[d].row \in Rows => disp[d].row \in Nat
      BY RowsAreEvents
    <2>2. disp[d].row \in Rows /\ disp[d].row <= version => disp[d].row <= version'
      BY <2>1 DEF SiteInv, SiteType
    <2>3. DispatchFits(disp[d]) /\ disp' = disp
      BY Zenon, <1>1 DEF OutboxInv
    <2> QED BY <2>2, <2>3, Zenon DEF DispatchFits
  <1> QED BY Zenon, <1>1, <1>2, <1>3 DEF OutboxInv

\* The rows may change as long as each fits and no outcome is lost.
RowsMove ==
    /\ outbox' \in [Rows -> Row]
    /\ \A n \in Rows : RowFits(n, outbox'[n]) /\ RowKept(outbox[n], outbox'[n])

DispatchesMove ==
    /\ disp' \in [Dispatchers -> Dispatch]
    /\ \A d \in Dispatchers : DispatchFits(disp'[d])

\* One row at a time.
LEMMA OneRow ==
    ASSUME OutboxInv, NEW n \in Rows, NEW x, outbox' = [outbox EXCEPT ![n] = x],
           RowFits(n, x), RowKept(outbox[n], x)
    PROVE  RowsMove
  BY Zenon DEF OutboxInv, RowsMove, RowFits, RowKept

\* One dispatcher at a time.
LEMMA OneDispatch ==
    ASSUME OutboxInv, NEW d \in Dispatchers, NEW x, disp' = [disp EXCEPT ![d] = x],
           DispatchFits(x)
    PROVE  DispatchesMove
  BY Zenon DEF OutboxInv, DispatchesMove, DispatchFits

\* A dispatcher that holds nothing claims nothing of any row.
LEMMA IdleFits == DispatchFits(Idle)
  BY Zenon DEF DispatchFits, Dispatch, Idle

\* claim gives up only rows that wait or whose lease has ended.
LEMMA RetiredFits ==
    ASSUME OutboxInv, NEW n \in Rows
    PROVE  RowFits(n, Retired[n]) /\ RowKept(outbox[n], Retired[n])
  <1>1. CASE Retirable(outbox[n])
    <2> DEFINE x == [outbox[n] EXCEPT !.state = "DEAD", !.token = 0, !.leased = FALSE]
    <2>1. Retired[n] = x
      BY Zenon, <1>1 DEF Retired
    <2>2. x \in Row /\ x.state = "DEAD" /\ ~x.leased
      BY Zenon DEF OutboxInv, Row
    <2>3. outbox[n].state \in {"PENDING", "IN_FLIGHT"}
      BY Zenon, <1>1 DEF Retirable, Free
    <2> HIDE DEF x
    <2> QED BY Zenon, <2>1, <2>2, <2>3 DEF OutboxInv, RowFits, RowKept
  <1>2. CASE ~Retirable(outbox[n])
    BY Zenon, <1>2 DEF Retired, OutboxInv, RowKept
  <1> QED BY Zenon, <1>1, <1>2

\* Leasing a row, with any token.
LEMMA LeasedRow ==
    ASSUME NEW x \in Row, NEW m \in 0 .. MaxAttempts, NEW t \in Nat
    PROVE  LET y == [x EXCEPT !.state = "IN_FLIGHT", !.attempts = m, !.token = t,
                              !.leased = TRUE] IN
           y \in Row /\ y.state = "IN_FLIGHT"
  BY Zenon DEF Row

\* A claim leases a row that is not leased and not over.
LEMMA ClaimSafe ==
    ASSUME OutboxInv, NEW d \in Dispatchers, NEW n \in Rows, Claim(d, n)
    PROVE  RowsMove /\ DispatchesMove /\ tokens' \in Nat
  <1>0. tokens + 1 \in Nat
    BY DEF OutboxInv
  <1>1. tokens' \in Nat
    BY Zenon, <1>0 DEF Claim
  <1>2. /\ outbox[n] \in Row /\ outbox[n].state \in {"PENDING", "IN_FLIGHT"}
        /\ n <= version /\ outbox[n].attempts < MaxAttempts
    BY Zenon DEF Claim, OutboxInv, RowFits, Leasable
  <1>3. outbox[n].attempts + 1 \in Nat /\ outbox[n].attempts + 1 \in 0 .. MaxAttempts
    BY <1>2, WebhookAssumption DEF Row
  <1> DEFINE x == Leased(outbox[n])
  <1>4. x \in Row /\ x.state = "IN_FLIGHT"
    BY Zenon, <1>0, <1>2, <1>3, LeasedRow DEF Leased
  <1> HIDE DEF x
  <1>5. RowFits(n, x) /\ RowKept(outbox[n], x)
    BY Zenon, <1>2, <1>4 DEF RowFits, RowKept
  <1>6. /\ \A m \in Rows : outbox'[m] = IF m = n THEN x ELSE Retired[m]
        /\ outbox' = [m \in Rows |-> outbox'[m]]
    BY Zenon DEF Claim, Retired, x
  <1>7. \A m \in Rows : RowFits(m, outbox'[m]) /\ RowKept(outbox[m], outbox'[m])
    BY Zenon, <1>5, <1>6, RetiredFits
  <1>8. outbox' \in [Rows -> Row]
    BY Zenon, <1>6, <1>7 DEF RowFits
  <1> DEFINE y == [at |-> "claimed", row |-> n, token |-> tokens + 1,
                   attempt |-> outbox[n].attempts + 1, success |-> FALSE]
  <1>9. DispatchFits(y)
    BY Zenon, <1>0, <1>2, <1>3 DEF DispatchFits, Dispatch
  <1>10. disp' = [disp EXCEPT ![d] = y]
    BY Zenon DEF Claim
  <1> HIDE DEF y
  <1> QED BY Zenon, <1>1, <1>7, <1>8, <1>9, <1>10, OneDispatch DEF RowsMove

\* finish settles a row under its own live lease, by what the site answered.
LEMMA FinishSafe ==
    ASSUME OutboxInv, NEW d \in Dispatchers, Finish(d)
    PROVE  RowsMove /\ DispatchesMove
  <1>1. DispatchesMove
    BY Zenon, IdleFits, OneDispatch DEF Finish
  <1>2. CASE ~Owned(d)
    <2>1. outbox' = outbox
      BY Zenon, <1>2 DEF Finish
    <2> QED BY Zenon, <1>1, <2>1 DEF OutboxInv, RowsMove, RowKept
  <1>3. CASE Owned(d)
    <2> DEFINE n == disp[d].row
    <2> DEFINE x == [outbox[n] EXCEPT !.state = FinishedState(d), !.token = 0,
                                      !.leased = FALSE, !.due = FALSE]
    <2>1. n \in Rows /\ outbox[n].state = "IN_FLIGHT" /\ DispatchFits(disp[d])
      BY Zenon, <1>3 DEF Finish, OutboxInv, DispatchFits, Owned
    <2>2. outbox[n] \in Row /\ n <= version
      BY Zenon, <2>1 DEF OutboxInv, RowFits
    <2>3. /\ FinishedState(d) \in {"PENDING", "DEAD", "DELIVERED"}
          /\ FinishedState(d) = "DELIVERED" => n \in inbox
      BY Zenon, <2>1 DEF FinishedState, DispatchFits
    <2>4. x \in Row /\ x.state = FinishedState(d) /\ ~x.leased
      BY Zenon, <2>2, <2>3, WebhookAssumption DEF Row
    <2>5. outbox' = [outbox EXCEPT ![n] = x]
      BY Zenon, <1>3 DEF Finish, Finished
    <2> HIDE DEF n, x
    <2>6. RowFits(n, x) /\ RowKept(outbox[n], x)
      BY Zenon, <2>1, <2>2, <2>3, <2>4 DEF RowFits, RowKept
    <2>7. RowsMove
      BY Zenon, <2>1, <2>5, <2>6, OneRow
    <2> QED BY Zenon, <1>1, <2>7
  <1> QED BY Zenon, <1>1, <1>2, <1>3

\* Replay is of a dead row only, and opens its next generation.
LEMMA ReplaySafe ==
    ASSUME OutboxInv, NEW n \in Rows, NEW g \in 0 .. GenerationBound, Replay(n, g)
    PROVE  RowsMove
  <1> DEFINE x == Replayed(outbox[n])
  <1>0. /\ 0 \in 0 .. MaxAttempts
        /\ g < GenerationBound => g + 1 \in 0 .. GenerationBound
    BY WebhookAssumption
  <1>1. /\ outbox[n] \in Row /\ outbox[n].state = "DEAD" /\ RowFits(n, outbox[n])
        /\ outbox[n].generation + 1 \in 0 .. GenerationBound
    BY Zenon, <1>0 DEF Replay, OutboxInv
  <1>2. /\ x \in Row /\ x.state = "PENDING" /\ x.generation = outbox[n].generation + 1
        /\ x.leased = outbox[n].leased
    <2> DEFINE y(z, m, h) == [z EXCEPT !.state = "PENDING", !.attempts = m,
                                       !.generation = h, !.due = TRUE, !.late = FALSE]
    <2>1. x = y(outbox[n], 0, outbox[n].generation + 1)
      BY Zenon DEF Replayed
    <2>2. ASSUME NEW z \in Row, NEW m \in 0 .. MaxAttempts, NEW h \in 0 .. GenerationBound
          PROVE  /\ y(z, m, h) \in Row /\ y(z, m, h).state = "PENDING"
                 /\ y(z, m, h).generation = h /\ y(z, m, h).leased = z.leased
      BY Zenon DEF Row
    <2> HIDE DEF x, y
    <2> QED BY <1>0, <1>1, <2>1, <2>2, ZenonT(30)
  <1>3. outbox' = [outbox EXCEPT ![n] = x]
    BY Zenon DEF Replay
  <1> HIDE DEF x
  <1>4. RowFits(n, x) /\ RowKept(outbox[n], x)
    BY Zenon, <1>1, <1>2 DEF RowFits, RowKept
  <1> QED BY Zenon, <1>3, <1>4, OneRow

\* The clock changes no outcome.
LEMMA ClockSafe ==
    ASSUME OutboxInv, NEW n \in Rows, LeaseExpires(n) \/ FallsDue(n) \/ DeadlinePasses(n)
    PROVE  RowsMove
  <1>0. outbox[n] \in Row /\ RowFits(n, outbox[n])
    BY Zenon DEF OutboxInv
  <1>1. CASE LeaseExpires(n)
    <2> DEFINE x == [outbox[n] EXCEPT !.leased = FALSE]
    <2>1. x \in Row /\ x.state = outbox[n].state /\ ~x.leased
      BY Zenon, <1>0 DEF Row
    <2>2. outbox[n].state = "IN_FLIGHT" /\ outbox' = [outbox EXCEPT ![n] = x]
      BY Zenon, <1>0, <1>1 DEF LeaseExpires, RowFits
    <2> HIDE DEF x
    <2>3. RowFits(n, x) /\ RowKept(outbox[n], x)
      BY Zenon, <1>0, <2>1, <2>2 DEF RowFits, RowKept
    <2> QED BY Zenon, <2>2, <2>3, OneRow
  <1>2. CASE FallsDue(n)
    <2> DEFINE x == [outbox[n] EXCEPT !.due = TRUE]
    <2>1. x \in Row /\ x.state = outbox[n].state /\ x.leased = outbox[n].leased
      BY Zenon, <1>0 DEF Row
    <2>2. outbox[n].state = "PENDING" /\ outbox' = [outbox EXCEPT ![n] = x]
      BY Zenon, <1>2 DEF FallsDue
    <2> HIDE DEF x
    <2>3. RowFits(n, x) /\ RowKept(outbox[n], x)
      BY Zenon, <1>0, <2>1, <2>2 DEF RowFits, RowKept
    <2> QED BY Zenon, <2>2, <2>3, OneRow
  <1>3. CASE DeadlinePasses(n)
    <2> DEFINE x == [outbox[n] EXCEPT !.late = TRUE]
    <2>1. x \in Row /\ x.state = outbox[n].state /\ x.leased = outbox[n].leased
      BY Zenon, <1>0 DEF Row
    <2>2. /\ outbox[n].state \in {"PENDING", "IN_FLIGHT"}
          /\ outbox' = [outbox EXCEPT ![n] = x]
      BY Zenon, <1>3 DEF DeadlinePasses
    <2> HIDE DEF x
    <2>3. RowFits(n, x) /\ RowKept(outbox[n], x)
      BY Zenon, <1>0, <2>1, <2>2 DEF RowFits, RowKept
    <2> QED BY Zenon, <2>2, <2>3, OneRow
  <1> QED BY Zenon, <1>1, <1>2, <1>3

\* The second look at the configuration, and giving up, hold no more than before.
LEMMA RecheckSafe ==
    ASSUME OutboxInv, NEW d \in Dispatchers, Recheck(d) \/ Abandon(d)
    PROVE  DispatchesMove
  <1>1. CASE Recheck(d)
    <2> DEFINE x == [disp[d] EXCEPT !.at = IF Eligible(d) THEN "sending" ELSE "sent"]
    <2>1. disp' = [disp EXCEPT ![d] = x] /\ disp[d].at = "claimed"
      BY Zenon, <1>1 DEF Recheck
    <2>2. DispatchFits(disp[d])
      BY Zenon DEF OutboxInv
    <2>3. /\ x \in Dispatch /\ x.row = disp[d].row /\ x.success = disp[d].success
      BY Zenon, <2>2 DEF Dispatch, DispatchFits
    <2> HIDE DEF x
    <2>4. DispatchFits(x)
      BY Zenon, <2>1, <2>2, <2>3 DEF DispatchFits
    <2> QED BY Zenon, <2>1, <2>4, OneDispatch
  <1>2. CASE Abandon(d)
    BY Zenon, <1>2, IdleFits, OneDispatch DEF Abandon
  <1> QED BY Zenon, <1>1, <1>2

\* While the site is as it is, rows and dispatchers that fit make the invariant.
LEMMA MovesSuffice ==
    ASSUME RowsMove, DispatchesMove, tokens' \in Nat, UNCHANGED <<version, inbox>>
    PROVE  OutboxInv'
  BY Zenon DEF OutboxInv, RowsMove, DispatchesMove, RowFits, DispatchFits

\* What is not changed fits as before.
LEMMA SameRows == OutboxInv /\ outbox' = outbox => RowsMove
  BY Zenon DEF OutboxInv, RowsMove, RowKept

\* The same of the dispatchers.
LEMMA SameDispatches == OutboxInv /\ disp' = disp => DispatchesMove
  BY Zenon DEF OutboxInv, DispatchesMove

\* Steps of the gateway without the site keep the outbox's invariant and outcomes.
LEMMA OutboxStepSafe ==
    ASSUME OutboxInv, OutboxStep, UNCHANGED siteVars
    PROVE  OutboxInv' /\ RowsMove
  <1>0. UNCHANGED <<version, inbox>> /\ tokens \in Nat
    BY Zenon DEF siteVars, OutboxInv
  <1>1. ASSUME NEW d \in Dispatchers, NEW n \in Rows, Claim(d, n) PROVE OutboxInv' /\ RowsMove
    BY Zenon, <1>0, <1>1, ClaimSafe, MovesSuffice
  <1>2. ASSUME NEW d \in Dispatchers, Retire(d) PROVE OutboxInv' /\ RowsMove
    <2>1. outbox' = Retired /\ disp' = disp /\ tokens' = tokens
      BY Zenon, <1>2 DEF Retire
    <2>2. RowsMove
      <3>1. Retired = [n \in Rows |-> Retired[n]]
        BY Zenon DEF Retired
      <3> QED BY Zenon, <2>1, <3>1, RetiredFits DEF RowsMove, RowFits
    <2> QED BY Zenon, <1>0, <2>1, <2>2, SameDispatches, MovesSuffice
  <1>3. ASSUME NEW d \in Dispatchers, Recheck(d) \/ Abandon(d) PROVE OutboxInv' /\ RowsMove
    <2>1. outbox' = outbox /\ tokens' = tokens
      BY Zenon, <1>3 DEF Recheck, Abandon
    <2> QED BY Zenon, <1>0, <1>3, <2>1, RecheckSafe, SameRows, MovesSuffice
  <1>4. ASSUME NEW d \in Dispatchers, Finish(d) PROVE OutboxInv' /\ RowsMove
    <2>1. tokens' = tokens
      BY Zenon, <1>4 DEF Finish
    <2> QED BY Zenon, <1>0, <1>4, <2>1, FinishSafe, MovesSuffice
  <1>5. ASSUME NEW n \in Rows, NEW g \in 0 .. GenerationBound, Replay(n, g)
        PROVE  OutboxInv' /\ RowsMove
    <2>1. disp' = disp /\ tokens' = tokens
      BY Zenon, <1>5 DEF Replay
    <2> QED BY Zenon, <1>0, <1>5, <2>1, ReplaySafe, SameDispatches, MovesSuffice
  <1>6. ASSUME NEW n \in Rows, LeaseExpires(n) \/ FallsDue(n) \/ DeadlinePasses(n)
        PROVE  OutboxInv' /\ RowsMove
    <2>1. disp' = disp /\ tokens' = tokens
      BY Zenon, <1>6 DEF LeaseExpires, FallsDue, DeadlinePasses
    <2> QED BY Zenon, <1>0, <1>6, <2>1, ClockSafe, SameDispatches, MovesSuffice
  <1>7. CASE Pause \/ \E d \in Dispatchers, h \in Hashes : Start(d, h)
    <2>1. UNCHANGED <<outbox, disp, tokens>>
      BY Zenon, <1>7 DEF Pause, Start
    <2> QED BY Zenon, <1>0, <2>1, SameRows, SameDispatches, MovesSuffice
  <1> QED BY Zenon, <1>1, <1>2, <1>3, <1>4, <1>5, <1>6, <1>7 DEF OutboxStep

(***************************************************************************)
(* The two together.                                                       *)
(***************************************************************************)
\* The request: the site's answer is 2xx only after the event is in the inbox.
LEMMA SendingSafe ==
    ASSUME SiteInv, OutboxInv, NEW d \in Dispatchers, Sending(d)
    PROVE  SiteInv' /\ OutboxInv' /\ outbox' = outbox
  <1>1. PICK processed, success \in BOOLEAN :
            /\ Send(d, processed, success)
            /\ IF processed THEN Receive(disp[d].row) ELSE UNCHANGED siteVars
    BY Zenon DEF Sending
  <1> DEFINE n == disp[d].row
  <1>2. /\ DispatchFits(disp[d]) /\ disp[d].at = "sending" /\ n \in Rows /\ n <= version
        /\ success => processed
    BY Zenon, <1>1 DEF OutboxInv, DispatchFits, Send
  <1>3. n \in 1 .. version
    BY <1>2, RowsAreEvents DEF SiteInv, SiteType
  <1>4. SiteInv'
    BY Zenon, <1>1, <1>3, ReceiveSafe, SiteStutters
  <1>5. /\ version' = version /\ inbox \subseteq inbox'
        /\ processed => n \in inbox'
    BY Zenon, <1>1 DEF Receive, siteVars
  <1> DEFINE x == [disp[d] EXCEPT !.at = "sent", !.success = success]
  <1>6. outbox' = outbox /\ tokens' = tokens /\ disp' = [disp EXCEPT ![d] = x]
    BY Zenon, <1>1 DEF Send
  <1>7. x \in Dispatch /\ x.row = n /\ x.success = success
    BY Zenon, <1>2 DEF DispatchFits, Dispatch
  <1> HIDE DEF n, x
  <1>8. /\ disp' \in [Dispatchers -> Dispatch] /\ disp'[d] = x
        /\ \A e \in Dispatchers \ {d} : disp'[e] = disp[e]
    BY Zenon, <1>6, <1>7 DEF OutboxInv
  <1>9. \A e \in Dispatchers : DispatchFits(disp[e])'
    BY Zenon, <1>2, <1>5, <1>7, <1>8 DEF OutboxInv, DispatchFits
  <1>10. \A m \in Rows : RowFits(m, outbox[m])'
    BY Zenon, <1>5, <1>6 DEF OutboxInv, RowFits
  <1> QED BY Zenon, <1>4, <1>6, <1>8, <1>9, <1>10 DEF OutboxInv

\* An event commits with its row, or without one when the endpoint is paused.
LEMMA CaptureSafe ==
    ASSUME SiteInv, SiteInv', OutboxInv, version <= version', inbox' = inbox,
           CaptureIfEnabled(version')
    PROVE  OutboxInv' /\ \A n \in Rows : RowKept(outbox[n], outbox'[n])
  <1>1. CASE UNCHANGED vars
    BY Zenon, <1>1, OutboxMono DEF vars, RowKept
  <1>2. CASE Capture(version')
    <2> DEFINE n == version'
    <2>1. UNCHANGED <<disp, tokens>> /\ outbox[n].state = "none"
      BY Zenon, <1>2 DEF Capture
    <2>2. \A d \in Dispatchers : DispatchFits(disp[d])'
      <3> TAKE d \in Dispatchers
      <3>1. disp[d].row \in Rows => disp[d].row \in Nat
        BY RowsAreEvents
      <3>2. disp[d].row \in Rows /\ disp[d].row <= version => disp[d].row <= version'
        BY <3>1 DEF SiteInv, SiteType
      <3>3. DispatchFits(disp[d]) /\ disp' = disp /\ inbox' = inbox
        BY Zenon, <2>1 DEF OutboxInv
      <3> QED BY <3>2, <3>3, Zenon DEF DispatchFits
    <2>3. CASE n \notin Rows
      <3>1. outbox' = outbox
        BY Zenon, <1>2, <2>3 DEF Capture, OutboxInv
      <3>2. \A m \in Rows : RowFits(m, outbox[m])'
        BY <3>1, RowsAreEvents DEF OutboxInv, RowFits, SiteInv, SiteType
      <3> QED BY Zenon, <2>1, <2>2, <3>1, <3>2 DEF OutboxInv, RowKept
    <2>4. CASE n \in Rows
      <3> DEFINE x == [outbox[n] EXCEPT !.state = "PENDING", !.due = TRUE]
      <3>1. outbox' = [outbox EXCEPT ![n] = x]
        BY Zenon, <1>2 DEF Capture
      <3>2. /\ x \in Row /\ x.state = "PENDING" /\ x.leased = outbox[n].leased
            /\ RowFits(n, outbox[n])
        BY Zenon, <2>4 DEF OutboxInv, Row
      <3> HIDE DEF x
      <3>3. ASSUME NEW m \in Rows
            PROVE  RowFits(m, outbox[m])' /\ RowKept(outbox[m], outbox'[m])
        <4>1. CASE m = n
          <5>1. outbox'[m] = x /\ outbox[m].state = "none" /\ ~x.leased
            BY Zenon, <2>1, <2>4, <3>1, <3>2, <4>1 DEF OutboxInv, RowFits
          <5>2. m <= version'
            BY <4>1 DEF SiteInv, SiteType
          <5> QED BY Zenon, <3>2, <5>1, <5>2 DEF RowFits, RowKept
        <4>2. CASE m # n
          <5>1. outbox'[m] = outbox[m] /\ RowFits(m, outbox[m])
            BY Zenon, <3>1, <4>2 DEF OutboxInv
          <5>2. m <= version => m <= version'
            BY RowsAreEvents DEF SiteInv, SiteType
          <5> QED BY Zenon, <5>1, <5>2 DEF RowFits, RowKept
        <4> QED BY Zenon, <4>1, <4>2
      <3>4. outbox' \in [Rows -> Row]
        BY Zenon, <3>1, <3>2 DEF OutboxInv
      <3> QED BY Zenon, <2>1, <2>2, <3>3, <3>4 DEF OutboxInv
    <2> QED BY Zenon, <2>3, <2>4
  <1> QED BY Zenon, <1>1, <1>2 DEF CaptureIfEnabled

\* Every step keeps both invariants, and no outcome of a row is lost.
LEMMA EndToEndStep ==
    ASSUME SiteInv, OutboxInv, [EndToEndNext]_allVars
    PROVE  /\ SiteInv' /\ OutboxInv'
           /\ \A n \in Rows : RowKept(outbox[n], outbox'[n])
  <1>1. CASE OutboxStep /\ UNCHANGED siteVars
    BY Zenon, <1>1, OutboxStepSafe, SiteStutters DEF RowsMove
  <1>2. CASE SiteAlone /\ UNCHANGED vars
    <2>1. SiteInv'
      BY Zenon, <1>2, SubmitSafe, ReconcileSafe DEF SiteAlone
    <2>2. version' = version /\ inbox' = inbox
      BY Zenon, <1>2 DEF SiteAlone, SubmitFails, ReconcileStep, ReconcileFails, List, Ask, Begin,
                  ReadStatus, ReadFeedback, Snapshot, Store
    <2>3. version <= version'
      BY <2>2 DEF SiteInv, SiteType
    <2> QED BY Zenon, <1>2, <2>1, <2>2, <2>3, OutboxMono DEF vars, RowKept
  <1>3. ASSUME NEW c \in Clients, Submitting(c)
        PROVE  /\ SiteInv' /\ OutboxInv'
               /\ \A n \in Rows : RowKept(outbox[n], outbox'[n])
    <2>1. SiteInv' /\ inbox' = inbox
      BY Zenon, <1>3, SubmitSafe DEF Submitting, SubmitStep, Keep, Post, KeepAnswer
    <2>2. version <= version'
      BY <1>3 DEF Submitting, SubmitStep, Keep, Post, KeepAnswer, SiteInv, SiteType
    <2> QED BY Zenon, <1>3, <2>1, <2>2, CaptureSafe, OutboxMono DEF Submitting, vars, RowKept
  <1>4. ASSUME NEW d \in Dispatchers, Sending(d)
        PROVE  /\ SiteInv' /\ OutboxInv'
               /\ \A n \in Rows : RowKept(outbox[n], outbox'[n])
    BY Zenon, <1>4, SendingSafe DEF RowKept
  <1>5. CASE Happening
    <2>1. SiteInv' /\ inbox' = inbox
      BY Zenon, <1>5, HappensSafe DEF Happening, Happens
    <2>2. version <= version'
      BY <1>5 DEF Happening, Happens, SiteInv, SiteType
    <2> QED BY Zenon, <1>5, <2>1, <2>2, CaptureSafe DEF Happening
  <1>6. CASE UNCHANGED allVars
    <2>1. UNCHANGED siteVars /\ UNCHANGED vars
      BY Zenon, <1>6 DEF allVars
    <2>2. version <= version' /\ inbox \subseteq inbox'
      BY <2>1 DEF siteVars, SiteInv, SiteType
    <2> QED BY Zenon, <2>1, <2>2, SiteStutters, OutboxMono DEF vars, RowKept
  <1> QED BY Zenon, <1>1, <1>2, <1>3, <1>4, <1>5, <1>6 DEF EndToEndNext

\* At the start no event has happened and no row exists.
LEMMA EndToEndInitially == EndToEndInit => SiteInv /\ OutboxInv
  <1> SUFFICES ASSUME EndToEndInit PROVE SiteInv /\ OutboxInv
    OBVIOUS
  <1>1. SiteInv
    BY Zenon, SiteInitially DEF EndToEndInit
  <1>2. 0 \in 0 .. MaxAttempts /\ 0 \in 0 .. GenerationBound
    BY WebhookAssumption
  <1>3. NotCaptured \in Row
    BY Zenon, <1>2 DEF NotCaptured, Row
  <1>4. \A n \in Rows : RowFits(n, NotCaptured)
    BY Zenon, <1>3 DEF RowFits, NotCaptured
  <1>5. OutboxInv
    BY Zenon, <1>3, <1>4, IdleFits DEF EndToEndInit, Init, OutboxInv, DispatchFits
  <1> QED BY Zenon, <1>1, <1>5

\* Whatever the dispatchers deliver, and however often: a row of the site that is not
\* marked for a refresh shows every event it was notified of (Reconcile, receive).
THEOREM SiteIsCurrent == EndToEndSpec => []RefreshCoversInbox
  BY EndToEndInitially, EndToEndStep, SiteShows, PTL DEF EndToEndSpec

\* A notification is confirmed only once the site has committed it: claims that
\* expire, dispatchers that were replaced and answers that come late or get lost do
\* not make a row DELIVERED (finish, receive).
THEOREM ConfirmedIsKept == EndToEndSpec => []DeliveredIsKept
  <1>1. OutboxInv => DeliveredIsKept
    BY DEF OutboxInv, RowFits, DeliveredIsKept
  <1> QED BY <1>1, EndToEndInitially, EndToEndStep, PTL DEF EndToEndSpec

\* A confirmed row is never touched again, and one that was given up only by a
\* replay, which opens its next generation (claim, finish, Replay).
THEOREM OutcomesAreFinal == EndToEndSpec => OutcomesStay
  <1>1. SiteInv /\ OutboxInv /\ [EndToEndNext]_allVars =>
            [\A n \in Rows :
               /\ outbox[n].state = "DELIVERED" => outbox'[n] = outbox[n]
               /\ outbox[n].state = "DEAD" /\ outbox'[n] # outbox[n] =>
                      outbox'[n].generation = outbox[n].generation + 1]_vars
    BY EndToEndStep DEF RowKept
  <1> QED BY <1>1, EndToEndInitially, EndToEndStep, PTL DEF EndToEndSpec, OutcomesStay
==============================================================================
