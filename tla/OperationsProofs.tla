--------------------------- MODULE OperationsProofs ---------------------------
(***************************************************************************)
(* What the programs that share an installation may do to it: who may work *)
(* on its database (RuntimeOwnership) and which archive files may go       *)
(* (ArchiveLifecycle), for any number of programs, restarts, archives,     *)
(* calls and failures.                                                     *)
(***************************************************************************)
EXTENDS RuntimeOwnership, ArchiveLifecycle, TLAPS

(***************************************************************************)
(* Exclusion and AuxiliarySchemaFits, for any slots and any versions.      *)
(*                                                                         *)
(* A program at work is protected by its row, not by its session.  So the  *)
(* argument is about rows: who may have one, and what holds while one is   *)
(* being inserted or deleted by a session that may still end or commit     *)
(* without its program.                                                    *)
(***************************************************************************)
\* A session's locks and its transaction end with it.  Admission is held as long
\* as the session, but by a gateway only until its row commits.
SessionHolds(p) ==
    /\ session[p] # "open" => admission[p] = "none" /\ tx[p] = "none" /\ ownerKey # p
    /\ p \in Offline /\ session[p] = "open" => admission[p] = "exclusive"
    /\ p \in Auxiliaries /\ session[p] = "open" => admission[p] = "shared"
    /\ p \notin Offline => admission[p] # "exclusive"
    /\ p \in Gateways /\ session[p] = "open" /\ (pc[p] = "admitted" \/ tx[p] = "insert") =>
            admission[p] = "shared"

AdmissionExcludes ==
    \A p, q \in Processes : p # q /\ admission[p] = "exclusive" => admission[q] = "none"

\* An uncommitted change is of a program that waits for it, or no longer runs; one
\* that has not come to its row has none.
ChangeIsOwn(p) ==
    /\ pc[p] \in {"start", "admitted", "checked"} => tx[p] = "none" /\ ~Row(p)
    /\ tx[p] = "insert" => pc[p] \in {"inserted", "stopped"}
    /\ tx[p] = "delete" => pc[p] = "stopped" /\ Row(p)

\* The key guards the one row, from before it is inserted to after it is deleted.
KeyGuardsRow(p) ==
    /\ p \in Exclusive /\ tx[p] = "insert" => ownerKey = p /\ owner = NoProcess
    /\ owner = p /\ session[p] = "open" => ownerKey = p

\* An offline command that has looked for rows and still holds admission is alone.
OfflineIsAlone(p) ==
    p \in Offline /\ session[p] = "open" /\ (pc[p] = "checked" \/ tx[p] = "insert" \/ p \in bootstrap)
        => owner = NoProcess /\ aux = {}

\* Without a table there is no row to insert.
BootstrapHasNoRow(p) ==
    p \in bootstrap => tx[p] # "insert" /\ pc[p] \notin {"start", "admitted", "checked", "inserted"}

\* An auxiliary row and an offline row exclude each other.
AuxiliaryRowsFit ==
    /\ owner \in Offline => aux = {}
    /\ \A p \in Auxiliaries : tx[p] = "insert" => owner \notin Offline

\* One row, or one row to come, per slot.
SlotsAreFree ==
    \A p, q \in Auxiliaries :
        p # q /\ Slot[p] = Slot[q] =>
            /\ ~(p \in aux /\ q \in aux)
            /\ tx[p] = "insert" => q \notin aux /\ tx[q] # "insert"

\* The row outlives the work.
WorkHasRow(p) == Working(p) /\ p \notin bootstrap => Row(p) \/ p \in misled

\* What an auxiliary command has seen of the schema stays so: whoever can change it
\* is an offline owner, whose row nobody takes away while the command is admitted.
SchemaStays(p) ==
    bootstrap = {} /\ misled = {} =>
        /\ pc[p] = "checked" /\ session[p] = "open" => schema = Binary[p] \/ owner \in Offline
        /\ tx[p] = "insert" \/ Working(p) => schema = Binary[p]

OwnershipInv ==
    /\ TypeOK
    /\ \A p \in Processes : SessionHolds(p)
    /\ AdmissionExcludes
    /\ \A p \in Processes : ChangeIsOwn(p)
    /\ \A p \in Processes : KeyGuardsRow(p)
    /\ \A p \in Processes : OfflineIsAlone(p)
    /\ \A p \in Processes : BootstrapHasNoRow(p)
    /\ AuxiliaryRowsFit
    /\ SlotsAreFree
    /\ \A p \in Processes : WorkHasRow(p)
    /\ \A p \in Auxiliaries : SchemaStays(p)

\* The rows of programs that work decide who else may.
LEMMA OwnershipExcludes == OwnershipInv => Exclusion
  BY OwnershipAssumption
     DEF OwnershipInv, TypeOK, SessionHolds, AdmissionExcludes, OfflineIsAlone, AuxiliaryRowsFit,
         SlotsAreFree, WorkHasRow, Exclusion, Protected, Compatible, Row, Processes, Exclusive

\* Nobody has started.
LEMMA OwnershipInitially == Init => OwnershipInv
  BY OwnershipAssumption
     DEF Init, OwnershipInv, TypeOK, SessionHolds, AdmissionExcludes, ChangeIsOwn, KeyGuardsRow,
         OfflineIsAlone, BootstrapHasNoRow, AuxiliaryRowsFit, SlotsAreFree, WorkHasRow,
         SchemaStays, Working, Row, Processes, Exclusive

\* Admission is refused to an offline command beside anybody, and to anybody beside
\* an offline command.
LEMMA AdmitSafe == ASSUME OwnershipInv, NEW r \in Processes, Admit(r) PROVE OwnershipInv'
  <1> USE OwnershipAssumption DEF OwnershipInv, TypeOK, Processes, Exclusive
  <1>1. TypeOK'
    BY DEF Admit
  <1>2. /\ pc' = [pc EXCEPT ![r] = "admitted"] /\ session' = [session EXCEPT ![r] = "open"]
        /\ admission' = [admission EXCEPT ![r] = IF r \in Offline THEN "exclusive" ELSE "shared"]
        /\ pc[r] \in {"start", "checked"} /\ (r \notin Gateways => pc[r] = "start")
        /\ UNCHANGED <<ownerKey, tx, owner, aux, retained, schema, bootstrap, misled>>
    BY DEF Admit
  <1>3. \A p \in Processes : SessionHolds(p)'
    BY <1>2 DEF SessionHolds
  <1>4. AdmissionExcludes'
    BY DEF Admit, AdmissionExcludes, NoExclusive, NoAdmission
  <1>5. \A p \in Processes : ChangeIsOwn(p)'
    BY <1>2 DEF ChangeIsOwn, Row
  <1>6. \A p \in Processes : KeyGuardsRow(p)'
    BY <1>2 DEF KeyGuardsRow, ChangeIsOwn, Row
  <1>7. \A p \in Processes : OfflineIsAlone(p)' /\ BootstrapHasNoRow(p)'
    BY <1>2 DEF OfflineIsAlone, BootstrapHasNoRow, ChangeIsOwn
  <1>8. AuxiliaryRowsFit' /\ SlotsAreFree'
    BY <1>2 DEF AuxiliaryRowsFit, SlotsAreFree
  <1>9. \A p \in Processes : WorkHasRow(p)'
    BY <1>2 DEF WorkHasRow, Working, Row
  <1>10. \A p \in Auxiliaries : SchemaStays(p)'
    BY <1>2 DEF SchemaStays, Working
  <1> QED BY <1>1, <1>3, <1>4, <1>5, <1>6, <1>7, <1>8, <1>9, <1>10

\* Every other step, of any program or of the server, keeps the invariant.
LEMMA OwnershipSafe == ASSUME OwnershipInv, [Next]_vars PROVE OwnershipInv'
  <1> USE OwnershipAssumption
      DEF OwnershipInv, TypeOK, SessionHolds, AdmissionExcludes, ChangeIsOwn, KeyGuardsRow,
          OfflineIsAlone, BootstrapHasNoRow, AuxiliaryRowsFit, SlotsAreFree, WorkHasRow,
          SchemaStays, Working, Row, Processes, Exclusive
  <1>1. CASE UNCHANGED vars
    BY <1>1 DEF vars
  <1>2. ASSUME NEW r \in Processes, CheckSchema(r) PROVE OwnershipInv'
    BY <1>2 DEF CheckSchema
  <1>3. ASSUME NEW r \in Processes, CheckOwners(r) PROVE OwnershipInv'
    BY <1>3 DEF CheckOwners, CheckNoRuntime
  <1>4. ASSUME NEW r \in Processes, CheckSchemaAdmitted(r) PROVE OwnershipInv'
    BY <1>4 DEF CheckSchemaAdmitted, SchemaFits
  <1>5. ASSUME NEW r \in Processes, RegisterBootstrap(r) PROVE OwnershipInv'
    BY <1>5 DEF RegisterBootstrap, MayRegister
  <1>6. ASSUME NEW r \in Processes, InsertOwner(r) PROVE OwnershipInv'
    BY <1>6 DEF InsertOwner, MayRegister
  <1>7. ASSUME NEW r \in Processes, InsertAuxiliary(r) PROVE OwnershipInv'
    BY <1>7 DEF InsertAuxiliary, MayRegister
  <1>8. ASSUME NEW r \in Processes, Commit(r) PROVE OwnershipInv'
    BY <1>8 DEF Commit, Committed
  <1>9. ASSUME NEW r \in Processes, LateCommit(r) PROVE OwnershipInv'
    BY <1>9 DEF LateCommit, Committed
  <1>10. ASSUME NEW r \in Processes, LoseOwnership(r) PROVE OwnershipInv'
    BY <1>10 DEF LoseOwnership
  <1>11. ASSUME NEW r \in Processes, RunFails(r) PROVE OwnershipInv'
    BY <1>11 DEF RunFails
  <1>12. ASSUME NEW r \in Processes, Join(r) PROVE OwnershipInv'
    BY <1>12 DEF Join
  <1>13. ASSUME NEW r \in Processes, Release(r) PROVE OwnershipInv'
    BY <1>13 DEF Release
  <1>14. ASSUME NEW r \in Processes, Stops(r) PROVE OwnershipInv'
    BY <1>14 DEF Stops
  <1>15. ASSUME NEW r \in Processes, SessionEnds(r) PROVE OwnershipInv'
    BY <1>15 DEF SessionEnds
  <1>16. ASSUME NEW r \in Processes, Migrate(r) PROVE OwnershipInv'
    BY <1>16 DEF Migrate
  <1>17. ASSUME NEW r \in Processes, ReleaseStaleOwner(r) PROVE OwnershipInv'
    BY <1>17 DEF ReleaseStaleOwner
  <1>18. ASSUME NEW r \in Processes, ReleaseStaleAuxiliary(r) PROVE OwnershipInv'
    BY <1>18 DEF ReleaseStaleAuxiliary
  <1> HIDE DEF OwnershipInv, TypeOK, SessionHolds, AdmissionExcludes, ChangeIsOwn, KeyGuardsRow,
               OfflineIsAlone, BootstrapHasNoRow, AuxiliaryRowsFit, SlotsAreFree, WorkHasRow,
               SchemaStays, Working, Row, Processes, Exclusive
  <1> QED BY <1>1, <1>2, <1>3, <1>4, <1>5, <1>6, <1>7, <1>8, <1>9,
             <1>10, <1>11, <1>12, <1>13, <1>14, <1>15, <1>16, <1>17, <1>18,
             AdmitSafe DEF Next

\* Two programs that must not work at once never do: of gateways, offline and
\* auxiliary commands, however often they are restarted, whatever sessions end under
\* them and whichever commits take effect late (AcquireRuntime, AcquireOffline,
\* AcquireAuxiliary, Release).
THEOREM OwnersExclude == Spec => []Exclusion
  BY OwnershipInitially, OwnershipSafe, OwnershipExcludes, PTL DEF Spec

\* In an installed system the schema of an auxiliary command at work is the one it
\* was built for, although a migration that lost its session may still be running
\* when the command checks (AcquireAuxiliary, CheckNoAuxiliary).
THEOREM AuxiliarySchemaStays == Spec => []AuxiliarySchemaFits
  <1>1. OwnershipInv => AuxiliarySchemaFits
    BY DEF OwnershipInv, SchemaStays, AuxiliarySchemaFits
  <1> QED BY <1>1, OwnershipInitially, OwnershipSafe, PTL DEF Spec

-----------------------------------------------------------------------------
(***************************************************************************)
(* The archive files.  A file that is gone stays gone, since its writer    *)
(* has long linked it; what a call of Cleanup or of ReclaimArchive may     *)
(* remove is pinned by the row or by the retirement it committed before.   *)
(***************************************************************************)
CleanerRecords ==
    [pc : {"idle", "chosen", "gated", "pending", "unlinked", "synced"},
     item : Archives \cup {Nobody}, session : BOOLEAN]

ReclaimerRecords ==
    [pc : {"idle", "inspected", "retired", "removed", "synced"},
     item : Archives \cup {Nobody}, present : BOOLEAN]

ArchiveTypes ==
    /\ writer \in [Archives -> {"start", "linked", "synced", "inserted", "done"}]
    /\ row \in [Archives -> {"none", "AVAILABLE", "PURGE_PENDING", "PURGED"}]
    /\ observed \in [Archives -> {"none", "fresh", "aged"}]
    /\ visible \subseteq Archives /\ durable \subseteq Archives
    /\ retired \subseteq Archives /\ reclaimed \subseteq Archives
    /\ feedback \in [open : BOOLEAN, unreviewed : BOOLEAN, reports : Nat]
    /\ gate \in Cleaners \cup {"report", Nobody}
    /\ cleaner \in [Cleaners -> CleanerRecords]
    /\ reclaimer \in [Reclaimers -> ReclaimerRecords]

FileOK(x) ==
    /\ writer[x] = "start" => /\ x \notin visible /\ x \notin durable /\ x \notin retired
                              /\ observed[x] = "none" /\ row[x] = "none"
    /\ writer[x] = "linked" /\ x \notin retired => x \in visible
    /\ writer[x] \in {"synced", "inserted"} /\ x \notin retired => x \in visible /\ x \in durable
    /\ writer[x] = "inserted" => x \notin retired /\ row[x] = "none"
    /\ row[x] # "none" => writer[x] = "done" /\ x \notin retired
    /\ row[x] = "AVAILABLE" => x \in visible /\ x \in durable
    /\ row[x] = "PURGED" => x \notin visible /\ x \notin durable
    /\ x \in reclaimed => x \in retired /\ x \notin visible /\ x \notin durable

CleanerOK(c) ==
    LET x == cleaner[c].item IN
    /\ cleaner[c].pc # "idle" => x \in Archives /\ row[x] # "none"
    /\ cleaner[c].pc \in {"pending", "unlinked", "synced"} => row[x] \in {"PURGE_PENDING", "PURGED"}
    /\ cleaner[c].pc \in {"unlinked", "synced"} => x \notin visible
    /\ cleaner[c].pc = "synced" => x \notin durable
    /\ cleaner[c].pc = "gated" /\ cleaner[c].session => gate = c

ReclaimerOK(o) ==
    LET x == reclaimer[o].item IN
    /\ reclaimer[o].pc # "idle" => x \in Archives /\ writer[x] # "start"
    /\ reclaimer[o].pc # "idle" /\ ~reclaimer[o].present => x \notin visible
    /\ reclaimer[o].pc \in {"retired", "removed", "synced"} => x \in retired
    /\ reclaimer[o].pc \in {"removed", "synced"} => x \notin visible
    /\ reclaimer[o].pc = "synced" => x \notin durable

ArchiveInv ==
    /\ ArchiveTypes
    /\ \A x \in Archives : FileOK(x)
    /\ \A c \in Cleaners : CleanerOK(c)
    /\ \A o \in Reclaimers : ReclaimerOK(o)
    /\ feedback.open => gate = "report"

\* What is under way stays so: no file comes back, no retirement, row or start is undone.
Onward(x) ==
    /\ writer[x] # "start" => /\ writer'[x] # "start"
                              /\ x \in visible' => x \in visible
                              /\ x \in durable' => x \in visible \/ x \in durable
    /\ row[x] # "none" => row'[x] # "none"
    /\ row[x] \in {"PURGE_PENDING", "PURGED"} => row'[x] \in {"PURGE_PENDING", "PURGED"}
    /\ x \in retired => x \in retired'

\* A call of Cleanup that does not move is not disturbed.
LEMMA CleanerWaits ==
    ASSUME ArchiveInv, \A x \in Archives : Onward(x), NEW c \in Cleaners,
           cleaner'[c] = cleaner[c], gate = c => gate' = c
    PROVE  CleanerOK(c)'
  <1>1. CleanerOK(c) /\ \A x \in Archives : FileOK(x)
    BY Zenon DEF ArchiveInv
  <1>2. CASE cleaner[c].pc = "idle"
    BY Zenon, <1>2 DEF CleanerOK
  <1>3. CASE cleaner[c].pc # "idle"
    <2>1. PICK x \in Archives : x = cleaner[c].item /\ FileOK(x) /\ Onward(x)
      BY Zenon, <1>1, <1>3 DEF CleanerOK
    <2>. QED
      BY Zenon, <1>1, <1>3, <2>1 DEF CleanerOK, FileOK, Onward
  <1>. QED
    BY Zenon, <1>2, <1>3

\* Nor is a call of ReclaimArchive.
LEMMA ReclaimerWaits ==
    ASSUME ArchiveInv, \A x \in Archives : Onward(x), NEW o \in Reclaimers,
           reclaimer'[o] = reclaimer[o]
    PROVE  ReclaimerOK(o)'
  <1>1. ReclaimerOK(o)
    BY Zenon DEF ArchiveInv
  <1>2. CASE reclaimer[o].pc = "idle"
    BY Zenon, <1>2 DEF ReclaimerOK
  <1>3. CASE reclaimer[o].pc # "idle"
    <2>1. PICK x \in Archives : x = reclaimer[o].item /\ Onward(x)
      BY Zenon, <1>1, <1>3 DEF ReclaimerOK
    <2>. QED
      BY Zenon, <1>1, <1>3, <2>1 DEF ReclaimerOK, Onward
  <1>. QED
    BY Zenon, <1>2, <1>3

\* A step in which no call moves: it is enough to look at the files.
LEMMA FilesStep ==
    ASSUME ArchiveInv, ArchiveTypes', UNCHANGED <<cleaner, reclaimer>>,
           \A x \in Archives : Onward(x) /\ FileOK(x)',
           feedback'.open => gate' = "report", \A c \in Cleaners : gate = c => gate' = c
    PROVE  ArchiveInv'
  <1>1. \A c \in Cleaners : CleanerOK(c)'
    BY Zenon, CleanerWaits
  <1>2. \A o \in Reclaimers : ReclaimerOK(o)'
    BY Zenon, ReclaimerWaits
  <1>. QED
    BY <1>1, <1>2, Zenon DEF ArchiveInv

\* The writer, the end of a delivery and the observation of a file.
LEMMA WriterStep ==
    ASSUME ArchiveInv, NEW x \in Archives,
           \/ Link(x) \/ SyncWritten(x) \/ Insert(x) \/ CommitMessage(x) \/ WriterFails(x)
           \/ Settle(x) \/ Observe(x) \/ ObservationAges(x)
    PROVE  ArchiveInv'
  <1>1. /\ UNCHANGED <<cleaner, reclaimer, feedback, gate, retired, reclaimed>>
        /\ ArchiveTypes
    BY Zenon DEF Link, SyncWritten, Insert, CommitMessage, WriterFails, Settle, Observe, ObservationAges,
           retention, recovery, ArchiveInv
  <1>2. /\ writer' \in [Archives -> {"start", "linked", "synced", "inserted", "done"}]
        /\ row' \in [Archives -> {"none", "AVAILABLE", "PURGE_PENDING", "PURGED"}]
        /\ observed' \in [Archives -> {"none", "fresh", "aged"}]
        /\ visible' \subseteq Archives /\ durable' \subseteq Archives
    BY <1>1 DEF Link, SyncWritten, Insert, CommitMessage, WriterFails, Settle, Observe, ObservationAges,
           messages, files, retention, recovery, ArchiveTypes
  <1>3. ArchiveTypes'
    BY <1>1, <1>2, Zenon DEF ArchiveTypes
  <1>4. ASSUME NEW y \in Archives PROVE Onward(y) /\ FileOK(y)'
    <2>1. FileOK(y) /\ FileOK(x)
      BY Zenon DEF ArchiveInv
    <2>2. CASE Link(x)
      BY Zenon, <1>1, <2>1, <2>2 DEF Link, Onward, FileOK, ArchiveTypes, recovery, retention
    <2>3. CASE SyncWritten(x)
      BY Zenon, <1>1, <2>1, <2>3 DEF SyncWritten, Onward, FileOK, ArchiveTypes, recovery, retention
    <2>4. CASE Insert(x)
      BY Zenon, <1>1, <2>1, <2>4 DEF Insert, NotRetired, Onward, FileOK, ArchiveTypes, files, recovery, retention
    <2>5. CASE CommitMessage(x)
      BY Zenon, <1>1, <2>1, <2>5 DEF CommitMessage, Onward, FileOK, ArchiveTypes, files, recovery, retention
    <2>6. CASE WriterFails(x)
      BY Zenon, <1>1, <2>1, <2>6 DEF WriterFails, Onward, FileOK, ArchiveTypes, files, recovery, retention
    <2>7. CASE Settle(x)
      BY Zenon, <1>1, <2>1, <2>7 DEF Settle, Onward, FileOK, ArchiveTypes, files, recovery, retention
    <2>8. CASE Observe(x) \/ ObservationAges(x)
      BY <1>1, <2>1, <2>8 DEF Observe, ObservationAges, Onward, FileOK, ArchiveTypes, files, messages, retention
    <2>. QED
      BY Zenon, <2>2, <2>3, <2>4, <2>5, <2>6, <2>7, <2>8
  <1>5. feedback'.open => gate' = "report"
    BY Zenon, <1>1 DEF ArchiveInv
  <1>. QED
    BY Zenon, <1>1, <1>3, <1>4, <1>5, FilesStep

\* The reports.
LEMMA ReportStep ==
    ASSUME ArchiveInv, InsertReport \/ EndReport \/ ReviewReports
    PROVE  ArchiveInv'
  <1>1. UNCHANGED <<messages, files, recovery, cleanup, cleaner>> /\ ArchiveTypes
    BY Zenon DEF InsertReport, EndReport, ReviewReports, ArchiveInv
  <1>2. /\ feedback' \in [open : BOOLEAN, unreviewed : BOOLEAN, reports : Nat]
        /\ gate' \in Cleaners \cup {"report", Nobody}
        /\ feedback'.open => gate' = "report"
        /\ \A c \in Cleaners : gate = c => gate' = c
    <2>0. feedback \in [open : BOOLEAN, unreviewed : BOOLEAN, reports : Nat]
          /\ gate \in Cleaners \cup {"report", Nobody} /\ (feedback.open => gate = "report")
      BY Zenon DEF ArchiveInv, ArchiveTypes
    <2>1. CASE InsertReport
      <3>1. PICK n \in Nat : n = feedback.reports + 1
        BY <2>0
      <3>2. feedback' = [feedback EXCEPT !.open = TRUE, !.reports = n]
        BY <2>1, <3>1, Zenon DEF InsertReport
      <3>3. feedback' \in [open : BOOLEAN, unreviewed : BOOLEAN, reports : Nat]
        BY <2>0, <3>2, Zenon
      <3>. QED
        BY Zenon, <2>1, <3>3, LifecycleAssumption DEF InsertReport, GateFree
    <2>2. CASE EndReport
      BY Zenon, <2>0, <2>2, LifecycleAssumption DEF EndReport
    <2>3. CASE ReviewReports
      BY Zenon, <2>0, <2>3 DEF ReviewReports
    <2>. QED
      BY Zenon, <2>1, <2>2, <2>3
  <1>3. ArchiveTypes'
    BY <1>1, <1>2, Zenon DEF ArchiveTypes, messages, files, recovery
  <1>4. ASSUME NEW y \in Archives PROVE Onward(y) /\ FileOK(y)'
    BY Zenon, <1>1 DEF Onward, FileOK, ArchiveInv, messages, files, recovery
  <1>5. UNCHANGED <<cleaner, reclaimer>>
    BY Zenon, <1>1 DEF recovery
  <1>. QED
    BY Zenon, <1>2, <1>3, <1>4, <1>5, FilesStep

\* A step in which one call of Cleanup moves.
LEMMA CleanersStep ==
    ASSUME ArchiveInv, ArchiveTypes', UNCHANGED reclaimer, NEW d \in Cleaners, CleanerOK(d)',
           \A c \in Cleaners : c # d => cleaner'[c] = cleaner[c] /\ (gate = c => gate' = c),
           \A x \in Archives : Onward(x) /\ FileOK(x)',
           feedback'.open => gate' = "report"
    PROVE  ArchiveInv'
  <1>1. \A c \in Cleaners : c # d => CleanerOK(c)'
    BY Zenon, CleanerWaits
  <1>2. \A o \in Reclaimers : ReclaimerOK(o)'
    BY Zenon, ReclaimerWaits
  <1>. QED
    BY <1>1, <1>2, Zenon DEF ArchiveInv

\* How a call of Cleanup goes on, how it ends, and how it loses its session.
LEMMA MoveParts ==
    ASSUME ArchiveTypes, NEW c \in Cleaners,
           NEW where \in {"idle", "chosen", "gated", "pending", "unlinked", "synced"}, Move(c, where)
    PROVE  /\ cleaner' \in [Cleaners -> CleanerRecords]
           /\ cleaner'[c].pc = where /\ cleaner'[c].item = cleaner[c].item
           /\ cleaner'[c].session = cleaner[c].session
           /\ \A d \in Cleaners : d # c => cleaner'[d] = cleaner[d]
  <1> DEFINE r == [cleaner[c] EXCEPT !.pc = where]
  <1>1. cleaner[c] \in CleanerRecords
    BY Zenon DEF ArchiveTypes
  <1>2. /\ r \in CleanerRecords /\ r.pc = where /\ r.item = cleaner[c].item
        /\ r.session = cleaner[c].session
    BY Zenon, <1>1 DEF CleanerRecords
  <1>3. cleaner' = [cleaner EXCEPT ![c] = r]
    BY Zenon DEF Move
  <1>. HIDE DEF r
  <1>. QED
    BY Zenon, <1>2, <1>3 DEF ArchiveTypes

\* A call of Cleanup ends.
LEMMA EndParts ==
    ASSUME ArchiveTypes, NEW c \in Cleaners, cleaner' = [cleaner EXCEPT ![c] = IdleCleaner]
    PROVE  /\ cleaner' \in [Cleaners -> CleanerRecords] /\ CleanerOK(c)'
           /\ \A d \in Cleaners : d # c => cleaner'[d] = cleaner[d]
  <1>1. IdleCleaner \in CleanerRecords /\ IdleCleaner.pc = "idle"
    BY Zenon DEF IdleCleaner, CleanerRecords
  <1>2. cleaner' \in [Cleaners -> CleanerRecords] /\ cleaner'[c] = IdleCleaner
    BY Zenon, <1>1 DEF ArchiveTypes
  <1>3. CleanerOK(c)'
    BY Zenon, <1>1, <1>2 DEF CleanerOK
  <1>. QED
    BY Zenon, <1>2, <1>3 DEF ArchiveTypes

\* A call of Cleanup loses its session, and with it the gate.
LEMMA LossParts ==
    ASSUME ArchiveTypes, NEW c \in Cleaners, cleaner' = [cleaner EXCEPT ![c].session = FALSE]
    PROVE  /\ cleaner' \in [Cleaners -> CleanerRecords]
           /\ cleaner'[c].pc = cleaner[c].pc /\ cleaner'[c].item = cleaner[c].item
           /\ ~cleaner'[c].session
           /\ \A d \in Cleaners : d # c => cleaner'[d] = cleaner[d]
  <1> DEFINE r == [cleaner[c] EXCEPT !.session = FALSE]
  <1>1. cleaner[c] \in CleanerRecords
    BY Zenon DEF ArchiveTypes
  <1>2. /\ r \in CleanerRecords /\ r.pc = cleaner[c].pc /\ r.item = cleaner[c].item /\ ~r.session
    BY Zenon, <1>1 DEF CleanerRecords
  <1>3. cleaner' = [cleaner EXCEPT ![c] = r]
    BY Zenon
  <1>. HIDE DEF r
  <1>. QED
    BY <1>2, <1>3 DEF ArchiveTypes

\* A file is not disturbed when nothing about it changes.
LEMMA FileWaits ==
    ASSUME ArchiveInv, NEW x \in Archives,
           UNCHANGED <<writer, row, visible, durable, observed, retired, reclaimed>>
    PROVE  Onward(x) /\ FileOK(x)'
  BY Zenon DEF ArchiveInv, FileOK, Onward

\* The call chooses an item, waits for the gate, or gives up.
LEMMA ChooseStep ==
    ASSUME ArchiveInv, NEW c \in Cleaners,
           \/ \E x \in Archives : StartCleanup(c, x)
           \/ TakeGate(c) \/ CleanupFails(c) \/ CleanerLosesSession(c) \/ CleanerDies(c)
    PROVE  ArchiveInv'
  <1>1. /\ UNCHANGED <<messages, files, recovery, feedback>> /\ ArchiveTypes
        /\ gate \in Cleaners \cup {"report", Nobody} /\ (feedback.open => gate = "report")
    BY Zenon DEF StartCleanup, TakeGate, CleanupFails, CleanerLosesSession, CleanerDies, ArchiveInv, ArchiveTypes
  <1>2. /\ gate' \in Cleaners \cup {"report", Nobody} /\ (feedback'.open => gate' = "report")
        /\ \A d \in Cleaners : d # c => (gate = d => gate' = d)
    BY Zenon, <1>1, LifecycleAssumption DEF StartCleanup, TakeGate, CleanupFails, CleanerLosesSession, CleanerDies
  <1>3. /\ cleaner' \in [Cleaners -> CleanerRecords] /\ CleanerOK(c)'
        /\ \A d \in Cleaners : d # c => cleaner'[d] = cleaner[d]
    <2>0. CleanerOK(c)
      BY Zenon DEF ArchiveInv
    <2>1. ASSUME NEW x \in Archives, StartCleanup(c, x)
          PROVE  /\ cleaner' \in [Cleaners -> CleanerRecords] /\ CleanerOK(c)'
                 /\ \A d \in Cleaners : d # c => cleaner'[d] = cleaner[d]
      <3> DEFINE r == [pc |-> "chosen", item |-> x, session |-> TRUE]
      <3>1. r \in CleanerRecords /\ r.pc = "chosen" /\ r.item = x
        BY Zenon DEF CleanerRecords
      <3>2. cleaner' = [cleaner EXCEPT ![c] = r] /\ row[x] # "none" /\ row' = row
        BY Zenon, <1>1, <2>1 DEF StartCleanup, Candidate, messages
      <3>. HIDE DEF r
      <3>3. /\ cleaner' \in [Cleaners -> CleanerRecords] /\ cleaner'[c] = r
            /\ \A d \in Cleaners : d # c => cleaner'[d] = cleaner[d]
        BY Zenon, <1>1, <3>1, <3>2 DEF ArchiveTypes
      <3>4. CleanerOK(c)'
        BY Zenon, <3>1, <3>2, <3>3 DEF CleanerOK
      <3>. QED
        BY Zenon, <3>3, <3>4
    <2>2. CASE TakeGate(c)
      <3>1. Move(c, "gated") /\ gate' = c /\ cleaner[c].pc = "chosen" /\ row' = row
        BY Zenon, <1>1, <2>2 DEF TakeGate, messages
      <3>2. /\ cleaner' \in [Cleaners -> CleanerRecords]
            /\ cleaner'[c].pc = "gated" /\ cleaner'[c].item = cleaner[c].item
            /\ \A d \in Cleaners : d # c => cleaner'[d] = cleaner[d]
        BY Zenon, <1>1, <3>1, MoveParts
      <3>3. CleanerOK(c)'
        BY Zenon, <2>0, <3>1, <3>2 DEF CleanerOK
      <3>. QED
        BY Zenon, <3>2, <3>3
    <2>3. CASE CleanupFails(c) \/ CleanerDies(c)
      BY Zenon, <1>1, <2>3, EndParts DEF CleanupFails, CleanerDies, Finished
    <2>4. CASE CleanerLosesSession(c)
      <3>1. /\ cleaner' = [cleaner EXCEPT ![c].session = FALSE]
            /\ row' = row /\ visible' = visible /\ durable' = durable
        BY Zenon, <1>1, <2>4 DEF CleanerLosesSession, messages, files
      <3>2. /\ cleaner' \in [Cleaners -> CleanerRecords]
            /\ cleaner'[c].pc = cleaner[c].pc /\ cleaner'[c].item = cleaner[c].item
            /\ ~cleaner'[c].session
            /\ \A d \in Cleaners : d # c => cleaner'[d] = cleaner[d]
        BY Zenon, <1>1, <3>1, LossParts
      <3>3. CleanerOK(c)'
        BY <2>0, <3>1, <3>2 DEF CleanerOK
      <3>. QED
        BY Zenon, <3>2, <3>3
    <2>. QED
      BY Zenon, <2>1, <2>2, <2>3, <2>4
  <1>4. ArchiveTypes'
    BY <1>1, <1>2, <1>3, Zenon DEF ArchiveTypes, messages, files, recovery
  <1>5. /\ UNCHANGED reclaimer
        /\ UNCHANGED <<writer, row, visible, durable, observed, retired, reclaimed>>
    BY Zenon, <1>1 DEF messages, files, recovery
  <1>6. \A x \in Archives : Onward(x) /\ FileOK(x)'
    BY Zenon, <1>5, FileWaits
  <1>. QED
    BY Zenon, <1>2, <1>3, <1>4, <1>5, <1>6, CleanersStep

\* The intent is committed, or the item has become ineligible; then the call holds
\* the gate, so that no report is open.
LEMMA IntendStep ==
    ASSUME ArchiveInv, NEW c \in Cleaners, Intend(c)
    PROVE  ArchiveInv' /\ gate = c /\ ~feedback.open
  <1>1. /\ CleanerOK(c) /\ ArchiveTypes /\ cleaner[c].pc = "gated" /\ cleaner[c].session
        /\ (feedback.open => gate = "report")
    BY Zenon DEF ArchiveInv, Intend
  <1>2. gate = c /\ ~feedback.open
    BY Zenon, <1>1, LifecycleAssumption DEF CleanerOK
  <1>3. PICK x \in Archives : x = cleaner[c].item /\ row[x] # "none"
    BY Zenon, <1>1 DEF CleanerOK
  <1>4. /\ UNCHANGED <<writer, visible, durable, observed, retired, reclaimed, reclaimer, feedback>>
        /\ gate' = Nobody
    BY Zenon DEF Intend, files, recovery
  <1>5. CASE Candidate(x)
    <2>1. row' = [row EXCEPT ![x] = "PURGE_PENDING"] /\ Move(c, "pending")
      BY <1>3, <1>5, Zenon DEF Intend
    <2>2. /\ cleaner' \in [Cleaners -> CleanerRecords]
          /\ cleaner'[c].pc = "pending" /\ cleaner'[c].item = cleaner[c].item
          /\ \A d \in Cleaners : d # c => cleaner'[d] = cleaner[d]
      BY Zenon, <1>1, <2>1, MoveParts
    <2>3. row' \in [Archives -> {"none", "AVAILABLE", "PURGE_PENDING", "PURGED"}]
          /\ row'[x] = "PURGE_PENDING" /\ \A y \in Archives : y # x => row'[y] = row[y]
      BY Zenon, <1>1, <2>1 DEF ArchiveTypes
    <2>4. CleanerOK(c)'
      BY Zenon, <1>3, <2>2, <2>3 DEF CleanerOK
    <2>5. ASSUME NEW y \in Archives PROVE Onward(y) /\ FileOK(y)'
      <3>1. FileOK(y)
        BY Zenon DEF ArchiveInv
      <3>. QED
        BY Zenon, <1>3, <1>4, <2>3, <3>1 DEF FileOK, Onward
    <2>6. ArchiveTypes'
      BY <1>1, <1>4, <2>2, <2>3, Zenon DEF ArchiveTypes
    <2>7. ArchiveInv'
      BY Zenon, <1>2, <1>4, <2>2, <2>4, <2>5, <2>6, CleanersStep
    <2>. QED
      BY Zenon, <1>2, <2>7
  <1>6. CASE ~Candidate(x)
    <2>1. Finished(c) /\ row' = row
      BY <1>3, <1>6, Zenon DEF Intend
    <2>2. /\ cleaner' \in [Cleaners -> CleanerRecords] /\ CleanerOK(c)'
          /\ \A d \in Cleaners : d # c => cleaner'[d] = cleaner[d]
      BY Zenon, <1>1, <2>1, EndParts DEF Finished
    <2>3. ArchiveTypes'
      BY <1>1, <1>4, <2>1, <2>2, Zenon DEF ArchiveTypes
    <2>4. \A y \in Archives : Onward(y) /\ FileOK(y)'
      BY Zenon, <1>4, <2>1, FileWaits
    <2>5. ArchiveInv'
      BY Zenon, <1>2, <1>4, <2>2, <2>3, <2>4, CleanersStep
    <2>. QED
      BY Zenon, <1>2, <2>5
  <1>. QED
    BY Zenon, <1>5, <1>6

\* The purge is carried out.
LEMMA PurgeStep ==
    ASSUME ArchiveInv, NEW c \in Cleaners, Unlink(c) \/ SyncPurged(c) \/ Complete(c)
    PROVE  ArchiveInv'
  <1>1. /\ CleanerOK(c) /\ ArchiveTypes /\ (feedback.open => gate = "report")
        /\ cleaner[c].pc \in {"pending", "unlinked", "synced"}
    BY Zenon DEF ArchiveInv, Unlink, SyncPurged, Complete
  <1>2. PICK x \in Archives : x = cleaner[c].item /\ row[x] \in {"PURGE_PENDING", "PURGED"}
    BY Zenon, <1>1 DEF CleanerOK
  <1>3. UNCHANGED <<writer, observed, retired, reclaimed, reclaimer, feedback, gate>>
    BY Zenon DEF Unlink, SyncPurged, Complete, messages, recovery
  <1>4. CASE Unlink(c)
    <2>1. /\ visible' = visible \ {x} /\ Move(c, "unlinked") /\ row' = row /\ durable' = durable
      BY Zenon, <1>2, <1>4 DEF Unlink, messages
    <2>2. /\ cleaner' \in [Cleaners -> CleanerRecords]
          /\ cleaner'[c].pc = "unlinked" /\ cleaner'[c].item = cleaner[c].item
          /\ \A d \in Cleaners : d # c => cleaner'[d] = cleaner[d]
      BY Zenon, <1>1, <2>1, MoveParts
    <2>3. CleanerOK(c)'
      BY Zenon, <1>2, <2>1, <2>2 DEF CleanerOK
    <2>4. ASSUME NEW y \in Archives PROVE Onward(y) /\ FileOK(y)'
      <3>1. FileOK(y)
        BY Zenon DEF ArchiveInv
      <3>. QED
        BY Zenon, <1>2, <1>3, <2>1, <3>1 DEF FileOK, Onward
    <2>5. visible' \subseteq Archives
      BY Zenon, <1>1, <2>1 DEF ArchiveTypes
    <2>6. ArchiveTypes'
      BY <1>1, <1>3, <2>1, <2>2, <2>5, Zenon DEF ArchiveTypes
    <2>. QED
      BY Zenon, <1>1, <1>3, <2>2, <2>3, <2>4, <2>6, CleanersStep
  <1>5. CASE SyncPurged(c)
    <2>1. /\ durable' = visible /\ Move(c, "synced") /\ row' = row /\ visible' = visible
          /\ cleaner[c].pc = "unlinked"
      BY Zenon, <1>5 DEF SyncPurged, messages
    <2>2. /\ cleaner' \in [Cleaners -> CleanerRecords]
          /\ cleaner'[c].pc = "synced" /\ cleaner'[c].item = cleaner[c].item
          /\ \A d \in Cleaners : d # c => cleaner'[d] = cleaner[d]
      BY Zenon, <1>1, <2>1, MoveParts
    <2>3. CleanerOK(c)'
      BY Zenon, <1>1, <1>2, <2>1, <2>2 DEF CleanerOK
    <2>4. ASSUME NEW y \in Archives PROVE Onward(y) /\ FileOK(y)'
      <3>1. FileOK(y)
        BY Zenon DEF ArchiveInv
      <3>. QED
        BY Zenon, <1>3, <2>1, <3>1 DEF FileOK, Onward
    <2>5. ArchiveTypes'
      BY <1>1, <1>3, <2>1, <2>2, Zenon DEF ArchiveTypes
    <2>. QED
      BY Zenon, <1>1, <1>3, <2>2, <2>3, <2>4, <2>5, CleanersStep
  <1>6. CASE Complete(c)
    <2>1. /\ row' = [row EXCEPT ![x] = IF @ = "PURGE_PENDING" THEN "PURGED" ELSE @]
          /\ Finished(c) /\ visible' = visible /\ durable' = durable /\ cleaner[c].pc = "synced"
      BY <1>2, <1>6, Zenon DEF Complete, files
    <2>2. /\ cleaner' \in [Cleaners -> CleanerRecords] /\ CleanerOK(c)'
          /\ \A d \in Cleaners : d # c => cleaner'[d] = cleaner[d]
      BY Zenon, <1>1, <2>1, EndParts DEF Finished
    <2>3. row' \in [Archives -> {"none", "AVAILABLE", "PURGE_PENDING", "PURGED"}]
          /\ row'[x] = "PURGED" /\ \A y \in Archives : y # x => row'[y] = row[y]
      BY Zenon, <1>1, <1>2, <2>1 DEF ArchiveTypes
    <2>4. x \notin visible /\ x \notin durable
      BY Zenon, <1>1, <1>2, <2>1 DEF CleanerOK
    <2>5. ASSUME NEW y \in Archives PROVE Onward(y) /\ FileOK(y)'
      <3>1. FileOK(y)
        BY Zenon DEF ArchiveInv
      <3>. QED
        BY Zenon, <1>2, <1>3, <2>1, <2>3, <2>4, <3>1 DEF FileOK, Onward
    <2>6. ArchiveTypes'
      BY <1>1, <1>3, <2>1, <2>2, <2>3, Zenon DEF ArchiveTypes
    <2>. QED
      BY Zenon, <1>1, <1>3, <2>2, <2>5, <2>6, CleanersStep
  <1>. QED
    BY Zenon, <1>4, <1>5, <1>6

\* A step in which one call of ReclaimArchive moves.
LEMMA ReclaimersStep ==
    ASSUME ArchiveInv, ArchiveTypes', UNCHANGED <<cleaner, gate, feedback>>,
           NEW o \in Reclaimers, ReclaimerOK(o)',
           \A q \in Reclaimers : q # o => reclaimer'[q] = reclaimer[q],
           \A x \in Archives : Onward(x) /\ FileOK(x)'
    PROVE  ArchiveInv'
  <1>1. \A c \in Cleaners : CleanerOK(c)'
    BY Zenon, CleanerWaits
  <1>2. \A q \in Reclaimers : q # o => ReclaimerOK(q)'
    BY Zenon, ReclaimerWaits
  <1>3. feedback'.open => gate' = "report"
    BY Zenon DEF ArchiveInv
  <1>. QED
    BY <1>1, <1>2, <1>3, Zenon DEF ArchiveInv

\* How a call of ReclaimArchive goes on, and how it ends.
LEMMA GoParts ==
    ASSUME ArchiveTypes, NEW o \in Reclaimers,
           NEW where \in {"idle", "inspected", "retired", "removed", "synced"}, Go(o, where)
    PROVE  /\ reclaimer' \in [Reclaimers -> ReclaimerRecords]
           /\ reclaimer'[o].pc = where /\ reclaimer'[o].item = reclaimer[o].item
           /\ reclaimer'[o].present = reclaimer[o].present
           /\ \A q \in Reclaimers : q # o => reclaimer'[q] = reclaimer[q]
  <1> DEFINE r == [reclaimer[o] EXCEPT !.pc = where]
  <1>1. reclaimer[o] \in ReclaimerRecords
    BY Zenon DEF ArchiveTypes
  <1>2. /\ r \in ReclaimerRecords /\ r.pc = where /\ r.item = reclaimer[o].item
        /\ r.present = reclaimer[o].present
    BY Zenon, <1>1 DEF ReclaimerRecords
  <1>3. reclaimer' = [reclaimer EXCEPT ![o] = r]
    BY Zenon DEF Go
  <1>. HIDE DEF r
  <1>. QED
    BY Zenon, <1>2, <1>3 DEF ArchiveTypes

\* A call of ReclaimArchive ends.
LEMMA GiveUpParts ==
    ASSUME ArchiveTypes, NEW o \in Reclaimers, reclaimer' = [reclaimer EXCEPT ![o] = IdleReclaimer]
    PROVE  /\ reclaimer' \in [Reclaimers -> ReclaimerRecords] /\ ReclaimerOK(o)'
           /\ \A q \in Reclaimers : q # o => reclaimer'[q] = reclaimer[q]
  <1>1. IdleReclaimer \in ReclaimerRecords /\ IdleReclaimer.pc = "idle"
    BY Zenon DEF IdleReclaimer, ReclaimerRecords
  <1>2. reclaimer' \in [Reclaimers -> ReclaimerRecords] /\ reclaimer'[o] = IdleReclaimer
    BY Zenon, <1>1 DEF ArchiveTypes
  <1>3. ReclaimerOK(o)'
    BY Zenon, <1>1, <1>2 DEF ReclaimerOK
  <1>. QED
    BY Zenon, <1>2, <1>3 DEF ArchiveTypes

\* The call looks at a file, or dies.
LEMMA InspectStep ==
    ASSUME ArchiveInv, NEW o \in Reclaimers,
           ReclaimerDies(o) \/ \E x \in Archives : Inspect(o, x)
    PROVE  ArchiveInv'
  <1>1. /\ UNCHANGED <<messages, files, retention, observed, retired, reclaimed>> /\ ArchiveTypes
    BY Zenon DEF ReclaimerDies, Inspect, ArchiveInv
  <1>2. /\ UNCHANGED <<writer, row, visible, durable, observed, retired, reclaimed>>
        /\ UNCHANGED <<cleaner, gate, feedback>>
    BY Zenon, <1>1 DEF messages, files, retention
  <1>3. /\ reclaimer' \in [Reclaimers -> ReclaimerRecords] /\ ReclaimerOK(o)'
        /\ \A q \in Reclaimers : q # o => reclaimer'[q] = reclaimer[q]
    <2>1. CASE ReclaimerDies(o)
      BY Zenon, <1>1, <2>1, GiveUpParts DEF ReclaimerDies
    <2>2. ASSUME NEW x \in Archives, Inspect(o, x)
          PROVE  /\ reclaimer' \in [Reclaimers -> ReclaimerRecords] /\ ReclaimerOK(o)'
                 /\ \A q \in Reclaimers : q # o => reclaimer'[q] = reclaimer[q]
      <3>0. PICK b \in BOOLEAN : b = (x \in visible)
        <4>1. (x \in visible) \in BOOLEAN
          OBVIOUS
        <4>. QED
          BY <4>1, Zenon
      <3> DEFINE r == [pc |-> "inspected", item |-> x, present |-> b]
      <3>1. r \in ReclaimerRecords /\ r.pc = "inspected" /\ r.item = x /\ (~r.present => x \notin visible)
        BY Zenon, <3>0 DEF ReclaimerRecords
      <3>2. reclaimer' = [reclaimer EXCEPT ![o] = r] /\ observed[x] = "aged"
        BY <2>2, <3>0, Zenon DEF Inspect
      <3>. HIDE DEF r
      <3>3. /\ reclaimer' \in [Reclaimers -> ReclaimerRecords] /\ reclaimer'[o] = r
            /\ \A q \in Reclaimers : q # o => reclaimer'[q] = reclaimer[q]
        BY Zenon, <1>1, <3>1, <3>2 DEF ArchiveTypes
      <3>4. writer[x] # "start"
        BY Zenon, <3>2 DEF ArchiveInv, FileOK
      <3>5. ReclaimerOK(o)'
        BY Zenon, <1>2, <3>1, <3>3, <3>4 DEF ReclaimerOK
      <3>. QED
        BY Zenon, <3>3, <3>5
    <2>. QED
      BY Zenon, <2>1, <2>2
  <1>4. ArchiveTypes'
    BY <1>1, <1>2, <1>3, Zenon DEF ArchiveTypes
  <1>5. \A x \in Archives : Onward(x) /\ FileOK(x)'
    BY Zenon, <1>2, FileWaits
  <1>. QED
    BY Zenon, <1>2, <1>3, <1>4, <1>5, ReclaimersStep

\* The reclaim is carried out.
LEMMA ReclaimedStep ==
    ASSUME ArchiveInv, NEW o \in Reclaimers, ReclaimStep(o)
    PROVE  ArchiveInv'
  <1>1. ReclaimerOK(o) /\ ArchiveTypes
    BY Zenon DEF ArchiveInv
  <1>2. PICK x \in Archives : x = reclaimer[o].item /\ writer[x] # "start"
    BY Zenon, <1>1 DEF ReclaimerOK, ReclaimStep, Retire, Remove, SyncReclaimed, RecordReclaim
  <1>3. /\ UNCHANGED <<writer, row, observed>> /\ UNCHANGED <<cleaner, gate, feedback>>
    BY Zenon DEF ReclaimStep, Retire, Remove, SyncReclaimed, RecordReclaim, messages, files, retention
  <1>4. CASE Retire(o)
    <2>1. UNCHANGED <<visible, durable, reclaimed>> /\ reclaimer[o].pc = "inspected"
      BY Zenon, <1>4 DEF Retire, files
    <2>2. CASE Referenced(x)
      <3>1. reclaimer' = [reclaimer EXCEPT ![o] = IdleReclaimer] /\ retired' = retired
        BY <1>2, <1>4, <2>2, Zenon DEF Retire
      <3>2. /\ reclaimer' \in [Reclaimers -> ReclaimerRecords] /\ ReclaimerOK(o)'
            /\ \A q \in Reclaimers : q # o => reclaimer'[q] = reclaimer[q]
        BY Zenon, <1>1, <3>1, GiveUpParts
      <3>3. \A y \in Archives : Onward(y) /\ FileOK(y)'
        BY Zenon, <1>3, <2>1, <3>1, FileWaits
      <3>4. ArchiveTypes'
        BY <1>1, <1>3, <2>1, <3>1, <3>2, Zenon DEF ArchiveTypes
      <3>. QED
        BY Zenon, <1>3, <3>2, <3>3, <3>4, ReclaimersStep
    <2>3. CASE ~Referenced(x)
      <3>1. retired' = retired \cup {x} /\ Go(o, "retired") /\ TableLocked
        BY <1>2, <1>4, <2>3, Zenon DEF Retire
      <3>2. /\ reclaimer' \in [Reclaimers -> ReclaimerRecords]
            /\ reclaimer'[o].pc = "retired" /\ reclaimer'[o].item = reclaimer[o].item
            /\ reclaimer'[o].present = reclaimer[o].present
            /\ \A q \in Reclaimers : q # o => reclaimer'[q] = reclaimer[q]
        BY Zenon, <1>1, <3>1, GoParts
      <3>3. ReclaimerOK(o)'
        BY Zenon, <1>1, <1>2, <1>3, <2>1, <3>1, <3>2 DEF ReclaimerOK
      <3>4. ASSUME NEW y \in Archives PROVE Onward(y) /\ FileOK(y)'
        <4>1. FileOK(y) /\ writer[y] # "inserted"
          BY <3>1, Zenon DEF ArchiveInv, TableLocked
        <4>2. row[x] = "none"
          BY Zenon, <2>3 DEF Referenced
        <4>. QED
          BY Zenon, <1>2, <1>3, <2>1, <3>1, <4>1, <4>2 DEF FileOK, Onward
      <3>5. retired' \subseteq Archives
        BY Zenon, <1>1, <3>1 DEF ArchiveTypes
      <3>6. ArchiveTypes'
        BY <1>1, <1>3, <2>1, <3>2, <3>5, Zenon DEF ArchiveTypes
      <3>. QED
        BY Zenon, <1>3, <3>2, <3>3, <3>4, <3>6, ReclaimersStep
    <2>. QED
      BY Zenon, <2>2, <2>3
  <1>5. CASE Remove(o)
    <2>1. UNCHANGED <<durable, retired, reclaimed>> /\ reclaimer[o].pc = "retired"
      BY Zenon, <1>5 DEF Remove
    <2>2. CASE reclaimer' = [reclaimer EXCEPT ![o] = IdleReclaimer] /\ visible' = visible
      <3>1. /\ reclaimer' \in [Reclaimers -> ReclaimerRecords] /\ ReclaimerOK(o)'
            /\ \A q \in Reclaimers : q # o => reclaimer'[q] = reclaimer[q]
        BY Zenon, <1>1, <2>2, GiveUpParts
      <3>2. \A y \in Archives : Onward(y) /\ FileOK(y)'
        BY Zenon, <1>3, <2>1, <2>2, FileWaits
      <3>3. ArchiveTypes'
        BY <1>1, <1>3, <2>1, <2>2, <3>1, Zenon DEF ArchiveTypes
      <3>. QED
        BY Zenon, <1>3, <3>1, <3>2, <3>3, ReclaimersStep
    <2>3. CASE visible' = (IF reclaimer[o].present THEN visible \ {x} ELSE visible) /\ Go(o, "removed")
      <3>1. /\ reclaimer' \in [Reclaimers -> ReclaimerRecords]
            /\ reclaimer'[o].pc = "removed" /\ reclaimer'[o].item = reclaimer[o].item
            /\ reclaimer'[o].present = reclaimer[o].present
            /\ \A q \in Reclaimers : q # o => reclaimer'[q] = reclaimer[q]
        BY Zenon, <1>1, <2>3, GoParts
      <3>2. /\ x \notin visible' /\ x \in retired
            /\ \A y \in Archives : y # x => (y \in visible' <=> y \in visible)
        BY Zenon, <1>1, <1>2, <2>1, <2>3 DEF ReclaimerOK
      <3>3. ReclaimerOK(o)'
        BY Zenon, <1>1, <1>2, <1>3, <2>1, <3>1, <3>2 DEF ReclaimerOK
      <3>4. ASSUME NEW y \in Archives PROVE Onward(y) /\ FileOK(y)'
        <4>1. FileOK(y)
          BY Zenon DEF ArchiveInv
        <4>. QED
          BY Zenon, <1>2, <1>3, <2>1, <3>2, <4>1 DEF FileOK, Onward
      <3>5. visible' \subseteq Archives
        BY Zenon, <1>1, <2>3 DEF ArchiveTypes
      <3>6. ArchiveTypes'
        BY <1>1, <1>3, <2>1, <3>1, <3>5, Zenon DEF ArchiveTypes
      <3>. QED
        BY Zenon, <1>3, <3>1, <3>3, <3>4, <3>6, ReclaimersStep
    <2>. QED
      BY <1>2, <1>5, <2>2, <2>3, Zenon DEF Remove
  <1>6. CASE SyncReclaimed(o)
    <2>1. /\ UNCHANGED <<visible, retired, reclaimed>> /\ reclaimer[o].pc = "removed"
          /\ durable' = visible /\ Go(o, "synced")
      BY Zenon, <1>6 DEF SyncReclaimed
    <2>2. /\ reclaimer' \in [Reclaimers -> ReclaimerRecords]
          /\ reclaimer'[o].pc = "synced" /\ reclaimer'[o].item = reclaimer[o].item
          /\ reclaimer'[o].present = reclaimer[o].present
          /\ \A q \in Reclaimers : q # o => reclaimer'[q] = reclaimer[q]
      BY Zenon, <1>1, <2>1, GoParts
    <2>3. ReclaimerOK(o)'
      BY Zenon, <1>1, <1>2, <1>3, <2>1, <2>2 DEF ReclaimerOK
    <2>4. ASSUME NEW y \in Archives PROVE Onward(y) /\ FileOK(y)'
      <3>1. FileOK(y)
        BY Zenon DEF ArchiveInv
      <3>. QED
        BY Zenon, <1>3, <2>1, <3>1 DEF FileOK, Onward
    <2>5. ArchiveTypes'
      BY <1>1, <1>3, <2>1, <2>2, Zenon DEF ArchiveTypes
    <2>. QED
      BY Zenon, <1>3, <2>2, <2>3, <2>4, <2>5, ReclaimersStep
  <1>7. CASE RecordReclaim(o)
    <2>1. /\ UNCHANGED <<visible, durable, retired>> /\ reclaimer[o].pc = "synced"
          /\ reclaimed' = reclaimed \cup {x}
          /\ reclaimer' = [reclaimer EXCEPT ![o] = IdleReclaimer]
      BY Zenon, <1>2, <1>7 DEF RecordReclaim, files
    <2>2. /\ reclaimer' \in [Reclaimers -> ReclaimerRecords] /\ ReclaimerOK(o)'
          /\ \A q \in Reclaimers : q # o => reclaimer'[q] = reclaimer[q]
      BY Zenon, <1>1, <2>1, GiveUpParts
    <2>3. x \in retired /\ x \notin visible /\ x \notin durable
      BY Zenon, <1>1, <1>2, <2>1 DEF ReclaimerOK
    <2>4. ASSUME NEW y \in Archives PROVE Onward(y) /\ FileOK(y)'
      <3>1. FileOK(y)
        BY Zenon DEF ArchiveInv
      <3>. QED
        BY Zenon, <1>3, <2>1, <2>3, <3>1 DEF FileOK, Onward
    <2>5. reclaimed' \subseteq Archives
      BY Zenon, <1>1, <2>1 DEF ArchiveTypes
    <2>6. ArchiveTypes'
      BY <1>1, <1>3, <2>1, <2>2, <2>5, Zenon DEF ArchiveTypes
    <2>. QED
      BY Zenon, <1>3, <2>2, <2>4, <2>6, ReclaimersStep
  <1>. QED
    BY Zenon, <1>4, <1>5, <1>6, <1>7 DEF ReclaimStep

\* The host loses power: every call is over, and only what was not synced is in doubt.
LEMMA PowerStep ==
    ASSUME ArchiveInv, NEW after \in SUBSET Archives, PowerLoss(after)
    PROVE  ArchiveInv'
  <1>1. /\ visible' = after /\ durable' = after
        /\ durable \cap visible \subseteq after /\ after \subseteq durable \cup visible
        /\ writer' = [x \in Archives |-> IF writer[x] = "start" THEN "start" ELSE "done"]
        /\ cleaner' = [c \in Cleaners |-> IdleCleaner]
        /\ gate' = IF gate = "report" THEN gate ELSE Nobody
        /\ reclaimer' = [o \in Reclaimers |-> IdleReclaimer]
        /\ UNCHANGED <<row, feedback, observed, retired, reclaimed>>
        /\ ArchiveTypes
    BY Zenon DEF PowerLoss, ArchiveInv
  <1>2. /\ IdleCleaner \in CleanerRecords /\ IdleCleaner.pc = "idle"
        /\ IdleReclaimer \in ReclaimerRecords /\ IdleReclaimer.pc = "idle"
    BY Zenon DEF IdleCleaner, CleanerRecords, IdleReclaimer, ReclaimerRecords
  <1>3. /\ cleaner' \in [Cleaners -> CleanerRecords] /\ reclaimer' \in [Reclaimers -> ReclaimerRecords]
        /\ writer' \in [Archives -> {"start", "linked", "synced", "inserted", "done"}]
        /\ gate' \in Cleaners \cup {"report", Nobody}
    BY Zenon, <1>1, <1>2
  <1>4. ArchiveTypes'
    BY <1>1, <1>3, Zenon DEF ArchiveTypes
  <1>5. \A c \in Cleaners : CleanerOK(c)'
    BY Zenon, <1>1, <1>2 DEF CleanerOK
  <1>6. \A o \in Reclaimers : ReclaimerOK(o)'
    BY Zenon, <1>1, <1>2 DEF ReclaimerOK
  <1>7. ASSUME NEW x \in Archives PROVE FileOK(x)'
    <2>1. FileOK(x)
      BY Zenon DEF ArchiveInv
    <2>. QED
      BY Zenon, <1>1, <2>1 DEF FileOK
  <1>8. feedback'.open => gate' = "report"
    BY Zenon, <1>1 DEF ArchiveInv
  <1>. QED
    BY <1>4, <1>5, <1>6, <1>7, <1>8, Zenon DEF ArchiveInv

\* The first state, and every step.
LEMMA ArchiveStart == ArchiveInit => ArchiveInv
  <1> SUFFICES ASSUME ArchiveInit PROVE ArchiveInv
    BY Zenon
  <1>1. /\ IdleCleaner \in CleanerRecords /\ IdleCleaner.pc = "idle"
        /\ IdleReclaimer \in ReclaimerRecords /\ IdleReclaimer.pc = "idle"
    BY Zenon DEF IdleCleaner, CleanerRecords, IdleReclaimer, ReclaimerRecords
  <1>2. ArchiveTypes
    BY Zenon, <1>1 DEF ArchiveInit, ArchiveTypes
  <1>3. \A x \in Archives : FileOK(x)
    BY Zenon DEF ArchiveInit, FileOK
  <1>4. (\A c \in Cleaners : CleanerOK(c)) /\ (\A o \in Reclaimers : ReclaimerOK(o))
    BY Zenon, <1>1 DEF ArchiveInit, CleanerOK, ReclaimerOK
  <1>5. ~feedback.open
    BY Zenon DEF ArchiveInit
  <1>. QED
    BY <1>2, <1>3, <1>4, <1>5, Zenon DEF ArchiveInv

\* Every step keeps the invariant.
LEMMA ArchiveStep == ArchiveInv /\ [ArchiveNext]_archiveVars => ArchiveInv'
  <1> SUFFICES ASSUME ArchiveInv, [ArchiveNext]_archiveVars PROVE ArchiveInv'
    BY Zenon
  <1>1. CASE UNCHANGED archiveVars
    BY <1>1 DEF archiveVars, messages, files, retention, recovery, ArchiveInv, ArchiveTypes,
               FileOK, CleanerOK, ReclaimerOK
  <1>2. CASE \E x \in Archives :
            \/ Link(x) \/ SyncWritten(x) \/ Insert(x) \/ CommitMessage(x) \/ WriterFails(x)
            \/ Settle(x) \/ Observe(x) \/ ObservationAges(x)
    BY <1>2, WriterStep, Zenon
  <1>3. CASE InsertReport \/ EndReport \/ ReviewReports
    BY <1>3, ReportStep, Zenon
  <1>4. CASE \E c \in Cleaners : CleanStep(c) \/ CleanerLosesSession(c) \/ CleanerDies(c)
    BY <1>4, ChooseStep, IntendStep, PurgeStep, Zenon DEF CleanStep
  <1>5. CASE \E o \in Reclaimers :
            ReclaimStep(o) \/ ReclaimerDies(o) \/ \E x \in Archives : Inspect(o, x)
    BY <1>5, ReclaimedStep, InspectStep, Zenon
  <1>6. CASE \E after \in SUBSET Archives : PowerLoss(after)
    BY <1>6, PowerStep, Zenon
  <1>. QED
    BY <1>1, <1>2, <1>3, <1>4, <1>5, <1>6, Zenon DEF ArchiveNext

\* An AVAILABLE message has its file on disk for good, whatever is reclaimed, purged,
\* crashes or loses power.
THEOREM AvailableFilesStay == ArchiveSpec => []AvailableHasFile
  <1>1. ArchiveInv => AvailableHasFile
    BY Zenon DEF ArchiveInv, FileOK, AvailableHasFile
  <1>. QED
    BY <1>1, ArchiveStart, ArchiveStep, PTL DEF ArchiveSpec

\* What is recorded as purged or reclaimed has no file, and gets none back.
THEOREM GoneStaysGone == ArchiveSpec => []GoneIsGone
  <1>1. ArchiveInv => GoneIsGone
    BY Zenon DEF ArchiveInv, FileOK, GoneIsGone
  <1>. QED
    BY <1>1, ArchiveStart, ArchiveStep, PTL DEF ArchiveSpec

\* Only a call that holds the gate commits an intent; no report is open then.
LEMMA OnlyIntendIntends ==
    ASSUME ArchiveInv, [ArchiveNext]_archiveVars, NEW x \in Archives,
           row[x] = "AVAILABLE", row'[x] = "PURGE_PENDING"
    PROVE  x \in settled /\ x \notin Api /\ ~feedback.unreviewed /\ ~feedback.open
  <1>1. ASSUME NEW c \in Cleaners, Intend(c)
        PROVE  x \in settled /\ x \notin Api /\ ~feedback.unreviewed /\ ~feedback.open
    <2>1. x = cleaner[c].item /\ Candidate(x)
      BY <1>1 DEF Intend, ArchiveInv, ArchiveTypes
    <2>2. ~feedback.open
      BY <1>1, IntendStep, Zenon
    <2>. QED
      BY Zenon, <2>1, <2>2 DEF Candidate
  <1>2. ASSUME NEW c \in Cleaners, Complete(c) PROVE FALSE
    <2>1. row' = [row EXCEPT ![cleaner[c].item] =
                    IF row[cleaner[c].item] = "PURGE_PENDING" THEN "PURGED" ELSE row[cleaner[c].item]]
      BY <1>2, Zenon DEF Complete
    <2>. QED
      BY Zenon, <2>1 DEF ArchiveInv, ArchiveTypes
  <1>3. ASSUME NEW y \in Archives, CommitMessage(y) PROVE FALSE
    BY Zenon, <1>3 DEF CommitMessage, ArchiveInv, ArchiveTypes
  <1>4. ASSUME row' = row PROVE FALSE
    BY Zenon, <1>4
  <1>5. CASE UNCHANGED archiveVars
    BY Zenon, <1>4, <1>5 DEF archiveVars, messages
  <1>6. ASSUME NEW y \in Archives,
               \/ Link(y) \/ SyncWritten(y) \/ Insert(y) \/ WriterFails(y)
               \/ Settle(y) \/ Observe(y) \/ ObservationAges(y)
        PROVE  FALSE
    BY <1>4, <1>6, Zenon DEF Link, SyncWritten, Insert, WriterFails, Settle, Observe,
                            ObservationAges, messages
  <1>7. ASSUME InsertReport \/ EndReport \/ ReviewReports PROVE FALSE
    BY <1>4, <1>7, Zenon DEF InsertReport, EndReport, ReviewReports, messages
  <1>8. ASSUME NEW c \in Cleaners,
               \/ \E y \in Archives : StartCleanup(c, y)
               \/ TakeGate(c) \/ Unlink(c) \/ SyncPurged(c) \/ CleanupFails(c)
               \/ CleanerLosesSession(c) \/ CleanerDies(c)
        PROVE  FALSE
    BY <1>4, <1>8, Zenon DEF StartCleanup, TakeGate, Unlink, SyncPurged, CleanupFails,
                            CleanerLosesSession, CleanerDies, messages
  <1>9. ASSUME NEW o \in Reclaimers,
               ReclaimStep(o) \/ ReclaimerDies(o) \/ \E y \in Archives : Inspect(o, y)
        PROVE  FALSE
    BY <1>4, <1>9, Zenon DEF ReclaimStep, Retire, Remove, SyncReclaimed, RecordReclaim,
                            ReclaimerDies, Inspect, messages
  <1>10. ASSUME NEW after \in SUBSET Archives, PowerLoss(after) PROVE FALSE
    BY <1>4, <1>10, Zenon DEF PowerLoss
  <1>. QED
    BY <1>1, <1>2, <1>3, <1>5, <1>6, <1>7, <1>8, <1>9, <1>10, Zenon DEF ArchiveNext, CleanStep

\* An intent is committed only for a settled message that nothing holds; a report
\* still being stored is waited for.
THEOREM IntentsRespectHolds == ArchiveSpec => IntentRespectsHolds
  <1>1. ArchiveInv /\ [ArchiveNext]_archiveVars =>
          [\A x \in Archives : row[x] = "AVAILABLE" /\ row'[x] = "PURGE_PENDING" =>
              x \in settled /\ x \notin Api /\ ~feedback.unreviewed /\ ~feedback.open]_archiveVars
    BY OnlyIntendIntends, Zenon
  <1>. QED
    BY <1>1, ArchiveStart, ArchiveStep, PTL DEF ArchiveSpec, IntentRespectsHolds
===============================================================================
