--------------------------- MODULE RuntimeOwnership ---------------------------
(***************************************************************************)
(* Who may work on the database (internal/database, and its use by         *)
(* cmd/relaytale): one gateway, or one offline command (migrate, backup,   *)
(* restore, key rotation) alone, and auxiliary commands, one per slot,     *)
(* beside a gateway.                                                       *)
(*                                                                         *)
(* A process takes locks with a dedicated session and commits an ownership *)
(* row before it works.  The session and the process fail independently:   *)
(* the server may end the session of a process that is still working, and  *)
(* a process may die while its session lives on.  Rows do not expire.      *)
(*                                                                         *)
(* A member of Processes is one run of a program; a restart is another     *)
(* member.  Its owner_id is the process itself.  Statements that only try  *)
(* a lock and fail are covered by Stops: every refusal ends the program.   *)
(***************************************************************************)
EXTENDS Integers, FiniteSets

CONSTANTS
    Gateways, Offline, Auxiliaries,
    Migrators,      \* the offline commands that run the migrations
    Slot,           \* the slot of an auxiliary command
    Binary,         \* the schema version a program was built for
    NoProcess

Processes == Gateways \cup Offline \cup Auxiliaries
Exclusive == Gateways \cup Offline      \* the owners of the one runtime_owner row

ASSUME OwnershipAssumption ==
    /\ Gateways \cap Offline = {} /\ Gateways \cap Auxiliaries = {}
    /\ Offline \cap Auxiliaries = {}
    /\ Migrators \subseteq Offline
    /\ Binary \in [Processes -> Nat \ {0}]
    /\ DOMAIN Slot = Auxiliaries
    /\ NoProcess \notin Processes

VARIABLES
    pc,         \* where a program is
    session,    \* its dedicated session, as the server sees it
    admission,  \* what its session holds of MigrationLockID
    ownerKey,   \* the session that holds runtimeSessionLockID
    tx,         \* its uncommitted change of its own ownership row
    owner,      \* the committed runtime_owner row
    aux,        \* the committed auxiliary_owner rows
    retained,   \* the programs that must not release: watch lost, or run failed
    schema,     \* the applied schema version, 0 while the control tables do not exist
    bootstrap,  \* the offline commands that found no runtime_owner table
    misled      \* history: released by an operator while it was still working

vars == <<pc, session, admission, ownerKey, tx, owner, aux, retained, schema,
          bootstrap, misled>>

TypeOK ==
    /\ pc \in [Processes -> {"start", "admitted", "checked", "inserted", "working",
                             "stopping", "joined", "stopped"}]
    /\ session \in [Processes -> {"none", "open", "closed"}]
    /\ admission \in [Processes -> {"none", "shared", "exclusive"}]
    /\ ownerKey \in Exclusive \cup {NoProcess}
    /\ tx \in [Processes -> {"none", "insert", "delete"}]
    /\ owner \in Exclusive \cup {NoProcess}
    /\ aux \subseteq Auxiliaries
    /\ retained \subseteq Processes
    /\ schema \in Nat
    /\ bootstrap \subseteq Offline
    /\ misled \subseteq Processes

Init ==
    /\ pc = [p \in Processes |-> "start"]
    /\ session = [p \in Processes |-> "none"]
    /\ admission = [p \in Processes |-> "none"]
    /\ ownerKey = NoProcess
    /\ tx = [p \in Processes |-> "none"]
    /\ owner = NoProcess /\ aux = {}
    /\ retained = {} /\ bootstrap = {} /\ misled = {}
    /\ schema \in {0} \cup {Binary[p] : p \in Processes}

Row(p) == p = owner \/ p \in aux
Working(p) == pc[p] \in {"working", "stopping"}

NoExclusive(p) == \A q \in Processes \ {p} : admission[q] # "exclusive"
NoAdmission(p) == \A q \in Processes \ {p} : admission[q] = "none"

(***************************************************************************)
(* Taking ownership.                                                       *)
(***************************************************************************)
\* CheckSchema in a transaction of its own: shared admission only while it reads.
SchemaFits(p) == schema = Binary[p] /\ NoExclusive(p)

\* The start of main.run: the schema is checked before ownership is asked for.
CheckSchema(p) ==
    /\ p \in Gateways /\ pc[p] = "start"
    /\ SchemaFits(p)
    /\ pc' = [pc EXCEPT ![p] = "checked"]
    /\ UNCHANGED <<session, admission, ownerKey, tx, owner, aux, retained, schema,
                   bootstrap, misled>>

\* The first statement of AcquireRuntime, AcquireOffline (Migrate waits for the
\* same lock) and AcquireAuxiliary.
Admit(p) ==
    /\ \/ p \in Gateways /\ pc[p] = "checked" /\ NoExclusive(p)
       \/ p \in Auxiliaries /\ pc[p] = "start" /\ NoExclusive(p)
       \/ p \in Offline /\ pc[p] = "start" /\ NoAdmission(p)
    /\ pc' = [pc EXCEPT ![p] = "admitted"]
    /\ session' = [session EXCEPT ![p] = "open"]
    /\ admission' = [admission EXCEPT ![p] =
                        IF p \in Offline THEN "exclusive" ELSE "shared"]
    /\ UNCHANGED <<ownerKey, tx, owner, aux, retained, schema, bootstrap, misled>>

\* Slip: only the runtime_owner row is looked at.
CheckNoRuntimeOnly == owner = NoProcess
\* No row at all; without the tables there is none.
CheckNoRuntime == owner = NoProcess /\ aux = {}

CheckOwners(p) ==
    /\ pc[p] = "admitted" /\ session[p] = "open"
    /\ p \in Offline /\ CheckNoRuntime
    /\ pc' = [pc EXCEPT ![p] = "checked"]
    /\ UNCHANGED <<session, admission, ownerKey, tx, owner, aux, retained, schema,
                   bootstrap, misled>>

\* AcquireAuxiliary checks the schema on another session, and holds admission.
CheckSchemaAdmitted(p) ==
    /\ p \in Auxiliaries /\ pc[p] = "admitted"
    /\ SchemaFits(p)
    /\ pc' = [pc EXCEPT ![p] = "checked"]
    /\ UNCHANGED <<session, admission, ownerKey, tx, owner, aux, retained, schema,
                   bootstrap, misled>>

MayRegister(p) ==
    /\ session[p] = "open"
    /\ pc[p] = IF p \in Gateways THEN "admitted" ELSE "checked"

\* registerOffline before the control tables exist: the session is all there is.
RegisterBootstrap(p) ==
    /\ p \in Offline /\ MayRegister(p) /\ schema = 0
    /\ pc' = [pc EXCEPT ![p] = "working"]
    /\ bootstrap' = bootstrap \cup {p}
    /\ UNCHANGED <<session, admission, ownerKey, tx, owner, aux, retained, schema,
                   misled>>

\* insertOwner.  The key keeps others from the row between its two statements;
\* when the row is there the program ends, and its session keeps the key a while.
InsertOwner(p) ==
    /\ p \in Exclusive /\ MayRegister(p) /\ schema # 0
    /\ ownerKey = NoProcess
    /\ ownerKey' = p
    /\ \/ /\ owner = NoProcess
          /\ tx' = [tx EXCEPT ![p] = "insert"]
          /\ pc' = [pc EXCEPT ![p] = "inserted"]
       \/ /\ owner # NoProcess
          /\ pc' = [pc EXCEPT ![p] = "stopped"]
          /\ UNCHANGED tx
    /\ UNCHANGED <<session, admission, owner, aux, retained, schema, bootstrap, misled>>

\* Slip: an auxiliary command does not look for an offline owner's row.
InsertAuxiliaryBlindly(p) ==
    /\ p \in Auxiliaries /\ MayRegister(p)
    /\ \A q \in Auxiliaries : Slot[q] = Slot[p] => q \notin aux /\ tx[q] = "none"
    /\ tx' = [tx EXCEPT ![p] = "insert"]
    /\ pc' = [pc EXCEPT ![p] = "inserted"]
    /\ UNCHANGED <<session, admission, ownerKey, owner, aux, retained, schema,
                   bootstrap, misled>>
\* The row of AcquireAuxiliary.  INSERT ... ON CONFLICT waits for an uncommitted
\* row of the slot.
InsertAuxiliary(p) ==
    /\ p \in Auxiliaries /\ MayRegister(p)
    /\ owner \notin Offline
    /\ \A q \in Auxiliaries : Slot[q] = Slot[p] => q \notin aux /\ tx[q] = "none"
    /\ tx' = [tx EXCEPT ![p] = "insert"]
    /\ pc' = [pc EXCEPT ![p] = "inserted"]
    /\ UNCHANGED <<session, admission, ownerKey, owner, aux, retained, schema,
                   bootstrap, misled>>

\* What the server does with a commit of p: the row comes or goes, and the lock
\* AcquireRuntime took for its transaction only is released.
Committed(p) ==
    /\ tx[p] # "none" /\ session[p] = "open"
    /\ owner' = IF p \notin Exclusive THEN owner
                ELSE IF tx[p] = "insert" THEN p ELSE NoProcess
    /\ aux' = IF p \notin Auxiliaries THEN aux
              ELSE IF tx[p] = "insert" THEN aux \cup {p} ELSE aux \ {p}
    /\ tx' = [tx EXCEPT ![p] = "none"]
    /\ admission' = [admission EXCEPT ![p] = IF p \in Gateways THEN "none" ELSE @]

Commit(p) ==
    /\ pc[p] = "inserted" /\ Committed(p)
    /\ pc' = [pc EXCEPT ![p] = "working"]
    /\ UNCHANGED <<session, ownerKey, retained, schema, bootstrap, misled>>

\* The commit takes effect after the program has given up on its reply.
LateCommit(p) ==
    /\ pc[p] = "stopped" /\ Committed(p)
    /\ UNCHANGED <<pc, session, ownerKey, retained, schema, bootstrap, misled>>

(***************************************************************************)
(* Working, and letting go.                                                *)
(***************************************************************************)
\* The watch fails: the session is gone, the row is gone, or the check was slow.
LoseOwnership(p) ==
    /\ pc[p] = "working"
    /\ pc' = [pc EXCEPT ![p] = "stopping"]
    /\ retained' = retained \cup {p}
    /\ UNCHANGED <<session, admission, ownerKey, tx, owner, aux, schema, bootstrap, misled>>

\* A gateway ends with an error, perhaps with work still running: Retain.
RunFails(p) ==
    /\ p \in Gateways /\ pc[p] = "working"
    /\ pc' = [pc EXCEPT ![p] = "stopping"]
    /\ retained' = retained \cup {p}
    /\ UNCHANGED <<session, admission, ownerKey, tx, owner, aux, schema, bootstrap, misled>>

\* All listeners, workers and commands have been waited for.
Join(p) ==
    /\ Working(p)
    /\ pc' = [pc EXCEPT ![p] = "joined"]
    /\ UNCHANGED <<session, admission, ownerKey, tx, owner, aux, retained, schema,
                   bootstrap, misled>>

\* Release: only of one's own row, on one's own session, if nothing was lost.
\* The program ends without waiting to learn more (LateCommit, SessionEnds).
Release(p) ==
    /\ pc[p] = "joined" /\ session[p] = "open" /\ Row(p)
    /\ p \notin retained
    /\ tx' = [tx EXCEPT ![p] = "delete"]
    /\ pc' = [pc EXCEPT ![p] = "stopped"]
    /\ UNCHANGED <<session, admission, ownerKey, owner, aux, retained, schema,
                   bootstrap, misled>>

\* A refusal, an error, the end of the program, or its death at any point.
Stops(p) ==
    /\ pc[p] \notin {"start", "stopped"}
    /\ pc' = [pc EXCEPT ![p] = "stopped"]
    /\ UNCHANGED <<session, admission, ownerKey, tx, owner, aux, retained, schema,
                   bootstrap, misled>>

\* The server ends a session, whatever the program is doing.
SessionEnds(p) ==
    /\ session[p] = "open"
    /\ session' = [session EXCEPT ![p] = "closed"]
    /\ admission' = [admission EXCEPT ![p] = "none"]
    /\ tx' = [tx EXCEPT ![p] = "none"]
    /\ ownerKey' = IF ownerKey = p THEN NoProcess ELSE ownerKey
    /\ UNCHANGED <<pc, owner, aux, retained, schema, bootstrap, misled>>

\* Goose brings the schema to the version of the program that runs it.
Migrate(p) ==
    /\ p \in Migrators /\ Working(p)
    /\ schema < Binary[p]
    /\ schema' = Binary[p]
    /\ UNCHANGED <<pc, session, admission, ownerKey, tx, owner, aux, retained,
                   bootstrap, misled>>

(***************************************************************************)
(* The operator's way out.  That the program has stopped is the operator's *)
(* word, which may be wrong; misled remembers when it was.                 *)
(***************************************************************************)
ReleaseStaleOwner(p) ==
    /\ owner = p
    /\ \A q \in Processes : admission[q] = "none"
    /\ ownerKey = NoProcess
    /\ owner' = NoProcess
    /\ misled' = IF Working(p) THEN misled \cup {p} ELSE misled
    /\ UNCHANGED <<pc, session, admission, ownerKey, tx, aux, retained, schema, bootstrap>>

\* An auxiliary session holds its own key from before its row exists.
ReleaseStaleAuxiliary(p) ==
    /\ p \in aux /\ session[p] # "open"
    /\ \A q \in Processes : admission[q] # "exclusive"
    /\ aux' = aux \ {p}
    /\ misled' = IF Working(p) THEN misled \cup {p} ELSE misled
    /\ UNCHANGED <<pc, session, admission, ownerKey, tx, owner, retained, schema, bootstrap>>

Next ==
    \E p \in Processes :
        \/ CheckSchema(p) \/ Admit(p) \/ CheckOwners(p) \/ CheckSchemaAdmitted(p)
        \/ RegisterBootstrap(p) \/ InsertOwner(p) \/ InsertAuxiliary(p)
        \/ Commit(p) \/ LateCommit(p)
        \/ LoseOwnership(p) \/ RunFails(p) \/ Join(p) \/ Release(p)
        \/ Stops(p) \/ SessionEnds(p) \/ Migrate(p)
        \/ ReleaseStaleOwner(p) \/ ReleaseStaleAuxiliary(p)

Spec == Init /\ [][Next]_vars

(***************************************************************************)
(* Properties.                                                             *)
(***************************************************************************)
Compatible(p, q) ==
    \/ p \in Gateways /\ q \in Auxiliaries
    \/ p \in Auxiliaries /\ q \in Gateways
    \/ p \in Auxiliaries /\ q \in Auxiliaries /\ Slot[p] # Slot[q]

\* Protected work: a program that works, that no operator declared stopped, and
\* that has a row (or, in an empty database, at least its session).
Protected(p) ==
    Working(p) /\ p \notin misled /\ (p \in bootstrap => session[p] = "open")

\* Two programs that must not work at once never do, although sessions end under
\* working programs and commit replies are lost (AcquireRuntime, AcquireOffline,
\* AcquireAuxiliary, Release: the row outlives the work).
Exclusion ==
    \A p, q \in Processes :
        p # q /\ Protected(p) /\ Protected(q) => Compatible(p, q)

\* In an installed system, the schema does not change under an auxiliary command:
\* it checks while it holds admission, and its row keeps migrations out after its
\* session is gone (AcquireAuxiliary, CheckNoAuxiliary).
AuxiliarySchemaFits ==
    bootstrap = {} /\ misled = {} =>
        \A p \in Auxiliaries : Working(p) => schema = Binary[p]

\* A program that meets a newer schema history refuses to start: the gateway's
\* version is the schema's (docs/phase-9b1-migrations.md).
GatewaySchemaFits ==
    bootstrap = {} /\ misled = {} =>
        \A p \in Gateways : Working(p) => schema = Binary[p]
===============================================================================
