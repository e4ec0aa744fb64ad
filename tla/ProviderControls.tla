--------------------------- MODULE ProviderControls ---------------------------
(***************************************************************************)
(* The admission controls a claim passes before an attempt may use an      *)
(* upstream provider (internal/queue/controls.go and the claim itself):    *)
(* the connection limit, the rolling hourly and daily quotas of the        *)
(* provider and of its quota group, and the circuit breaker with its       *)
(* half-open probe; and the administration that changes them under the     *)
(* workers (internal/provider).                                            *)
(*                                                                         *)
(* Any number of messages wait: a claim always finds 1 .. MaxRecipients    *)
(* claimable recipients.  A claim is two steps, because the SELECT that    *)
(* proposes a provider reads a snapshot older than the provider lock: what *)
(* it saw may be stale when the transaction, holding the lock, rechecks    *)
(* and commits.  Everything after the lock is one step.                    *)
(*                                                                         *)
(* Clock readings are abstracted to what the queries compare: a            *)
(* reservation is in the last hour, in the last day, or older; a health    *)
(* sample is kept while it can still be counted (SUCCESS or FAILURE,       *)
(* observed in the last ten minutes); a cooldown is over or not.           *)
(***************************************************************************)
EXTENDS Upstream, Integers, Sequences, FiniteSets, FiniteSetsExt

CONSTANTS
    Workers,
    HealthEnabled,      \* Repository.HealthEnabled, a start-up setting
    HealthChecked,      \* the providers with health_check_enabled
    Settings,           \* the provider settings an administrator may write
    GroupSettings,      \* the settings of the one quota group
    Quantum,            \* FairRecipientQuantum, 16 in the code
    MinimumSamples,     \* 5 in the code
    MaxRecipients,      \* bound: claimable recipients of a message
    Outcomes,           \* the values of ProviderOutcome considered
    ReservationBound,   \* bound: attempts in a behaviour
    ChangeBound         \* bound: administrative changes in a behaviour

ASSUME ControlsAssumption ==
    /\ HealthEnabled \in BOOLEAN /\ HealthChecked \subseteq Providers
    /\ Settings # {} /\ GroupSettings # {}
    /\ Settings \subseteq [enabled : BOOLEAN, hourly : Nat, daily : Nat,
                           connections : Nat \ {0}]
    /\ GroupSettings \subseteq [hourly : Nat, daily : Nat]
    /\ {Quantum, MinimumSamples, MaxRecipients} \subseteq Nat \ {0}
    /\ Outcomes \subseteq {"SUCCESS", "FAILURE", "IGNORED"}
    /\ ReservationBound \in Nat /\ ChangeBound \in Nat

VARIABLES
    reservations,   \* delivery_attempts with provider_quota, in claim order
    circuit,        \* provider_health.circuit_state
    cooled,         \* open_until has passed
    probe,          \* probe_attempt_id, 0 for NULL
    settings,       \* the providers row: enabled, limits (0 for NULL), connections
    group,          \* provider_quota_groups: limits, 0 for none
    members,        \* the providers attached to the group
    chosen,         \* what a worker's claim transaction has selected
    changes         \* administrative changes made so far

controlsVars == <<reservations, circuit, cooled, probe, settings, group, members, chosen, changes>>

Reservation ==
    [provider : Providers, units : 1 .. Quantum, inProgress : BOOLEAN,
     leased : BOOLEAN, age : {"hour", "day", "older"},
     sample : {"none", "SUCCESS", "FAILURE"},
     fresh : BOOLEAN]       \* started_at >= samples_since

NothingChosen == [provider |-> NoProvider, fresh |-> FALSE]

Ids == 1 .. Len(reservations)
Of(p) == {a \in Ids : reservations[a].provider = p}

(***************************************************************************)
(* The conditions of a claim.                                              *)
(***************************************************************************)
\* In-progress attempts under a live lease; a stalled worker is not counted.
Active(p) == Cardinality({a \in Of(p) : reservations[a].inProgress /\ reservations[a].leased})

ConnectionFree(p) == Active(p) < settings[p].connections

NoLimit == 2147483647

\* The sum of the reservations that count, unit by unit.
Counting(S, ages) == {a \in Ids : reservations[a].provider \in S /\ reservations[a].age \in ages}
Used(S, ages) == Cardinality(UNION {{a} \X (1 .. reservations[a].units) : a \in Counting(S, ages)})

Left(limit, used) == IF limit = 0 THEN NoLimit ELSE limit - used

\* quotaAvailable and sharedQuotaAvailable.
Layers(p) ==
    {[members |-> {p}, hourly |-> settings[p].hourly, daily |-> settings[p].daily]}
        \cup IF p \in members
             THEN {[members |-> members, hourly |-> group.hourly, daily |-> group.daily]}
             ELSE {}

\* Slip: only the provider's own layer admits.
AllowanceOwn(p) ==
    Min({Left(settings[p].hourly, Used({p}, {"hour"})),
         Left(settings[p].daily, Used({p}, {"hour", "day"}))})
Allowance(p) ==
    Min(UNION {{Left(l.hourly, Used(l.members, {"hour"})),
                Left(l.daily, Used(l.members, {"hour", "day"}))} : l \in Layers(p)})

ProbeDue(p) == circuit[p] = "OPEN" /\ cooled[p] /\ probe[p] = 0

\* Slip: a half-open circuit whose probe is under way admits more attempts.
CircuitAvailableHalfOpen(p) ==
    ~HealthEnabled \/ p \notin HealthChecked \/ circuit[p] # "OPEN" \/ ProbeDue(p)
CircuitAvailable(p) ==
    ~HealthEnabled \/ p \notin HealthChecked \/ circuit[p] = "CLOSED" \/ ProbeDue(p)

Eligible(p) ==
    settings[p].enabled /\ ConnectionFree(p) /\ Allowance(p) > 0 /\ CircuitAvailable(p)

ControlsInit ==
    /\ reservations = << >>
    /\ circuit = [p \in Providers |-> "CLOSED"]
    /\ cooled = [p \in Providers |-> FALSE]
    /\ probe = [p \in Providers |-> 0]
    /\ settings \in [Providers -> Settings]
    /\ group \in GroupSettings
    /\ members \in SUBSET Providers
    /\ chosen = [w \in Workers |-> NothingChosen]
    /\ changes = 0

(***************************************************************************)
(* A claim: the selection, then the locked recheck and the reservation.    *)
(***************************************************************************)
Select(w, p) ==
    /\ chosen[w] = NothingChosen
    /\ Eligible(p)
    /\ chosen' = [chosen EXCEPT ![w] = [provider |-> p, fresh |-> TRUE]]
    /\ UNCHANGED <<reservations, circuit, cooled, probe, settings, group, members, changes>>

Admits(p) == Eligible(p)

ClaimUnits(p, n) == Min({Allowance(p), Quantum, n})

Reserved(w, n) ==
    LET c == chosen[w] IN
    [provider |-> c.provider, units |-> ClaimUnits(c.provider, n), inProgress |-> TRUE,
     leased |-> TRUE, age |-> "hour", sample |-> "none", fresh |-> c.fresh]

ClaimCommits(w, n) ==
    LET p == chosen[w].provider
        probing == HealthEnabled /\ p \in HealthChecked /\ ProbeDue(p)
    IN
    /\ p # NoProvider
    /\ Len(reservations) < ReservationBound
    /\ Admits(p)
    /\ reservations' = Append(reservations, Reserved(w, n))
    /\ circuit' = IF probing THEN [circuit EXCEPT ![p] = "HALF_OPEN"] ELSE circuit
    /\ probe' = IF probing THEN [probe EXCEPT ![p] = Len(reservations) + 1] ELSE probe
    /\ chosen' = [chosen EXCEPT ![w] = NothingChosen]
    /\ UNCHANGED <<cooled, settings, group, members, changes>>

\* ErrNoJob, a failed statement or a cancelled context: nothing is committed.
Rollback(w) ==
    /\ chosen[w] # NothingChosen
    /\ chosen' = [chosen EXCEPT ![w] = NothingChosen]
    /\ UNCHANGED <<reservations, circuit, cooled, probe, settings, group, members, changes>>

(***************************************************************************)
(* The end of an attempt.                                                  *)
(***************************************************************************)
\* The sample of b that finishHealth counts when a leaves its own.
SampleOf(b, a, sample) == IF b = a THEN sample ELSE reservations[b].sample

Tripped(p, a, sample) ==
    LET counted == {b \in Of(p) : /\ reservations[b].fresh
                                  /\ SampleOf(b, a, sample) \in {"SUCCESS", "FAILURE"}}
        failed == {b \in counted : SampleOf(b, a, sample) = "FAILURE"}
    IN /\ HealthEnabled /\ p \in HealthChecked
       /\ Cardinality(counted) >= MinimumSamples
       /\ 2 * Cardinality(failed) >= Cardinality(counted)

\* Slip: any attempt that ends during the probe decides for it.
NextCircuitAnyAttempt(p, a, sample) ==
    IF circuit[p] = "HALF_OPEN"
    THEN IF sample = "SUCCESS" THEN "CLOSED" ELSE "OPEN"
    ELSE IF circuit[p] = "CLOSED" /\ Tripped(p, a, sample) THEN "OPEN"
    ELSE circuit[p]
NextCircuit(p, a, sample) ==
    IF circuit[p] = "HALF_OPEN" /\ probe[p] = a
    THEN IF sample = "SUCCESS" THEN "CLOSED" ELSE "OPEN"
    ELSE IF circuit[p] = "CLOSED" /\ Tripped(p, a, sample) THEN "OPEN"
    ELSE circuit[p]

\* The fence of Finish: the attempt is still in progress.  Its lease need not
\* be live; the recovery may not have come round yet.
FinishHealth(a, sample) ==
    LET p == reservations[a].provider
        next == NextCircuit(p, a, sample)
        moved == next # circuit[p]
        closes == moved /\ next = "CLOSED"
    IN
    /\ reservations[a].inProgress
    /\ reservations' = [b \in Ids |->
           [reservations[b] EXCEPT
               !.inProgress = @ /\ b # a,
               !.leased = @ /\ b # a,
               !.sample = IF b # a THEN @
                          ELSE IF sample = "IGNORED" THEN "none" ELSE sample,
               !.fresh = @ /\ ~(closes /\ reservations[b].provider = p)]]
    /\ circuit' = [circuit EXCEPT ![p] = next]
    /\ probe' = [probe EXCEPT ![p] = IF moved THEN 0 ELSE @]
    /\ cooled' = [cooled EXCEPT ![p] = @ /\ ~moved]
    /\ chosen' = [w \in Workers |->
           IF closes /\ chosen[w].provider = p
           THEN [chosen[w] EXCEPT !.fresh = FALSE] ELSE chosen[w]]
    /\ UNCHANGED <<settings, group, members, changes>>

\* Slip: recovery leaves the probe of a lost attempt in place.
RecoverProbeForgets(a) == UNCHANGED <<circuit, probe, cooled>>
RecoverProbe(a) ==
    LET lost == {p \in Providers : probe[p] = a} IN
    /\ circuit' = [p \in Providers |-> IF p \in lost THEN "OPEN" ELSE circuit[p]]
    /\ probe' = [p \in Providers |-> IF p \in lost THEN 0 ELSE probe[p]]
    /\ cooled' = [p \in Providers |-> IF p \in lost THEN FALSE ELSE cooled[p]]

RecoverAttempt(a) ==
    /\ reservations[a].inProgress /\ ~reservations[a].leased
    /\ reservations' = [reservations EXCEPT ![a].inProgress = FALSE]
    /\ RecoverProbe(a)
    /\ UNCHANGED <<settings, group, members, chosen, changes>>

(***************************************************************************)
(* Administration: provider.Manage, ManageQuotaGroup, AttachQuotaGroup.    *)
(* Their revision checks decide which administrator's write is refused;    *)
(* here any write may come at any time.                                    *)
(***************************************************************************)
Configure(p, s) ==
    /\ changes < ChangeBound
    /\ settings' = [settings EXCEPT ![p] = s]
    /\ changes' = changes + 1
    /\ UNCHANGED <<reservations, circuit, cooled, probe, group, members, chosen>>

ConfigureGroup(s) ==
    /\ changes < ChangeBound
    /\ group' = s
    /\ changes' = changes + 1
    /\ UNCHANGED <<reservations, circuit, cooled, probe, settings, members, chosen>>

AttachQuotaGroup(p) ==
    /\ changes < ChangeBound
    /\ p \notin members
    /\ members' = members \cup {p}
    /\ changes' = changes + 1
    /\ UNCHANGED <<reservations, circuit, cooled, probe, settings, group, chosen>>

(***************************************************************************)
(* The clock.                                                              *)
(***************************************************************************)
LeaseExpires(a) ==
    /\ reservations[a].leased
    /\ reservations' = [reservations EXCEPT ![a].leased = FALSE]
    /\ UNCHANGED <<circuit, cooled, probe, settings, group, members, chosen, changes>>

CooldownEnds(p) ==
    /\ circuit[p] = "OPEN" /\ ~cooled[p]
    /\ cooled' = [cooled EXCEPT ![p] = TRUE]
    /\ UNCHANGED <<reservations, circuit, probe, settings, group, members, chosen, changes>>

\* Reservations leave the windows in the order they were made; a lease (at
\* most 330 s) is long over by then.
ReservationAges(a) ==
    /\ reservations[a].age # "older" /\ ~reservations[a].leased
    /\ \A b \in 1 .. a - 1 : reservations[b].age = "older" \/ reservations[b].age # reservations[a].age
    /\ reservations' = [reservations EXCEPT ![a].age = IF @ = "hour" THEN "day" ELSE "older"]
    /\ UNCHANGED <<circuit, cooled, probe, settings, group, members, chosen, changes>>

\* health_observed_at is ten minutes old.
SampleAges(a) ==
    /\ reservations[a].sample # "none"
    /\ reservations' = [reservations EXCEPT ![a].sample = "none"]
    /\ UNCHANGED <<circuit, cooled, probe, settings, group, members, chosen, changes>>

ControlsNext ==
    \/ \E w \in Workers, p \in Providers : Select(w, p)
    \/ \E w \in Workers, n \in 1 .. MaxRecipients : ClaimCommits(w, n)
    \/ \E w \in Workers : Rollback(w)
    \/ \E a \in Ids, s \in Outcomes : FinishHealth(a, s)
    \/ \E a \in Ids : RecoverAttempt(a)
    \/ \E p \in Providers, s \in Settings : Configure(p, s)
    \/ \E s \in GroupSettings : ConfigureGroup(s)
    \/ \E p \in Providers : AttachQuotaGroup(p)
    \/ \E a \in Ids : LeaseExpires(a)
    \/ \E p \in Providers : CooldownEnds(p)
    \/ \E a \in Ids : ReservationAges(a)
    \/ \E a \in Ids : SampleAges(a)

ControlsSpec == ControlsInit /\ [][ControlsNext]_controlsVars

\* Leases run out and the recovery loop (Worker.Run calls Recover before every
\* claim) takes what has run out.
FairRecovery ==
    \A a \in 1 .. ReservationBound :
        /\ WF_controlsVars(a \in Ids /\ LeaseExpires(a))
        /\ WF_controlsVars(a \in Ids /\ RecoverAttempt(a))

ControlsFairSpec == ControlsSpec /\ FairRecovery

(***************************************************************************)
(* Properties.                                                             *)
(***************************************************************************)
\* The type of the state; in particular no reservation exceeds the quantum.
ControlsTypeOK ==
    /\ reservations \in Seq(Reservation)
    /\ circuit \in [Providers -> {"CLOSED", "OPEN", "HALF_OPEN"}]
    /\ cooled \in [Providers -> BOOLEAN]
    /\ probe \in [Providers -> Nat]
    /\ settings \in [Providers -> Settings]
    /\ group \in GroupSettings
    /\ members \subseteq Providers
    /\ chosen \in [Workers -> [provider : Providers \cup {NoProvider}, fresh : BOOLEAN]]
    /\ changes \in Nat

\* Every reservation fits every limit in force when it commits: the hourly and
\* the daily quota of its provider, and those of the group the provider is
\* attached to, over all of the group's reservations, earlier ones included, and
\* the provider's connections, however many workers chose the provider at once
\* (Claim, admission, reserveControls: all is checked again under the lock).
\* Lowering a limit or attaching a provider may leave a window overdrawn; only a
\* claim may not.
ReservationFits ==
    [][\A p \in Providers :
         Of(p)' # Of(p) =>
             /\ Active(p)' <= settings[p].connections
             /\ \A l \in Layers(p) :
                 /\ l.hourly = 0 \/ Used(l.members, {"hour"})' <= l.hourly
                 /\ l.daily = 0 \/ Used(l.members, {"hour", "day"})' <= l.daily]_controlsVars

\* A half-open circuit has one probe: an attempt still in progress on that
\* provider, and no attempt on the provider was claimed after it.  A circuit
\* in another state has none (circuitAvailable, reserveControls, finishHealth,
\* recoverProbe).
ProbeIsAlone ==
    \A p \in Providers :
        /\ probe[p] # 0 <=> circuit[p] = "HALF_OPEN"
        /\ circuit[p] = "HALF_OPEN" =>
             /\ probe[p] \in Of(p)
             /\ reservations[probe[p]].inProgress
             /\ \A a \in Of(p) : a <= probe[p]

\* Only the probe's own end, by its result or by recovery, ends the half-open
\* state: attempts begun before the circuit opened may finish late, and count
\* for nothing (finishHealth).
ProbeDecides ==
    [][\A p \in Providers :
         circuit[p] = "HALF_OPEN" /\ circuit'[p] # "HALF_OPEN" =>
             reservations[probe[p]].inProgress /\ ~reservations'[probe[p]].inProgress]_controlsVars

\* A lost probe does not keep its provider out of use for ever: the half-open
\* state always ends (recoverProbe).
HalfOpenEnds ==
    \A p \in Providers : circuit[p] = "HALF_OPEN" ~> circuit[p] # "HALF_OPEN"
===============================================================================
