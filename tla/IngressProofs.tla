----------------------------- MODULE IngressProofs -----------------------------
(***************************************************************************)
(* The budget of ResourceLimiter and the limits of SMTPAdmission, for any  *)
(* callers, needs, connections, sources and limits.                        *)
(***************************************************************************)
EXTENDS Ingress, SMTPAdmission, FiniteSetTheorems, TLAPS

(***************************************************************************)
(* The limiter.  What is used is what the holders took; a grant is made    *)
(* only when it fits, and only a holder gives back.                        *)
(***************************************************************************)
Kinds == {"memory", "spool"}

LimiterTypes ==
    /\ pc \in [Callers -> {"idle", "waiting", "holding"}]
    /\ used \in [memory : Int, spool : Int]

LimiterInv == LimiterTypes /\ WithinBudget

\* The units of one caller.
UnitsOf(c, what) == {c} \X (1 .. Need[c][what])

\* A need is a natural number for memory and for the spool.
LEMMA NeedType == \A c \in Callers, what \in Kinds : Need[c][what] \in Nat
  BY Zenon, LimiterAssumption DEF Kinds

\* As many units as the need says.
LEMMA UnitsOfCaller ==
    ASSUME NEW c \in Callers, NEW what \in Kinds
    PROVE  IsFiniteSet(UnitsOf(c, what)) /\ Cardinality(UnitsOf(c, what)) = Need[c][what]
  <1> DEFINE n == Need[c][what]
  <1>1. n \in Nat
    BY Zenon, NeedType
  <1>. HIDE DEF n
  <1>2. IsFiniteSet(1 .. n) /\ Cardinality(1 .. n) = n
    BY <1>1, FS_Interval
  <1>3. IsFiniteSet({c}) /\ Cardinality({c}) = 1
    BY Zenon, FS_Singleton
  <1>4. /\ IsFiniteSet({c} \X (1 .. n))
        /\ Cardinality({c} \X (1 .. n)) = Cardinality({c}) * Cardinality(1 .. n)
    BY <1>2, <1>3, FS_Product, Zenon
  <1>. QED
    BY <1>1, <1>2, <1>3, <1>4 DEF UnitsOf, n

\* The units of any set of callers, Limiter.memory and Limiter.spool being the count.
UnitsOfAll(S, what) == UNION {UnitsOf(c, what) : c \in S}

\* Finitely many callers take finitely many units.
LEMMA UnitsFinite ==
    ASSUME NEW S \in SUBSET Callers, NEW what \in Kinds
    PROVE  IsFiniteSet(UnitsOfAll(S, what))
  <1> DEFINE f == [c \in S |-> UnitsOf(c, what)]
             T == {UnitsOf(c, what) : c \in S}
  <1>1. IsFiniteSet(S)
    BY Zenon, LimiterAssumption, FS_Subset
  <1>2. f \in Surjection(S, T)
    BY Zenon DEF Surjection
  <1>3. IsFiniteSet(T)
    BY Zenon, <1>1, <1>2, FS_Surjection
  <1>4. \A U \in T : IsFiniteSet(U)
    BY Zenon, UnitsOfCaller
  <1>. HIDE DEF T
  <1>5. IsFiniteSet(UNION T)
    BY Zenon, <1>3, <1>4, FS_UNION
  <1>. QED
    BY Zenon, <1>5 DEF UnitsOfAll, T

\* A further caller adds exactly its need.
LEMMA UnitsAdd ==
    ASSUME NEW S \in SUBSET Callers, NEW what \in Kinds, NEW c \in Callers, c \notin S
    PROVE  Cardinality(UnitsOfAll(S \cup {c}, what))
             = Cardinality(UnitsOfAll(S, what)) + Need[c][what]
  <1>1. UnitsOfAll(S \cup {c}, what) = UnitsOfAll(S, what) \cup UnitsOf(c, what)
    BY Zenon DEF UnitsOfAll
  <1>2. UnitsOfAll(S, what) \cap UnitsOf(c, what) = {}
    BY DEF UnitsOfAll, UnitsOf
  <1>3. /\ IsFiniteSet(UnitsOfAll(S, what)) /\ IsFiniteSet(UnitsOf(c, what))
        /\ Cardinality(UnitsOf(c, what)) = Need[c][what]
    BY Zenon, UnitsFinite, UnitsOfCaller
  <1>4. Cardinality(UnitsOfAll(S, what)) \in Nat /\ Need[c][what] \in Nat
    BY Zenon, <1>3, FS_CardinalityType, NeedType
  <1>5. Cardinality(UnitsOfAll(S, what) \cup UnitsOf(c, what))
          = Cardinality(UnitsOfAll(S, what)) + Cardinality(UnitsOf(c, what))
              - Cardinality(UnitsOfAll(S, what) \cap UnitsOf(c, what))
    BY Zenon, <1>3, FS_Union
  <1>6. Cardinality(UnitsOfAll(S, what) \cap UnitsOf(c, what)) = 0
    BY <1>2, FS_EmptySet, Zenon
  <1>7. Cardinality(UnitsOfAll(S, what) \cup UnitsOf(c, what))
          = Cardinality(UnitsOfAll(S, what)) + Need[c][what]
    BY <1>3, <1>4, <1>5, <1>6
  <1>. QED
    BY <1>1, <1>7, Zenon

\* WithinBudget in the words of the lemmas.
LEMMA TakenIsUnits == \A what : Taken(what) = UnitsOfAll(Holders, what)
  BY Zenon DEF Taken, UnitsOfAll, UnitsOf

\* A grant: the caller's need fits and is added to what is used.
LEMMA GrantKeepsBudget ==
    ASSUME LimiterInv, NEW c \in Callers, pc[c] # "holding", Fits(c),
           pc' = [pc EXCEPT ![c] = "holding"], used' = Plus(used, Need[c])
    PROVE  LimiterInv'
  <1>1. LimiterTypes'
    <2>1. /\ used.memory \in Int /\ used.spool \in Int
          /\ Need[c].memory \in Nat /\ Need[c].spool \in Nat
      BY Zenon, LimiterAssumption DEF LimiterInv, LimiterTypes
    <2>. QED
      BY <2>1 DEF LimiterInv, LimiterTypes, Plus
  <1>2. Holders' = Holders \cup {c} /\ c \notin Holders /\ Holders \in SUBSET Callers
    BY Zenon DEF LimiterInv, LimiterTypes, Holders
  <1>3. ASSUME NEW what \in Kinds
        PROVE  used'[what] = Cardinality(Taken(what)') /\ used'[what] <= Limit[what]
    <2>1. used'[what] = used[what] + Need[c][what]
      BY DEF Plus, Kinds
    <2>2. used[what] = Cardinality(Taken(what)) /\ used[what] \in Int /\ Limit[what] \in Nat
      BY Zenon, LimiterAssumption DEF LimiterInv, LimiterTypes, WithinBudget, Kinds
    <2>3. Need[c][what] <= Limit[what] - used[what]
      BY Zenon DEF Fits, Kinds
    <2>4. Taken(what)' = UnitsOfAll(Holders \cup {c}, what)
      BY <1>2, Zenon DEF Taken, UnitsOfAll, UnitsOf
    <2>5. Cardinality(Taken(what)') = Cardinality(Taken(what)) + Need[c][what]
      BY <1>2, <2>4, UnitsAdd, TakenIsUnits, Zenon
    <2>. QED
      BY <2>1, <2>2, <2>3, <2>5, NeedType
  <1>. QED
    BY Zenon, <1>1, <1>3 DEF LimiterInv, WithinBudget, Kinds

\* A release: the caller held, and its need is taken off.
LEMMA ReleaseKeepsBudget ==
    ASSUME LimiterInv, NEW c \in Callers, Release(c)
    PROVE  LimiterInv'
  <1>1. LimiterTypes'
    <2>1. /\ used.memory \in Int /\ used.spool \in Int
          /\ Need[c].memory \in Nat /\ Need[c].spool \in Nat
      BY Zenon, LimiterAssumption DEF LimiterInv, LimiterTypes
    <2>. QED
      BY <2>1 DEF LimiterInv, LimiterTypes, Minus, Release
  <1>2. /\ Holders = Holders' \cup {c} /\ c \notin Holders' /\ Holders' \in SUBSET Callers
    BY Zenon DEF LimiterInv, LimiterTypes, Holders, Release
  <1>3. ASSUME NEW what \in Kinds
        PROVE  used'[what] = Cardinality(Taken(what)') /\ used'[what] <= Limit[what]
    <2>1. used'[what] = used[what] - Need[c][what]
      BY DEF Minus, Kinds, Release
    <2>2. /\ used[what] = Cardinality(Taken(what)) /\ used[what] \in Int /\ Limit[what] \in Nat
          /\ used[what] <= Limit[what]
      BY Zenon, LimiterAssumption DEF LimiterInv, LimiterTypes, WithinBudget, Kinds
    <2>3. Taken(what) = UnitsOfAll(Holders' \cup {c}, what) /\ Taken(what)' = UnitsOfAll(Holders', what)
      BY <1>2, Zenon DEF Taken, UnitsOfAll, UnitsOf
    <2>4. PICK S \in SUBSET Callers : S = Holders'
      BY <1>2, Zenon
    <2>5. Cardinality(UnitsOfAll(S \cup {c}, what)) = Cardinality(UnitsOfAll(S, what)) + Need[c][what]
      BY <1>2, <2>4, UnitsAdd, Zenon
    <2>6. Cardinality(UnitsOfAll(S, what)) \in Nat
      BY UnitsFinite, FS_CardinalityType, Zenon
    <2>7. /\ Cardinality(Taken(what)) = Cardinality(UnitsOfAll(S, what)) + Need[c][what]
          /\ Cardinality(Taken(what)') = Cardinality(UnitsOfAll(S, what))
      BY <2>3, <2>4, <2>5, Zenon
    <2>. QED
      BY <2>1, <2>2, <2>6, <2>7, NeedType
  <1>. QED
    BY Zenon, <1>1, <1>3 DEF LimiterInv, WithinBudget, Kinds

\* A step that takes nobody into or out of holding changes nothing that counts.
LEMMA OtherKeepsBudget ==
    ASSUME LimiterInv, UNCHANGED used, LimiterTypes', Holders' = Holders
    PROVE  LimiterInv'
  <1>1. \A what : Taken(what)' = Taken(what)
    BY Zenon DEF Taken
  <1>. QED
    BY Zenon, <1>1 DEF LimiterInv, WithinBudget

\* One pass through the loop of Acquire, by a caller that does not hold.
LEMMA PassKeepsBudget ==
    ASSUME LimiterInv, NEW c \in Callers, NEW q, NEW n, pc[c] # "holding", Pass(c, q, n)
    PROVE  LimiterInv'
  <1>1. CASE Grant(c, q, n)
    BY Zenon, <1>1, GrantKeepsBudget DEF Grant, MayTake
  <1>2. CASE GiveUp(c, q, n) \/ Sleep(c, q, n)
    <2>1. LimiterTypes' /\ Holders' = Holders /\ UNCHANGED used
      BY Zenon, <1>2 DEF GiveUp, Sleep, LimiterInv, LimiterTypes, Holders
    <2>. QED
      BY Zenon, <2>1, OtherKeepsBudget
  <1>. QED
    BY Zenon, <1>1, <1>2 DEF Pass

\* Init and every step of the limiter.
LEMMA LimiterStep == LimiterInv /\ [Next]_vars => LimiterInv'
  <1> SUFFICES ASSUME LimiterInv, [Next]_vars PROVE LimiterInv'
    BY Zenon
  <1>1. ASSUME NEW c \in Callers, Acquire(c) PROVE LimiterInv'
    <2>1. pc[c] # "holding" /\ Pass(c, Append(queue, c), waiting + 1)
      BY Zenon, <1>1 DEF Acquire
    <2>2. PICK q, n : q = Append(queue, c) /\ n = waiting + 1
      BY Zenon
    <2>. QED
      BY <2>1, <2>2, PassKeepsBudget, Zenon
  <1>2. ASSUME NEW c \in Callers, Wake(c) PROVE LimiterInv'
    <2>1. pc[c] # "holding" /\ Pass(c, queue, waiting)
      BY Zenon, <1>2 DEF Wake
    <2>2. PICK q, n : q = queue /\ n = waiting
      BY Zenon
    <2>. QED
      BY <2>1, <2>2, PassKeepsBudget, Zenon
  <1>3. ASSUME NEW c \in Callers, Release(c) PROVE LimiterInv'
    BY Zenon, <1>3, ReleaseKeepsBudget
  <1>4. ASSUME UNCHANGED <<pc, used>> PROVE LimiterInv'
    <2>1. LimiterTypes' /\ Holders' = Holders
      BY Zenon, <1>4 DEF LimiterInv, LimiterTypes, Holders
    <2>. QED
      BY Zenon, <1>4, <2>1, OtherKeepsBudget
  <1>. QED
    BY <1>1, <1>2, <1>3, <1>4, Zenon DEF Next, vars, ContextEnds, NewContext

\* At first nobody holds.
LEMMA LimiterStart == Init => LimiterInv
  <1> SUFFICES ASSUME Init PROVE LimiterInv
    BY Zenon
  <1>1. LimiterTypes /\ Holders = {}
    BY DEF Init, LimiterTypes, Holders
  <1>2. \A what : Taken(what) = {}
    BY <1>1, Zenon DEF Taken
  <1>3. \A what \in Kinds : used[what] = 0 /\ Limit[what] \in Nat
    BY LimiterAssumption DEF Init, Kinds
  <1>. QED
    BY <1>1, <1>2, <1>3, FS_EmptySet DEF LimiterInv, WithinBudget, Kinds

\* The counters of Limiter are what its holders took and stay within the limits,
\* whatever the callers, their needs and the limits are.
THEOREM LimiterBudget == Spec => []WithinBudget
  <1>1. LimiterInv => WithinBudget
    BY Zenon DEF LimiterInv
  <1>. QED
    BY <1>1, LimiterStart, LimiterStep, PTL DEF Spec

\* The handlers use the limiter as its interface demands: every step of Ingress is a
\* step of ResourceLimiter or leaves it alone, so a handler that fails, at whatever
\* point of its path, gives back once what it holds and nothing else.
THEOREM HandlersUseLimiter == IngressSpec => Init /\ [][Next]_vars
  <1>1. IngressInit => Init
    BY Zenon DEF IngressInit
  <1>2. [IngressNext]_ingressVars => [Next]_vars
    <2>1. ASSUME NEW c \in Callers, Enter(c) \/ TakeConnection(c) \/ Return(c)
          PROVE  UNCHANGED vars
      BY Zenon, <2>1 DEF Enter, TakeConnection, Return
    <2>2. ASSUME NEW c \in Callers, Reserve(c) \/ GiveBack(c) \/ Expires(c) \/ Renews(c)
          PROVE  Next
      BY <2>2, Zenon DEF Reserve, GiveBack, Expires, Renews, Next
    <2>3. ASSUME NEW c \in Callers, Fails(c)
          PROVE  [Next]_vars
      BY <2>3, Zenon DEF Fails, Next
    <2>. QED
      BY <2>1, <2>2, <2>3, Zenon DEF IngressNext, Step, ingressVars
  <1>. QED
    BY <1>1, <1>2, PTL DEF IngressSpec

\* The same budget for the handlers of a gateway, who queue for it with connections
\* of the pool in hand and may fail anywhere.
THEOREM HandlersWithinBudget == IngressSpec => []WithinBudget
  <1>1. LimiterInv => WithinBudget
    BY Zenon DEF LimiterInv
  <1>. QED
    BY <1>1, HandlersUseLimiter, LimiterStart, LimiterStep, PTL

(***************************************************************************)
(* SMTP admission.  The counters of a source are right because its object  *)
(* is deleted only when nobody points to it: an open connection and a      *)
(* running password check always point to the object the source has now.   *)
(***************************************************************************)
OpenConnections == {c \in Connections : conn[c].is = "open"}

PointersHold ==
    /\ \A c \in Connections :
        /\ conn[c].is = "open" => conn[c].object # 0 /\ conn[c].object = object[From[c]]
        /\ session[c].checking # 0 => session[c].checking = object[From[c]]
    /\ \A s, t \in Sources : object[s] # 0 /\ object[s] = object[t] => s = t

CountersHold ==
    /\ \A s \in Sources : object[s] # 0 =>
        /\ counted[object[s]].connections = Cardinality(Live(s))
        /\ counted[object[s]].auth = Cardinality(Checking(s))
    /\ \A o \in Objects :
        /\ counted[o].connections <= PerSource /\ counted[o].auth <= 1
        /\ o > made => counted[o].connections = 0 /\ counted[o].auth = 0
    /\ total = Cardinality(OpenConnections) /\ total <= Total

AdmissionInv == SMTPTypeOK /\ PointersHold /\ CountersHold

\* The sets that are counted are finite.
LEMMA AdmissionFinite ==
    /\ \A s \in Sources : IsFiniteSet(Live(s)) /\ IsFiniteSet(Checking(s))
    /\ \A s \in Sources : Cardinality(Live(s)) \in Nat /\ Cardinality(Checking(s)) \in Nat
    /\ IsFiniteSet(OpenConnections) /\ Cardinality(OpenConnections) \in Nat
  <1>1. ASSUME NEW S \in SUBSET Connections PROVE IsFiniteSet(S) /\ Cardinality(S) \in Nat
    BY Zenon, AdmissionAssumption, FS_Subset, FS_CardinalityType
  <1>2. /\ \A s \in Sources : Live(s) \in SUBSET Connections /\ Checking(s) \in SUBSET Connections
        /\ OpenConnections \in SUBSET Connections
    BY Zenon DEF Live, Checking, OpenConnections
  <1>. QED
    BY <1>1, <1>2, Zenon

\* A source without an object, or with one that may be swept, has nothing open and
\* nothing running.
LEMMA IdleHasNothing ==
    ASSUME AdmissionInv, NEW s \in Sources, object[s] = 0 \/ Sweepable(s)
    PROVE  Live(s) = {} /\ Checking(s) = {}
  <1>1. CASE object[s] = 0
    BY <1>1 DEF AdmissionInv, PointersHold, Live, Checking
  <1>2. CASE object[s] # 0 /\ Sweepable(s)
    <2>1. Cardinality(Live(s)) = 0 /\ Cardinality(Checking(s)) = 0
      BY Zenon, <1>2 DEF AdmissionInv, CountersHold, Sweepable
    <2>. QED
      BY <2>1, AdmissionFinite, FS_EmptySet, Zenon
  <1>. QED
    BY Zenon, <1>1, <1>2

\* AdmissionInv gives the limits.
LEMMA AdmissionLimits == AdmissionInv => SourceLimitsHold
  <1> SUFFICES ASSUME AdmissionInv PROVE SourceLimitsHold
    BY Zenon
  <1>1. ASSUME NEW s \in Sources
        PROVE  Cardinality(Live(s)) <= PerSource /\ Cardinality(Checking(s)) <= 1
    <2>1. CASE object[s] = 0
      <3>1. Live(s) = {} /\ Checking(s) = {}
        BY Zenon, <2>1, IdleHasNothing
      <3>. QED
        BY <3>1, FS_EmptySet, AdmissionAssumption
    <2>2. CASE object[s] # 0
      <3>1. object[s] \in Objects
        BY <2>2, AdmissionAssumption DEF AdmissionInv, SMTPTypeOK, Objects
      <3>. QED
        BY Zenon, <2>2, <3>1 DEF AdmissionInv, CountersHold
    <2>. QED
      BY Zenon, <2>1, <2>2
  <1>. QED
    BY Zenon, <1>1 DEF SourceLimitsHold, AdmissionInv, CountersHold, OpenConnections

\* At first there are no objects and no connections.
LEMMA AdmissionStart == SMTPInit => AdmissionInv
  <1> SUFFICES ASSUME SMTPInit PROVE AdmissionInv
    BY Zenon
  <1>1. SMTPTypeOK
    BY AdmissionAssumption DEF SMTPInit, SMTPTypeOK, NewSession, Objects
  <1>2. PointersHold
    BY Zenon, AdmissionAssumption DEF SMTPInit, PointersHold, NewSession
  <1>3. OpenConnections = {}
    BY Zenon DEF SMTPInit, OpenConnections
  <1>4. CountersHold
    BY <1>3, FS_EmptySet, AdmissionAssumption DEF SMTPInit, CountersHold, Objects
  <1>. QED
    BY Zenon, <1>1, <1>2, <1>4 DEF AdmissionInv

\* Steps of a session that begin and end no password check.
LEMMA SessionKeepsAdmission ==
    ASSUME AdmissionInv, SMTPTypeOK', UNCHANGED <<object, made, counted, total, conn>>,
           \A d \in Connections : session'[d].checking = session[d].checking
    PROVE  AdmissionInv'
  <1>1. \A s \in Sources : Live(s)' = Live(s) /\ Checking(s)' = Checking(s)
    BY Zenon DEF Live, Checking
  <1>2. OpenConnections' = OpenConnections
    BY Zenon DEF OpenConnections
  <1>3. PointersHold'
    BY Zenon DEF AdmissionInv, PointersHold
  <1>4. CountersHold'
    BY Zenon, <1>1, <1>2 DEF AdmissionInv, CountersHold
  <1>. QED
    BY Zenon, <1>3, <1>4 DEF AdmissionInv

SessionRecords(m) ==
    [tls : BOOLEAN, tries : 0 .. Tries, checking : 0 .. m, account : Accounts \cup {Nothing},
     from : Addresses \cup {Nothing}, recipients : BOOLEAN]

\* The update of a session keeps its type; the check that is running is the one given.
Updated(f, g, c, check, m) ==
    /\ g \in [Connections -> SessionRecords(m)]
    /\ \A d \in Connections : g[d].checking = IF d = c THEN check ELSE f[d].checking

\* STARTTLS.
LEMMA UpdateTLS ==
    ASSUME NEW m \in Nat, NEW f \in [Connections -> SessionRecords(m)], NEW c \in Connections
    PROVE  Updated(f, [f EXCEPT ![c] = [NewSession EXCEPT !.tls = TRUE]], c, 0, m)
  <1> DEFINE r == [NewSession EXCEPT !.tls = TRUE]
  <1>1. NewSession \in SessionRecords(m)
    BY AdmissionAssumption DEF NewSession, SessionRecords
  <1>2. r \in SessionRecords(m)
    BY Zenon, <1>1 DEF SessionRecords
  <1>3. r.checking = 0
    BY Zenon DEF NewSession
  <1>. HIDE DEF r
  <1>4. Updated(f, [f EXCEPT ![c] = r], c, 0, m)
    BY Zenon, <1>2, <1>3 DEF Updated
  <1>. QED
    BY <1>4, Zenon DEF r

\* MAIL.
LEMMA UpdateMail ==
    ASSUME NEW m \in Nat, NEW f \in [Connections -> SessionRecords(m)], NEW c \in Connections,
           NEW a \in Addresses \cup {Nothing}
    PROVE  Updated(f, [f EXCEPT ![c] = [f[c] EXCEPT !.recipients = FALSE, !.from = a]], c,
                   f[c].checking, m)
  <1> DEFINE r == [f[c] EXCEPT !.recipients = FALSE, !.from = a]
  <1>1. r \in SessionRecords(m) /\ r.checking = f[c].checking
    BY Zenon DEF SessionRecords
  <1>. HIDE DEF r
  <1>2. Updated(f, [f EXCEPT ![c] = r], c, f[c].checking, m)
    BY Zenon, <1>1 DEF Updated
  <1>. QED
    BY <1>2, Zenon DEF r

\* RCPT.
LEMMA UpdateRcpt ==
    ASSUME NEW m \in Nat, NEW f \in [Connections -> SessionRecords(m)], NEW c \in Connections
    PROVE  Updated(f, [f EXCEPT ![c].recipients = TRUE], c, f[c].checking, m)
  <1> DEFINE r == [f[c] EXCEPT !.recipients = TRUE]
  <1>1. r \in SessionRecords(m) /\ r.checking = f[c].checking
    BY Zenon DEF SessionRecords
  <1>. HIDE DEF r
  <1>2. Updated(f, [f EXCEPT ![c] = r], c, f[c].checking, m)
    BY Zenon, <1>1 DEF Updated
  <1>. QED
    BY Zenon, <1>2 DEF r

\* DATA.
LEMMA UpdateData ==
    ASSUME NEW m \in Nat, NEW f \in [Connections -> SessionRecords(m)], NEW c \in Connections
    PROVE  Updated(f, [f EXCEPT ![c].from = Nothing, ![c].recipients = FALSE], c, f[c].checking, m)
  <1> DEFINE r == [f[c] EXCEPT !.from = Nothing, !.recipients = FALSE]
  <1>1. r \in SessionRecords(m)
    BY Zenon DEF SessionRecords
  <1>2. r.checking = f[c].checking
    BY DEF SessionRecords
  <1>. HIDE DEF r
  <1>3. Updated(f, [f EXCEPT ![c] = r], c, f[c].checking, m)
    BY <1>1, <1>2 DEF Updated
  <1>. QED
    BY Zenon, <1>3 DEF r

\* A try that was in vain.
LEMMA UpdateTry ==
    ASSUME NEW m \in Nat, NEW f \in [Connections -> SessionRecords(m)], NEW c \in Connections,
           f[c].tries + 1 \in 0 .. Tries
    PROVE  Updated(f, [f EXCEPT ![c].tries = @ + 1], c, f[c].checking, m)
  BY Zenon DEF SessionRecords, Updated

\* A check begins.
LEMMA UpdateBegin ==
    ASSUME NEW m \in Nat, NEW f \in [Connections -> SessionRecords(m)], NEW c \in Connections,
           f[c].tries + 1 \in 0 .. Tries, NEW o \in 0 .. m
    PROVE  Updated(f, [f EXCEPT ![c].tries = @ + 1, ![c].checking = o], c, o, m)
  <1> DEFINE r == [f[c] EXCEPT !.tries = @ + 1, !.checking = o]
  <1>1. r \in SessionRecords(m)
    BY Zenon DEF SessionRecords
  <1>2. r.checking = o
    BY DEF SessionRecords
  <1>. HIDE DEF r
  <1>3. Updated(f, [f EXCEPT ![c] = r], c, o, m)
    BY <1>1, <1>2 DEF Updated
  <1>. QED
    BY Zenon, <1>3 DEF r

\* A check ends.
LEMMA UpdateEnd ==
    ASSUME NEW m \in Nat, NEW f \in [Connections -> SessionRecords(m)], NEW c \in Connections,
           NEW a \in Accounts \cup {Nothing}, NEW o \in 0 .. m
    PROVE  Updated(f, [f EXCEPT ![c].checking = o, ![c].account = a], c, o, m)
  <1> DEFINE r == [f[c] EXCEPT !.checking = o, !.account = a]
  <1>1. r \in SessionRecords(m)
    BY Zenon DEF SessionRecords
  <1>2. r.checking = o
    BY DEF SessionRecords
  <1>. HIDE DEF r
  <1>3. Updated(f, [f EXCEPT ![c] = r], c, o, m)
    BY <1>1, <1>2 DEF Updated
  <1>. QED
    BY Zenon, <1>3 DEF r

CounterRecords == [connections : Nat, auth : Nat]

\* One object has new counters.
Recounted(f, g, o, connections, auth) ==
    /\ g \in [Objects -> CounterRecords]
    /\ \A p \in Objects :
        /\ g[p].connections = IF p = o THEN connections ELSE f[p].connections
        /\ g[p].auth = IF p = o THEN auth ELSE f[p].auth

\* A connection more.
LEMMA CountConnection ==
    ASSUME NEW f \in [Objects -> CounterRecords], NEW o \in Objects
    PROVE  Recounted(f, [f EXCEPT ![o].connections = @ + 1], o, f[o].connections + 1, f[o].auth)
  BY DEF CounterRecords, Recounted

\* A connection less.
LEMMA UncountConnection ==
    ASSUME NEW f \in [Objects -> CounterRecords], NEW o \in Objects, f[o].connections > 0
    PROVE  Recounted(f, [f EXCEPT ![o].connections = @ - 1], o, f[o].connections - 1, f[o].auth)
  BY DEF CounterRecords, Recounted

\* A check more.
LEMMA CountAuth ==
    ASSUME NEW f \in [Objects -> CounterRecords], NEW o \in Objects
    PROVE  Recounted(f, [f EXCEPT ![o].auth = @ + 1], o, f[o].connections, f[o].auth + 1)
  BY DEF CounterRecords, Recounted

\* A check less.
LEMMA UncountAuth ==
    ASSUME NEW f \in [Objects -> CounterRecords], NEW o \in Objects, f[o].auth > 0
    PROVE  Recounted(f, [f EXCEPT ![o].auth = @ - 1], o, f[o].connections, f[o].auth - 1)
  BY DEF CounterRecords, Recounted

\* The types, by the names of the lemmas.
LEMMA AdmissionTypes ==
    ASSUME SMTPTypeOK
    PROVE  /\ session \in [Connections -> SessionRecords(made)]
           /\ counted \in [Objects -> CounterRecords]
           /\ made \in Nat /\ made <= ObjectBound
           /\ object \in [Sources -> 0 .. made]
           /\ total \in Nat
  BY AdmissionAssumption DEF SMTPTypeOK, SessionRecords, CounterRecords

\* Types again, from those names.
LEMMA AdmissionTyped ==
    ASSUME session \in [Connections -> SessionRecords(made)], counted \in [Objects -> CounterRecords],
           made \in 0 .. ObjectBound, object \in [Sources -> 0 .. made], total \in Nat,
           conn \in [Connections -> [is : {"fresh", "open", "closed"}, object : 0 .. made]]
    PROVE  SMTPTypeOK
  BY Zenon DEF SMTPTypeOK, SessionRecords, CounterRecords

\* STARTTLS, MAIL, RCPT and DATA.
LEMMA TalkKeepsAdmission ==
    ASSUME AdmissionInv, NEW c \in Connections, NEW a \in Addresses \cup {Nothing},
           StartTLS(c) \/ Mail(c, a) \/ Rcpt(c) \/ Data(c)
    PROVE  AdmissionInv'
  <1> DEFINE Goal == Updated(session, session', c, session[c].checking, made)
  <1>1. /\ UNCHANGED <<object, made, counted, total, conn>>
        /\ session[c].checking = 0
    BY Zenon DEF StartTLS, Mail, Rcpt, Data, SessionFrame, Speaking
  <1>2. SMTPTypeOK /\ session \in [Connections -> SessionRecords(made)] /\ made \in Nat
    BY Zenon, AdmissionTypes DEF AdmissionInv
  <1>3. ASSUME StartTLS(c) PROVE Goal
    BY Zenon, <1>1, <1>2, <1>3, UpdateTLS DEF StartTLS
  <1>4. ASSUME Mail(c, a) PROVE Goal
    <2> DEFINE b == IF a \in Allows[session[c].account] THEN a ELSE Nothing
    <2>1. session' = [session EXCEPT ![c] = [session[c] EXCEPT !.recipients = FALSE, !.from = b]]
      BY Zenon, <1>4 DEF Mail, Mailed
    <2>2. b \in Addresses \cup {Nothing}
      BY Zenon
    <2>. HIDE DEF b
    <2>. QED
      BY Zenon, <1>2, <2>1, <2>2, UpdateMail
  <1>5. ASSUME Rcpt(c) PROVE Goal
    BY Zenon, <1>2, <1>5, UpdateRcpt DEF Rcpt
  <1>6. ASSUME Data(c) PROVE Goal
    BY Zenon, <1>2, <1>6, UpdateData DEF Data
  <1>7. Goal
    BY Zenon, <1>3, <1>4, <1>5, <1>6
  <1>8. /\ session' \in [Connections -> SessionRecords(made)]
        /\ \A d \in Connections : session'[d].checking = session[d].checking
    BY <1>7, Zenon DEF Updated
  <1>9. SMTPTypeOK'
    BY <1>1, <1>2, <1>8, Zenon DEF SMTPTypeOK, SessionRecords
  <1>. QED
    BY Zenon, <1>1, <1>8, <1>9, SessionKeepsAdmission

\* authenticate: a check begins at the object the source has now.
LEMMA AuthBeginsKeepsAdmission ==
    ASSUME AdmissionInv, NEW c \in Connections, NEW refused \in BOOLEAN, AuthBegins(c, refused)
    PROVE  AdmissionInv'
  <1>1. PICK s, o : s = From[c] /\ o = object[s] /\ s \in Sources /\ o \in 0 .. made
    BY Zenon, AdmissionAssumption, AdmissionTypes DEF AdmissionInv
  <1>2. /\ SMTPTypeOK /\ session \in [Connections -> SessionRecords(made)]
        /\ made \in Nat /\ made <= ObjectBound /\ ObjectBound \in Nat
        /\ object \in [Sources -> 0 .. made]
        /\ counted \in [Objects -> CounterRecords]
    BY Zenon, AdmissionTypes, AdmissionAssumption DEF AdmissionInv
  <1>3. UNCHANGED <<object, made, total, conn>> /\ session[c].checking = 0
    BY Zenon DEF AuthBegins, SessionFrame, Speaking
  <1>4. session[c].tries + 1 \in 0 .. Tries
    BY <1>2, AdmissionAssumption DEF SessionRecords, AuthBegins
  <1>5. CASE o = 0 \/ refused \/ counted[o].auth >= 1
    <2>1. session' = [session EXCEPT ![c].tries = @ + 1] /\ UNCHANGED counted
      BY <1>1, <1>5, Zenon DEF AuthBegins
    <2>2. Updated(session, session', c, session[c].checking, made)
      BY Zenon, <1>2, <1>4, <2>1, UpdateTry
    <2>3. /\ session' \in [Connections -> SessionRecords(made)]
          /\ \A d \in Connections : session'[d].checking = session[d].checking
      BY <2>2, Zenon DEF Updated
    <2>4. SMTPTypeOK'
      BY <1>2, <1>3, <2>1, <2>3, Zenon DEF SMTPTypeOK, SessionRecords
    <2>. QED
      BY Zenon, <1>3, <2>1, <2>3, <2>4, SessionKeepsAdmission
  <1>6. CASE ~(o = 0 \/ refused \/ counted[o].auth >= 1)
    <2>1. /\ session' = [session EXCEPT ![c].tries = @ + 1, ![c].checking = o]
          /\ counted' = [counted EXCEPT ![o].auth = @ + 1]
      BY <1>1, <1>6, Zenon DEF AuthBegins
    <2>2. o \in Objects /\ counted[o].auth = 0
      BY <1>1, <1>2, <1>6 DEF CounterRecords, Objects
    <2>3. Updated(session, session', c, o, made)
      BY Zenon, <1>1, <1>2, <1>4, <2>1, UpdateBegin
    <2>4. /\ session' \in [Connections -> SessionRecords(made)]
          /\ \A d \in Connections : session'[d].checking = IF d = c THEN o ELSE session[d].checking
      BY <2>3, Zenon DEF Updated
    <2>5. /\ counted' \in [Objects -> CounterRecords]
          /\ \A p \in Objects : /\ counted'[p].connections = counted[p].connections
                                /\ counted'[p].auth = IF p = o THEN 1 ELSE counted[p].auth
      <3>1. Recounted(counted, counted', o, counted[o].connections, counted[o].auth + 1)
        BY Zenon, <1>2, <2>1, <2>2, CountAuth
      <3>. QED
        BY <2>2, <3>1 DEF Recounted
    <2>6. SMTPTypeOK'
      BY <1>2, <1>3, <2>4, <2>5, Zenon DEF SMTPTypeOK, SessionRecords, CounterRecords
    <2>7. PointersHold'
      BY <1>1, <1>3, <2>4 DEF AdmissionInv, PointersHold
    <2>8. /\ \A t \in Sources : Live(t)' = Live(t)
          /\ \A t \in Sources : t # s => Checking(t)' = Checking(t)
          /\ Checking(s)' = Checking(s) \cup {c} /\ c \notin Checking(s)
          /\ OpenConnections' = OpenConnections
      BY Zenon, <1>1, <1>3, <1>6, <2>4 DEF Live, Checking, OpenConnections
    <2>9. Cardinality(Checking(s)) = 0
      BY Zenon, <1>1, <1>6, <2>2 DEF AdmissionInv, CountersHold
    <2>10. Cardinality(Checking(s)') = 1
      <3>1. IsFiniteSet(Checking(s))
        BY Zenon, <1>1, AdmissionFinite
      <3>2. Cardinality(Checking(s) \cup {c}) = Cardinality(Checking(s)) + 1
        BY Zenon, <2>8, <3>1, FS_AddElement
      <3>. QED
        BY <2>8, <2>9, <3>2
    <2>11. \A t \in Sources : object[t] # 0 => object[t] \in Objects /\ (object[t] = o => t = s)
      <3>1. \A t \in Sources : object[t] # 0 /\ object[t] = object[s] => t = s
        BY <1>1, Zenon DEF AdmissionInv, PointersHold
      <3>2. \A t \in Sources : object[t] # 0 => object[t] \in Objects
        BY <1>2 DEF Objects
      <3>. QED
        BY Zenon, <1>1, <3>1, <3>2
    <2>12. CountersHold'
      <3>1. \A t \in Sources : object[t] # 0 =>
              /\ counted'[object[t]].connections = Cardinality(Live(t)')
              /\ counted'[object[t]].auth = Cardinality(Checking(t)')
        <4> TAKE t \in Sources
        <4> HAVE object[t] # 0
        <4>1. /\ counted[object[t]].connections = Cardinality(Live(t))
              /\ counted[object[t]].auth = Cardinality(Checking(t))
          BY Zenon DEF AdmissionInv, CountersHold
        <4>2. CASE t = s
          BY Zenon, <1>1, <2>2, <2>5, <2>8, <2>10, <4>1, <4>2
        <4>3. CASE t # s
          BY Zenon, <2>5, <2>8, <2>11, <4>1, <4>3
        <4>. QED
          BY Zenon, <4>2, <4>3
      <3>2. \A p \in Objects :
              /\ counted'[p].connections <= PerSource /\ counted'[p].auth <= 1
              /\ p > made => counted'[p].connections = 0 /\ counted'[p].auth = 0
        BY <1>1, <1>2, <2>5 DEF AdmissionInv, CountersHold
      <3>. QED
        BY Zenon, <1>3, <2>8, <3>1, <3>2 DEF AdmissionInv, CountersHold, Objects
    <2>. QED
      BY Zenon, <2>6, <2>7, <2>12 DEF AdmissionInv
  <1>. QED
    BY Zenon, <1>5, <1>6

\* The facts about types and objects that the next proofs share.
LEMMA AdmissionFacts ==
    ASSUME AdmissionInv
    PROVE  /\ SMTPTypeOK /\ session \in [Connections -> SessionRecords(made)]
           /\ made \in Nat /\ made <= ObjectBound /\ ObjectBound \in Nat
           /\ object \in [Sources -> 0 .. made] /\ counted \in [Objects -> CounterRecords]
           /\ \A t \in Sources : object[t] # 0 => object[t] \in Objects
           /\ \A t, u \in Sources : object[t] # 0 /\ object[t] = object[u] => t = u
           /\ \A c \in Connections : From[c] \in Sources
  <1>1. /\ SMTPTypeOK /\ session \in [Connections -> SessionRecords(made)]
        /\ made \in Nat /\ made <= ObjectBound /\ ObjectBound \in Nat
        /\ object \in [Sources -> 0 .. made] /\ counted \in [Objects -> CounterRecords]
        /\ \A c \in Connections : From[c] \in Sources
    BY Zenon, AdmissionTypes, AdmissionAssumption DEF AdmissionInv
  <1>2. \A t \in Sources : object[t] # 0 => object[t] \in Objects
    BY <1>1 DEF Objects
  <1>3. \A t, u \in Sources : object[t] # 0 /\ object[t] = object[u] => t = u
    BY Zenon DEF AdmissionInv, PointersHold
  <1>. QED
    BY Zenon, <1>1, <1>2, <1>3

\* authenticate ends: its place is given back where it was taken.
LEMMA AuthEndsKeepsAdmission ==
    ASSUME AdmissionInv, NEW c \in Connections, NEW account \in Accounts \cup {Nothing},
           AuthEnds(c, account)
    PROVE  AdmissionInv'
  <1>1. PICK s, o : s = From[c] /\ o = session[c].checking /\ o = object[s] /\ o # 0 /\ s \in Sources
    BY AdmissionFacts, Zenon DEF AdmissionInv, PointersHold, AuthEnds
  <1>2. o \in Objects /\ o \in 0 .. made
    BY <1>1, AdmissionFacts
  <1>3. /\ UNCHANGED <<object, made, total, conn>>
        /\ session' = [session EXCEPT ![c].checking = 0, ![c].account = account]
        /\ counted' = [counted EXCEPT ![o].auth = @ - 1]
    BY Zenon, <1>1 DEF AuthEnds, SessionFrame
  <1>4. /\ session' \in [Connections -> SessionRecords(made)]
        /\ \A d \in Connections : session'[d].checking = IF d = c THEN 0 ELSE session[d].checking
    <2>1. 0 \in 0 .. made
      BY AdmissionFacts
    <2>2. Updated(session, session', c, 0, made)
      BY Zenon, <1>3, <2>1, AdmissionFacts, UpdateEnd
    <2>. QED
      BY <2>2, Zenon DEF Updated
  <1>5. /\ \A t \in Sources : Live(t)' = Live(t)
        /\ \A t \in Sources : t # s => Checking(t)' = Checking(t)
        /\ Checking(s)' = Checking(s) \ {c} /\ c \in Checking(s)
        /\ OpenConnections' = OpenConnections
    BY Zenon, <1>1, <1>3, <1>4 DEF Live, Checking, OpenConnections
  <1>6. /\ Cardinality(Checking(s)') = Cardinality(Checking(s)) - 1
        /\ Cardinality(Checking(s)') \in Nat /\ Cardinality(Checking(s)) \in Nat
    <2>1. IsFiniteSet(Checking(s))
      BY Zenon, <1>1, AdmissionFinite
    <2>2. /\ Cardinality(Checking(s) \ {c}) = Cardinality(Checking(s)) - 1
          /\ IsFiniteSet(Checking(s) \ {c})
      BY Zenon, <1>5, <2>1, FS_RemoveElement
    <2>3. Cardinality(Checking(s)) \in Nat /\ Cardinality(Checking(s) \ {c}) \in Nat
      BY Zenon, <2>1, <2>2, FS_CardinalityType
    <2>. QED
      BY Zenon, <1>5, <2>2, <2>3
  <1>7. counted[o].auth = Cardinality(Checking(s))
    BY Zenon, <1>1, <1>2 DEF AdmissionInv, CountersHold
  <1>8. /\ counted' \in [Objects -> CounterRecords]
        /\ \A p \in Objects : /\ counted'[p].connections = counted[p].connections
                              /\ counted'[p].auth = IF p = o THEN Cardinality(Checking(s)')
                                                    ELSE counted[p].auth
    <2>1. counted[o].auth > 0
      BY <1>6, <1>7
    <2>2. Recounted(counted, counted', o, counted[o].connections, counted[o].auth - 1)
      BY Zenon, <1>2, <1>3, <2>1, AdmissionFacts, UncountAuth
    <2>. QED
      BY Zenon, <1>6, <1>7, <2>2 DEF Recounted
  <1>9. SMTPTypeOK'
    BY <1>3, <1>4, <1>8, AdmissionFacts, Zenon DEF SMTPTypeOK, SessionRecords, CounterRecords
  <1>10. PointersHold'
    BY Zenon, <1>1, <1>3, <1>4 DEF AdmissionInv, PointersHold
  <1>11. CountersHold'
    <2>1. ASSUME NEW t \in Sources, object[t] # 0
          PROVE  /\ counted'[object[t]].connections = Cardinality(Live(t)')
                 /\ counted'[object[t]].auth = Cardinality(Checking(t)')
      <3>1. /\ counted[object[t]].connections = Cardinality(Live(t))
            /\ counted[object[t]].auth = Cardinality(Checking(t))
        BY Zenon, <2>1 DEF AdmissionInv, CountersHold
      <3>2. object[t] \in Objects /\ (object[t] = o => t = s)
        BY Zenon, <1>1, <2>1, AdmissionFacts
      <3>. QED
        BY Zenon, <1>1, <1>5, <1>8, <3>1, <3>2
    <2>2. \A p \in Objects :
            /\ counted'[p].connections <= PerSource /\ counted'[p].auth <= 1
            /\ p > made => counted'[p].connections = 0 /\ counted'[p].auth = 0
      <3> TAKE p \in Objects
      <3>1. /\ counted[p].connections <= PerSource /\ counted[p].auth <= 1
            /\ p > made => counted[p].connections = 0 /\ counted[p].auth = 0
        BY Zenon DEF AdmissionInv, CountersHold
      <3>2. p = o => ~(p > made) /\ Cardinality(Checking(s)') <= 1
        BY <1>2, <1>6, <1>7, <3>1, AdmissionFacts
      <3>. QED
        BY Zenon, <1>8, <3>1, <3>2
    <2>. QED
      BY Zenon, <1>3, <1>5, <2>1, <2>2 DEF AdmissionInv, CountersHold, Objects
  <1>. QED
    BY Zenon, <1>9, <1>10, <1>11 DEF AdmissionInv

\* trackedConn.Close gives back where the connection was counted.
LEMMA CloseKeepsAdmission ==
    ASSUME AdmissionInv, NEW c \in Connections, Close(c)
    PROVE  AdmissionInv'
  <1>1. PICK s, o : s = From[c] /\ o = conn[c].object /\ o = object[s] /\ o # 0 /\ s \in Sources
    BY AdmissionFacts, Zenon DEF AdmissionInv, PointersHold, Close
  <1>2. o \in Objects /\ o \in 0 .. made
    BY <1>1, AdmissionFacts
  <1>3. /\ UNCHANGED <<object, made, session>> /\ total' = total - 1
        /\ conn[c].is = "open" /\ conn' = [conn EXCEPT ![c].is = "closed"]
        /\ counted' = [counted EXCEPT ![o].connections = @ - 1]
    BY Zenon, <1>1 DEF Close
  <1>4. /\ conn' \in [Connections -> [is : {"fresh", "open", "closed"}, object : 0 .. made]]
        /\ \A d \in Connections : d # c => conn'[d] = conn[d]
        /\ conn'[c].is = "closed"
    <2>1. conn \in [Connections -> [is : {"fresh", "open", "closed"}, object : 0 .. made]]
      BY AdmissionFacts, Zenon DEF SMTPTypeOK
    <2>. QED
      BY Zenon, <1>3, <2>1
  <1>5. /\ \A t \in Sources : t # s => Live(t)' = Live(t)
        /\ \A t \in Sources : Checking(t)' = Checking(t)
        /\ Live(s)' = Live(s) \ {c} /\ c \in Live(s)
        /\ OpenConnections' = OpenConnections \ {c} /\ c \in OpenConnections
    BY <1>1, <1>3, <1>4 DEF Live, Checking, OpenConnections
  <1>6. ASSUME NEW S, IsFiniteSet(S), c \in S
        PROVE  /\ Cardinality(S \ {c}) = Cardinality(S) - 1
               /\ Cardinality(S \ {c}) \in Nat /\ Cardinality(S) \in Nat
    <2>1. Cardinality(S \ {c}) = Cardinality(S) - 1 /\ IsFiniteSet(S \ {c})
      BY Zenon, <1>6, FS_RemoveElement
    <2>. QED
      BY Zenon, <1>6, <2>1, FS_CardinalityType
  <1>7. /\ Cardinality(Live(s)') = Cardinality(Live(s)) - 1
        /\ Cardinality(Live(s)') \in Nat /\ Cardinality(Live(s)) \in Nat
    BY <1>1, <1>5, <1>6, AdmissionFinite, Zenon
  <1>8. /\ Cardinality(OpenConnections') = Cardinality(OpenConnections) - 1
        /\ Cardinality(OpenConnections') \in Nat /\ Cardinality(OpenConnections) \in Nat
    BY <1>5, <1>6, AdmissionFinite, Zenon
  <1>9. counted[o].connections = Cardinality(Live(s))
    BY Zenon, <1>1, <1>2 DEF AdmissionInv, CountersHold
  <1>10. /\ counted' \in [Objects -> CounterRecords]
         /\ \A p \in Objects : /\ counted'[p].auth = counted[p].auth
                               /\ counted'[p].connections = IF p = o THEN Cardinality(Live(s)')
                                                            ELSE counted[p].connections
    <2>1. counted[o].connections > 0
      BY <1>7, <1>9
    <2>2. Recounted(counted, counted', o, counted[o].connections - 1, counted[o].auth)
      BY Zenon, <1>2, <1>3, <2>1, AdmissionFacts, UncountConnection
    <2>. QED
      BY Zenon, <1>7, <1>9, <2>2 DEF Recounted
  <1>11. total' = Cardinality(OpenConnections') /\ total' \in Nat /\ total' <= Total
    BY <1>3, <1>8, AdmissionAssumption DEF AdmissionInv, CountersHold
  <1>12. SMTPTypeOK'
    BY <1>3, <1>4, <1>10, <1>11, AdmissionFacts, Zenon DEF SMTPTypeOK, SessionRecords, CounterRecords
  <1>13. PointersHold'
    BY <1>1, <1>3, <1>4 DEF AdmissionInv, PointersHold
  <1>14. CountersHold'
    <2>1. ASSUME NEW t \in Sources, object[t] # 0
          PROVE  /\ counted'[object[t]].connections = Cardinality(Live(t)')
                 /\ counted'[object[t]].auth = Cardinality(Checking(t)')
      <3>1. /\ counted[object[t]].connections = Cardinality(Live(t))
            /\ counted[object[t]].auth = Cardinality(Checking(t))
        BY Zenon, <2>1 DEF AdmissionInv, CountersHold
      <3>2. object[t] \in Objects /\ (object[t] = o => t = s)
        BY Zenon, <1>1, <2>1, AdmissionFacts
      <3>. QED
        BY Zenon, <1>1, <1>5, <1>10, <3>1, <3>2
    <2>2. \A p \in Objects :
            /\ counted'[p].connections <= PerSource /\ counted'[p].auth <= 1
            /\ p > made => counted'[p].connections = 0 /\ counted'[p].auth = 0
      <3> TAKE p \in Objects
      <3>1. /\ counted[p].connections <= PerSource /\ counted[p].auth <= 1
            /\ p > made => counted[p].connections = 0 /\ counted[p].auth = 0
        BY Zenon DEF AdmissionInv, CountersHold
      <3>2. p = o => ~(p > made) /\ Cardinality(Live(s)') <= PerSource
        BY <1>2, <1>7, <1>9, <3>1, AdmissionFacts, AdmissionAssumption
      <3>. QED
        BY Zenon, <1>10, <3>1, <3>2
    <2>. QED
      BY Zenon, <1>3, <1>11, <2>1, <2>2 DEF CountersHold, Objects
  <1>. QED
    BY Zenon, <1>12, <1>13, <1>14 DEF AdmissionInv

\* The sweep takes only objects nobody points to.
LEMMA RefuseKeepsAdmission ==
    ASSUME AdmissionInv, NEW c \in Connections, NEW S \in SUBSET Sources, Refuse(c, S)
    PROVE  AdmissionInv'
  <1>1. /\ UNCHANGED <<made, counted, total, session>>
        /\ conn[c].is = "fresh" /\ conn' = [conn EXCEPT ![c].is = "closed"]
        /\ object' = [t \in Sources |-> IF t \in S THEN 0 ELSE object[t]]
    BY Zenon DEF Refuse, Sweep
  <1>2. \A t \in S : Live(t) = {} /\ Checking(t) = {}
    BY IdleHasNothing, Zenon DEF Refuse
  <1>3. /\ conn' \in [Connections -> [is : {"fresh", "open", "closed"}, object : 0 .. made]]
        /\ \A d \in Connections : d # c => conn'[d] = conn[d]
        /\ conn'[c].is = "closed"
    <2>1. conn \in [Connections -> [is : {"fresh", "open", "closed"}, object : 0 .. made]]
      BY AdmissionFacts, Zenon DEF SMTPTypeOK
    <2>. QED
      BY Zenon, <1>1, <2>1
  <1>4. /\ \A t \in Sources : Live(t)' = Live(t) /\ Checking(t)' = Checking(t)
        /\ OpenConnections' = OpenConnections
    BY Zenon, <1>1, <1>3 DEF Live, Checking, OpenConnections
  <1>5. SMTPTypeOK'
    <2>1. object' \in [Sources -> 0 .. made]
      BY <1>1, AdmissionFacts
    <2>. QED
      BY <1>1, <1>3, <2>1, AdmissionFacts, Zenon DEF SMTPTypeOK
  <1>6. PointersHold'
    <2>1. \A d \in Connections : From[d] \in S => conn[d].is # "open" /\ session[d].checking = 0
      BY Zenon, <1>2 DEF Live, Checking
    <2>2. \A d \in Connections :
            /\ conn'[d].is = "open" => conn'[d].object # 0 /\ conn'[d].object = object'[From[d]]
            /\ session'[d].checking # 0 => session'[d].checking = object'[From[d]]
      BY Zenon, <1>1, <1>3, <2>1, AdmissionFacts DEF AdmissionInv, PointersHold
    <2>3. \A t, u \in Sources : object'[t] # 0 /\ object'[t] = object'[u] => t = u
      BY Zenon, <1>1, AdmissionFacts
    <2>. QED
      BY Zenon, <2>2, <2>3 DEF PointersHold
  <1>7. CountersHold'
    <2>1. \A t \in Sources : object'[t] # 0 => object'[t] = object[t]
      BY Zenon, <1>1
    <2>. QED
      BY Zenon, <1>1, <1>4, <2>1 DEF AdmissionInv, CountersHold, Objects
  <1>. QED
    BY Zenon, <1>5, <1>6, <1>7 DEF AdmissionInv

\* connect: the source's object, made when the sweep or nobody before left none, has the
\* counters of what the source has open.
LEMMA ConnectObjects ==
    ASSUME AdmissionInv, NEW c \in Connections, NEW S \in SUBSET Sources, NEW refused \in BOOLEAN,
           Connect(c, S, refused)
    PROVE  /\ made' \in 0 .. ObjectBound /\ made <= made'
           /\ object' \in [Sources -> 0 .. made'] /\ object'[From[c]] \in Objects
           /\ object'[From[c]] # 0 /\ object'[From[c]] <= made'
           /\ \A t \in Sources : object'[t] # 0 =>
                /\ counted[object'[t]].connections = Cardinality(Live(t))
                /\ counted[object'[t]].auth = Cardinality(Checking(t))
           /\ \A t, u \in Sources : object'[t] # 0 /\ object'[t] = object'[u] => t = u
           /\ \A t \in Sources : \/ object'[t] = object[t]
                                 \/ Live(t) = {} /\ Checking(t) = {}
  <1>1. PICK s, swept : /\ s = From[c] /\ s \in Sources
                        /\ swept = [t \in Sources |-> IF t \in S THEN 0 ELSE object[t]]
    BY Zenon, AdmissionFacts
  <1>2. /\ object' = IF swept[s] = 0 THEN [swept EXCEPT ![s] = made + 1] ELSE swept
        /\ made' = IF swept[s] = 0 THEN made + 1 ELSE made
        /\ swept[s] # 0 \/ made < ObjectBound
    BY <1>1, Zenon DEF Connect, With, Sweep
  <1>3. \A t \in Sources : swept[t] = 0 => Live(t) = {} /\ Checking(t) = {}
    BY <1>1, IdleHasNothing, Zenon DEF Connect
  <1>4. swept \in [Sources -> 0 .. made] /\ \A t \in Sources : swept[t] # 0 => swept[t] = object[t]
    BY <1>1, AdmissionFacts
  <1>5. \A t \in Sources : object[t] # 0 =>
            /\ counted[object[t]].connections = Cardinality(Live(t))
            /\ counted[object[t]].auth = Cardinality(Checking(t))
    BY Zenon DEF AdmissionInv, CountersHold
  <1>6. CASE swept[s] # 0
    <2>1. object' = swept /\ made' = made
      BY Zenon, <1>2, <1>6
    <2>2. object'[s] \in Objects /\ object'[s] # 0 /\ object'[s] <= made'
      BY <1>1, <1>4, <1>6, <2>1, AdmissionFacts DEF Objects
    <2>3. \A t, u \in Sources : object'[t] # 0 /\ object'[t] = object'[u] => t = u
      BY Zenon, <1>4, <2>1, AdmissionFacts
    <2>. QED
      BY <1>1, <1>3, <1>4, <1>5, <2>1, <2>2, <2>3, AdmissionFacts
  <1>7. CASE swept[s] = 0
    <2>1. /\ made' = made + 1 /\ made < ObjectBound
          /\ \A t \in Sources : object'[t] = IF t = s THEN made + 1 ELSE swept[t]
          /\ object' = [swept EXCEPT ![s] = made + 1]
      BY Zenon, <1>1, <1>2, <1>4, <1>7
    <2>2. /\ made' \in 0 .. ObjectBound /\ made <= made'
          /\ object'[s] \in Objects /\ object'[s] # 0 /\ object'[s] <= made'
      BY <1>1, <2>1, AdmissionFacts DEF Objects
    <2>3. object' \in [Sources -> 0 .. made']
      <3>1. made + 1 \in 0 .. made' /\ 0 .. made \subseteq 0 .. made'
        BY <2>1, AdmissionFacts
      <3>2. swept \in [Sources -> 0 .. made']
        BY Zenon, <1>4, <3>1
      <3>. QED
        BY Zenon, <2>1, <3>1, <3>2
    <2>4. \A t \in Sources : t # s => object'[t] # made + 1 /\ (object'[t] # 0 => object'[t] = object[t])
      BY <1>4, <2>1, AdmissionFacts
    <2>5. \A t, u \in Sources : object'[t] # 0 /\ object'[t] = object'[u] => t = u
      BY <1>1, <2>1, <2>4, AdmissionFacts
    <2>6. /\ counted[made + 1].connections = Cardinality(Live(s))
          /\ counted[made + 1].auth = Cardinality(Checking(s))
      <3>1. made + 1 \in Objects /\ made + 1 > made
        BY <1>1, <2>1, <2>2, AdmissionFacts
      <3>2. counted[made + 1].connections = 0 /\ counted[made + 1].auth = 0
        BY Zenon, <3>1 DEF AdmissionInv, CountersHold
      <3>3. Cardinality(Live(s)) = 0 /\ Cardinality(Checking(s)) = 0
        BY <1>1, <1>3, <1>7, FS_EmptySet, Zenon
      <3>. QED
        BY Zenon, <3>2, <3>3
    <2>7. \A t \in Sources : object'[t] # 0 =>
            /\ counted[object'[t]].connections = Cardinality(Live(t))
            /\ counted[object'[t]].auth = Cardinality(Checking(t))
      BY Zenon, <1>5, <2>1, <2>4, <2>6
    <2>8. \A t \in Sources : \/ object'[t] = object[t]
                             \/ Live(t) = {} /\ Checking(t) = {}
      BY Zenon, <1>1, <1>3, <1>7, <2>4, <2>1
    <2>. QED
      BY Zenon, <1>1, <2>2, <2>3, <2>5, <2>7, <2>8
  <1>. QED
    BY Zenon, <1>6, <1>7

\* connect keeps the counters right, whether it lets the connection in or not.
LEMMA ConnectKeepsAdmission ==
    ASSUME AdmissionInv, NEW c \in Connections, NEW S \in SUBSET Sources, NEW refused \in BOOLEAN,
           Connect(c, S, refused)
    PROVE  AdmissionInv'
  <1>1. PICK s, o : s = From[c] /\ o = object'[s] /\ s \in Sources
    BY Zenon, AdmissionFacts
  <1>2. /\ made' \in 0 .. ObjectBound /\ made <= made' /\ made \in Nat /\ made' \in Nat
        /\ object' \in [Sources -> 0 .. made'] /\ o \in Objects /\ o # 0 /\ o <= made' /\ o \in 0 .. made'
        /\ \A t \in Sources : object'[t] # 0 =>
                /\ counted[object'[t]].connections = Cardinality(Live(t))
                /\ counted[object'[t]].auth = Cardinality(Checking(t))
        /\ \A t, u \in Sources : object'[t] # 0 /\ object'[t] = object'[u] => t = u
        /\ \A t \in Sources : object'[t] = object[t] \/ (Live(t) = {} /\ Checking(t) = {})
    <2>1. /\ made' \in 0 .. ObjectBound /\ made <= made'
          /\ object' \in [Sources -> 0 .. made'] /\ o \in Objects /\ o # 0 /\ o <= made'
      BY <1>1, ConnectObjects
    <2>2. made \in Nat /\ made' \in Nat /\ o \in 0 .. made'
      BY <1>1, <2>1, AdmissionFacts
    <2>. QED
      BY <2>1, <2>2, ConnectObjects, Zenon
  <1>3. conn[c].is = "fresh" /\ UNCHANGED session /\ total < Total
    BY Zenon DEF Connect
  <1>4. conn \in [Connections -> [is : {"fresh", "open", "closed"}, object : 0 .. made']]
    <2>1. conn \in [Connections -> [is : {"fresh", "open", "closed"}, object : 0 .. made]]
      BY AdmissionFacts, Zenon DEF SMTPTypeOK
    <2>2. 0 .. made \subseteq 0 .. made'
      BY <1>2
    <2>. QED
      BY Zenon, <2>1, <2>2
  <1>5. session' \in [Connections -> SessionRecords(made')]
    <2>1. session \in [Connections -> SessionRecords(made)]
      BY Zenon, AdmissionFacts
    <2>2. 0 .. made \subseteq 0 .. made'
      BY <1>2
    <2>3. SessionRecords(made) \subseteq SessionRecords(made')
      BY Zenon, <2>2 DEF SessionRecords
    <2>. QED
      BY Zenon, <1>3, <2>1, <2>3
  <1>6. \A d \in Connections :
          /\ conn[d].is = "open" => conn[d].object # 0 /\ conn[d].object = object'[From[d]]
          /\ session[d].checking # 0 => session[d].checking = object'[From[d]]
    <2> TAKE d \in Connections
    <2>1. From[d] \in Sources
      BY Zenon, AdmissionFacts
    <2>2. conn[d].is = "open" \/ session[d].checking # 0 => object'[From[d]] = object[From[d]]
      BY Zenon, <1>2, <2>1 DEF Live, Checking
    <2>. QED
      BY Zenon, <2>2 DEF AdmissionInv, PointersHold
  <1>7. CASE /\ conn' = [conn EXCEPT ![c].is = "closed"]
             /\ UNCHANGED <<counted, total>>
    <2>1. /\ conn' \in [Connections -> [is : {"fresh", "open", "closed"}, object : 0 .. made']]
          /\ \A d \in Connections : d # c => conn'[d] = conn[d]
          /\ conn'[c].is = "closed"
      BY Zenon, <1>4, <1>7
    <2>2. /\ \A t \in Sources : Live(t)' = Live(t) /\ Checking(t)' = Checking(t)
          /\ OpenConnections' = OpenConnections
      BY Zenon, <1>3, <2>1 DEF Live, Checking, OpenConnections
    <2>3. SMTPTypeOK'
      BY <1>2, <1>5, <1>7, <2>1, AdmissionFacts, Zenon DEF SMTPTypeOK, SessionRecords
    <2>4. PointersHold'
      BY Zenon, <1>2, <1>3, <1>6, <2>1 DEF PointersHold
    <2>5. CountersHold'
      BY <1>2, <1>7, <2>2 DEF AdmissionInv, CountersHold, Objects
    <2>. QED
      BY Zenon, <2>3, <2>4, <2>5 DEF AdmissionInv
  <1>8. CASE /\ counted[o].connections < PerSource
             /\ conn' = [conn EXCEPT ![c] = [is |-> "open", object |-> o]]
             /\ counted' = [counted EXCEPT ![o].connections = @ + 1]
             /\ total' = total + 1
    <2>1. /\ conn' \in [Connections -> [is : {"fresh", "open", "closed"}, object : 0 .. made']]
          /\ \A d \in Connections : d # c => conn'[d] = conn[d]
          /\ conn'[c].is = "open" /\ conn'[c].object = o
      BY Zenon, <1>2, <1>4, <1>8
    <2>2. /\ \A t \in Sources : t # s => Live(t)' = Live(t)
          /\ \A t \in Sources : Checking(t)' = Checking(t)
          /\ Live(s)' = Live(s) \cup {c} /\ c \notin Live(s)
          /\ OpenConnections' = OpenConnections \cup {c} /\ c \notin OpenConnections
      BY Zenon, <1>1, <1>3, <2>1 DEF Live, Checking, OpenConnections
    <2>3. ASSUME NEW T, IsFiniteSet(T), c \notin T
          PROVE  Cardinality(T \cup {c}) = Cardinality(T) + 1
      BY Zenon, <2>3, FS_AddElement
    <2>4. /\ Cardinality(Live(s)') = Cardinality(Live(s)) + 1
          /\ Cardinality(OpenConnections') = Cardinality(OpenConnections) + 1
      BY <1>1, <2>2, <2>3, AdmissionFinite, Zenon
    <2>5. counted[o].connections = Cardinality(Live(s)) /\ counted[o].auth = Cardinality(Checking(s))
      BY Zenon, <1>1, <1>2
    <2>6. /\ counted' \in [Objects -> CounterRecords]
          /\ \A p \in Objects : /\ counted'[p].auth = counted[p].auth
                                /\ counted'[p].connections = IF p = o THEN Cardinality(Live(s)')
                                                             ELSE counted[p].connections
      <3>1. Recounted(counted, counted', o, counted[o].connections + 1, counted[o].auth)
        BY Zenon, <1>2, <1>8, AdmissionFacts, CountConnection
      <3>. QED
        BY Zenon, <2>4, <2>5, <3>1 DEF Recounted
    <2>7. total' = Cardinality(OpenConnections') /\ total' \in Nat /\ total' <= Total
      BY <1>3, <1>8, <2>4, AdmissionFacts, AdmissionAssumption DEF AdmissionInv, CountersHold, SMTPTypeOK
    <2>8. SMTPTypeOK'
      BY <1>2, <1>5, <2>1, <2>6, <2>7, Zenon DEF SMTPTypeOK, SessionRecords, CounterRecords
    <2>9. PointersHold'
      BY Zenon, <1>1, <1>2, <1>3, <1>6, <2>1 DEF PointersHold
    <2>10. CountersHold'
      <3>1. ASSUME NEW t \in Sources, object'[t] # 0
            PROVE  /\ counted'[object'[t]].connections = Cardinality(Live(t)')
                   /\ counted'[object'[t]].auth = Cardinality(Checking(t)')
        <4>1. /\ counted[object'[t]].connections = Cardinality(Live(t))
              /\ counted[object'[t]].auth = Cardinality(Checking(t))
          BY Zenon, <1>2, <3>1
        <4>2. object'[t] \in Objects /\ (object'[t] = o => t = s)
          BY <1>1, <1>2, <3>1, AdmissionAssumption DEF Objects
        <4>. QED
          BY Zenon, <1>1, <2>2, <2>6, <4>1, <4>2
      <3>2. \A p \in Objects :
              /\ counted'[p].connections <= PerSource /\ counted'[p].auth <= 1
              /\ p > made' => counted'[p].connections = 0 /\ counted'[p].auth = 0
        <4> TAKE p \in Objects
        <4>1. /\ counted[p].connections <= PerSource /\ counted[p].auth <= 1
              /\ p > made => counted[p].connections = 0 /\ counted[p].auth = 0
          BY Zenon DEF AdmissionInv, CountersHold
        <4>2. p = o => ~(p > made') /\ Cardinality(Live(s)') <= PerSource
          BY <1>1, <1>2, <1>8, <2>4, <2>5, AdmissionFinite, AdmissionAssumption
        <4>3. p > made' => p > made
          BY <1>2 DEF Objects
        <4>. QED
          BY Zenon, <2>6, <4>1, <4>2, <4>3
      <3>. QED
        BY Zenon, <2>7, <3>1, <3>2 DEF CountersHold, Objects
    <2>. QED
      BY Zenon, <2>8, <2>9, <2>10 DEF AdmissionInv
  <1>9. (conn' = [conn EXCEPT ![c].is = "closed"] /\ UNCHANGED <<counted, total>>)
        \/ (/\ counted[o].connections < PerSource
            /\ conn' = [conn EXCEPT ![c] = [is |-> "open", object |-> o]]
            /\ counted' = [counted EXCEPT ![o].connections = @ + 1]
            /\ total' = total + 1)
    BY <1>1, Zenon DEF Connect
  <1>. QED
    BY <1>7, <1>8, <1>9, Zenon

\* Every step keeps the invariant of the admission.
LEMMA AdmissionStep == AdmissionInv /\ [SMTPNext]_smtpVars => AdmissionInv'
  <1> SUFFICES ASSUME AdmissionInv, [SMTPNext]_smtpVars PROVE AdmissionInv'
    BY Zenon
  <1>1. CASE UNCHANGED smtpVars
    <2>1. SMTPTypeOK'
      BY <1>1, AdmissionFacts, Zenon DEF SMTPTypeOK, smtpVars
    <2>. QED
      BY Zenon, <1>1, <2>1, SessionKeepsAdmission DEF smtpVars
  <1>2. ASSUME NEW c \in Connections, StartTLS(c) \/ Rcpt(c) \/ Data(c) PROVE AdmissionInv'
    <2>1. Nothing \in Addresses \cup {Nothing}
      BY Zenon
    <2>. QED
      BY <1>2, <2>1, TalkKeepsAdmission, Zenon
  <1>3. ASSUME NEW c \in Connections, NEW a \in Addresses, Mail(c, a) PROVE AdmissionInv'
    <2>1. a \in Addresses \cup {Nothing}
      BY Zenon
    <2>. QED
      BY <1>3, <2>1, TalkKeepsAdmission, Zenon
  <1>. QED
    BY <1>1, <1>2, <1>3, AuthBeginsKeepsAdmission, AuthEndsKeepsAdmission,
       CloseKeepsAdmission, RefuseKeepsAdmission, ConnectKeepsAdmission, Zenon DEF SMTPNext

\* The limits on connections, in all and per source, and on password checks per source
\* hold of what is really open and running, for any connections, sources and limits.
THEOREM SMTPLimits == SMTPSpec => []SourceLimitsHold
  BY AdmissionStart, AdmissionStep, AdmissionLimits, PTL DEF SMTPSpec
====
