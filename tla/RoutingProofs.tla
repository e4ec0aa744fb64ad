----------------------------- MODULE RoutingProofs -----------------------------
(***************************************************************************)
(* Which provider an attempt may use: the route of a message               *)
(* (FailoverRoute) and the admission of a claim (ProviderControls), for    *)
(* any providers, recipients, workers, limits and bounds.                  *)
(***************************************************************************)
EXTENDS FailoverRoute, ProviderControls, FiniteSetTheorems, NaturalsInduction,
        WellFoundedInduction, TLAPS

(***************************************************************************)
(* Sequences and greatest numbers.                                         *)
(***************************************************************************)
\* Append, as the proofs use it.
LEMMA AppendFacts ==
    ASSUME NEW T, NEW s \in Seq(T), NEW x \in T
    PROVE  /\ Append(s, x) \in Seq(T) /\ Len(s) \in Nat /\ Len(Append(s, x)) = Len(s) + 1
           /\ \A i \in 1 .. Len(s) : Append(s, x)[i] = s[i]
           /\ Append(s, x)[Len(s) + 1] = x
  OBVIOUS

\* An element is replaced.
LEMMA ReplaceFacts ==
    ASSUME NEW T, NEW s \in Seq(T), NEW n \in 1 .. Len(s), NEW x \in T
    PROVE  /\ [s EXCEPT ![n] = x] \in Seq(T) /\ Len([s EXCEPT ![n] = x]) = Len(s)
           /\ \A i \in 1 .. Len(s) : [s EXCEPT ![n] = x][i] = IF i = n THEN x ELSE s[i]
  OBVIOUS

\* A set of numbers up to n that is not empty has a greatest one, and Max is it.
LEMMA MaxIsGreatest ==
    ASSUME NEW n \in Nat, NEW S \in SUBSET (1 .. n), S # {}
    PROVE  Max(S) \in S /\ \A i \in S : i <= Max(S)
  <1> DEFINE Bounds == {m \in Nat : \A i \in S : i <= m}
  <1>1. n \in Bounds
    OBVIOUS
  <1>2. PICK m \in Bounds : \A k \in Bounds : ~(<<k, m>> \in OpToRel(<, Nat))
    <2>1. IsWellFoundedOn(OpToRel(<, Nat), Nat)
      BY Zenon, NatLessThanWellFounded
    <2>2. Bounds \subseteq Nat /\ Bounds # {}
      BY Zenon, <1>1
    <2>. HIDE DEF Bounds
    <2>. QED
      BY Zenon, <2>1, <2>2, WFMin
  <1>3. \A k \in Bounds : ~(k < m)
    BY Zenon, <1>2 DEF OpToRel
  <1>4. m \in S
    <2>1. SUFFICES ASSUME m \notin S PROVE FALSE
      BY Zenon
    <2>2. PICK i \in S : TRUE
      BY Zenon
    <2>3. m \in Nat /\ i \in 1 .. n /\ i <= m /\ i # m
      BY Zenon, <2>1, <2>2
    <2>4. m - 1 \in Nat
      BY <2>3
    <2>5. \A j \in S : j <= m - 1
      BY <2>1, <2>3
    <2>. QED
      BY <1>3, <2>4, <2>5
  <1>5. m \in S /\ \A i \in S : m >= i
    BY Zenon, <1>4
  <1>6. Max(S) = CHOOSE x \in S : \A y \in S : x >= y
    BY Zenon DEF Max
  <1>7. Max(S) \in S /\ \A y \in S : Max(S) >= y
    BY <1>5, <1>6, Zenon
  <1>. QED
    BY Zenon, <1>7

(***************************************************************************)
(* The route of a message.  The route is the provider of the last attempt; *)
(* a recipient whose own last attempt was with another provider, because a *)
(* claim took the others only, was left behind with the permission to      *)
(* move.                                                                   *)
(***************************************************************************)
LastIn(r, i) == i \in AttemptsOf(r) /\ \A j \in AttemptsOf(r) : j <= i

LastAttempt ==
    /\ \A i \in Numbers : attempts[i].result = "IN_PROGRESS" => i = Len(attempts)
    /\ \A r \in Recipients : status[r] = "SENDING" =>
         /\ Len(attempts) \in Numbers /\ attempts[Len(attempts)].result = "IN_PROGRESS"
         /\ r \in attempts[Len(attempts)].recipients
    /\ \A r \in Recipients : status[r] = "UNKNOWN" =>
         Len(attempts) \in Numbers /\ r \in attempts[Len(attempts)].recipients
    /\ Sending => \A r \in attempts[Len(attempts)].recipients : status[r] \in {"SENDING", "DONE"}

RouteIsLast ==
    /\ Len(attempts) = 0 <=> route = NoProvider
    /\ Len(attempts) # 0 => route = attempts[Len(attempts)].provider

LeftBehind ==
    \A r \in Recipients : status[r] # "DONE" =>
      \A i \in Numbers : LastIn(r, i) =>
         attempts[i].provider = route \/ attempts[i].decision[r] = "FAILOVER"

RouteInv == /\ TypeOK /\ LastAttempt /\ RouteIsLast /\ LeftBehind
            /\ MovesOnlyWhenAllowed /\ RouteGoesForward

\* The parts of an attempt.
LEMMA AttemptParts ==
    ASSUME TypeOK, NEW i \in Numbers
    PROVE  /\ attempts[i] \in Attempt
           /\ attempts[i].provider \in Providers /\ attempts[i].recipients \in SUBSET Recipients
           /\ attempts[i].decision \in [Recipients -> Recorded]
           /\ Len(attempts) \in Nat /\ Len(attempts) \in Numbers
  <1>1. attempts \in Seq(Attempt) /\ i \in 1 .. Len(attempts)
    BY Zenon DEF TypeOK, Numbers
  <1>2. attempts[i] \in Attempt /\ Len(attempts) \in Nat /\ Len(attempts) \in 1 .. Len(attempts)
    BY <1>1
  <1>. QED
    BY Zenon, <1>2 DEF Attempt, Numbers

\* The latest attempt of a recipient is one of its attempts.
LEMMA LatestIsLast ==
    ASSUME TypeOK, NEW r \in Recipients, AttemptsOf(r) # {}
    PROVE  LastIn(r, Latest(r)) /\ Latest(r) \in Numbers
  <1>1. Len(attempts) \in Nat
    BY DEF TypeOK
  <1>2. AttemptsOf(r) \in SUBSET (1 .. Len(attempts))
    BY Zenon DEF AttemptsOf, Numbers
  <1>3. Latest(r) \in AttemptsOf(r) /\ \A i \in AttemptsOf(r) : i <= Latest(r)
    BY Zenon, <1>1, <1>2, MaxIsGreatest DEF Latest
  <1>. QED
    BY Zenon, <1>3 DEF LastIn, AttemptsOf

\* The selection gives recordFailover what it asks for, whatever the state.
LEMMA EvidenceFollows == TypeOK => SelectionSuffices
  <1> SUFFICES ASSUME TypeOK, NEW p \in Providers, NEW S \in SUBSET Recipients, Selectable(p, S),
                      route # NoProvider, route # p, NEW r \in S
               PROVE  AttemptsOf(r) # {} /\ attempts[Latest(r)].provider # p
    BY Zenon DEF SelectionSuffices, EvidenceComplete
  <1>1. SafeFailover /\ p \notin Visited
    BY Zenon DEF Selectable, EligibleProvider
  <1>2. status[r] = "QUEUED" /\ r \in Recipients
    BY Zenon DEF Selectable, Claimable
  <1>3. MayMove(r)
    BY Zenon, <1>1, <1>2 DEF SafeFailover
  <1>4. AttemptsOf(r) # {}
    BY Zenon, <1>3 DEF MayMove
  <1>5. Latest(r) \in Numbers
    BY Zenon, <1>2, <1>4, LatestIsLast
  <1>. QED
    BY Zenon, <1>1, <1>4, <1>5 DEF Visited

\* Steps that leave the attempts alone: what they do to a status.
LEMMA BetweenKeepsRoute ==
    ASSUME RouteInv, TypeOK', UNCHANGED <<route, attempts>>,
           \A r \in Recipients : /\ status[r] = "DONE" => status'[r] = "DONE"
                                 /\ status'[r] = "SENDING" => status[r] = "SENDING"
                                 /\ status[r] = "SENDING" => status'[r] \in {"SENDING", "DONE"}
                                 /\ status'[r] = "UNKNOWN" => status[r] = "UNKNOWN"
    PROVE  RouteInv'
  <1>1. \A r : AttemptsOf(r)' = AttemptsOf(r)
    BY Zenon DEF AttemptsOf, Numbers
  <1>2. Numbers' = Numbers /\ Sending' = Sending /\ Visited' = Visited
    BY Zenon DEF Numbers, Sending, Visited
  <1>3. LastAttempt'
    <2>1. Sending => \A r \in attempts[Len(attempts)].recipients : r \in Recipients
      <3>1. Sending => Len(attempts) \in Numbers
        BY Zenon DEF Sending, RouteInv, LastAttempt
      <3>. QED
        BY Zenon, <3>1, AttemptParts DEF RouteInv
    <2>. QED
      BY Zenon, <1>2, <2>1 DEF RouteInv, LastAttempt
  <1>4. RouteIsLast'
    BY Zenon DEF RouteInv, RouteIsLast
  <1>5. LeftBehind'
    BY Zenon, <1>1, <1>2 DEF RouteInv, LeftBehind, LastIn
  <1>6. MovesOnlyWhenAllowed'
    BY Zenon, <1>1 DEF RouteInv, MovesOnlyWhenAllowed
  <1>7. RouteGoesForward'
    BY <1>2 DEF RouteInv, RouteGoesForward
  <1>. QED
    BY Zenon, <1>3, <1>4, <1>5, <1>6, <1>7 DEF RouteInv

\* The last attempt ends: its result and its decisions are written, and nothing else.
Ended ==
    /\ attempts' \in Seq(Attempt) /\ Len(attempts') = Len(attempts)
    /\ \A i \in Numbers : /\ attempts'[i].provider = attempts[i].provider
                          /\ attempts'[i].recipients = attempts[i].recipients
                          /\ i # Len(attempts) => attempts'[i] = attempts[i]
    /\ attempts'[Len(attempts)].result # "IN_PROGRESS"

\* The end of an attempt, by Finish or by Recover.
LEMMA EndKeepsRoute ==
    ASSUME RouteInv, Sending, Ended, TypeOK', UNCHANGED route,
           \A r \in Recipients :
              /\ status[r] = "DONE" => status'[r] = "DONE"
              /\ status'[r] # "SENDING"
              /\ status'[r] = "UNKNOWN" =>
                    status[r] = "UNKNOWN" \/ r \in attempts[Len(attempts)].recipients
    PROVE  RouteInv'
  <1>1. Numbers' = Numbers /\ Len(attempts) \in Nat
    BY DEF Ended, Numbers, RouteInv, TypeOK
  <1>2. \A r : AttemptsOf(r)' = AttemptsOf(r)
    BY Zenon, <1>1 DEF AttemptsOf, Ended
  <1>3. Visited' = Visited
    BY <1>1 DEF Visited, Ended
  <1>4. Len(attempts) \in Numbers
    BY Zenon DEF Sending, RouteInv, LastAttempt
  <1>5. ~Sending'
    <2>1. \A i \in Numbers : i # Len(attempts) => attempts[i].result # "IN_PROGRESS"
      BY Zenon DEF RouteInv, LastAttempt
    <2>. QED
      BY Zenon, <1>1, <2>1 DEF Sending, Ended
  <1>6. LastAttempt'
    <2>1. \A i \in Numbers : attempts'[i].result # "IN_PROGRESS"
      BY Zenon, <1>1, <1>5 DEF Sending
    <2>2. \A r \in Recipients : status'[r] = "UNKNOWN" =>
            Len(attempts') \in Numbers /\ r \in attempts'[Len(attempts')].recipients
      BY <1>4 DEF RouteInv, LastAttempt, Ended
    <2>. QED
      BY Zenon, <1>1, <1>5, <2>1, <2>2 DEF LastAttempt
  <1>7. RouteIsLast'
    BY Zenon, <1>4 DEF RouteInv, RouteIsLast, Ended
  <1>8. LeftBehind'
    <2> SUFFICES ASSUME NEW r \in Recipients, status'[r] # "DONE", NEW i \in Numbers, LastIn(r, i)
                 PROVE  attempts'[i].provider = route \/ attempts'[i].decision[r] = "FAILOVER"
      BY Zenon, <1>1, <1>2 DEF LeftBehind, LastIn
    <2>1. attempts[i].provider = route \/ attempts[i].decision[r] = "FAILOVER"
      BY Zenon DEF RouteInv, LeftBehind
    <2>2. CASE i = Len(attempts)
      BY <1>1, <1>4, <2>2 DEF RouteInv, RouteIsLast, Ended, Numbers
    <2>3. CASE i # Len(attempts)
      BY Zenon, <2>1, <2>3 DEF Ended
    <2>. QED
      BY Zenon, <2>2, <2>3
  <1>9. MovesOnlyWhenAllowed'
    <2> SUFFICES ASSUME NEW r \in Recipients, NEW i \in AttemptsOf(r), NEW j \in AttemptsOf(r),
                        i < j, \A k \in AttemptsOf(r) : k <= i \/ k >= j,
                        attempts'[i].provider # attempts'[j].provider
                 PROVE  attempts'[i].decision[r] = "FAILOVER"
      BY Zenon, <1>2 DEF MovesOnlyWhenAllowed
    <2>1. i \in Numbers /\ j \in Numbers /\ i # Len(attempts)
      BY <1>1 DEF AttemptsOf, Numbers
    <2>2. attempts[i].decision[r] = "FAILOVER"
      BY <2>1 DEF RouteInv, MovesOnlyWhenAllowed, Ended
    <2>. QED
      BY Zenon, <2>1, <2>2 DEF Ended
  <1>10. RouteGoesForward'
    BY <1>1, <1>3 DEF RouteInv, RouteGoesForward, Ended
  <1>. QED
    BY Zenon, <1>6, <1>7, <1>8, <1>9, <1>10 DEF RouteInv

Statuses == {"QUEUED", "SENDING", "WAITING", "HELD", "UNKNOWN", "DONE"}

\* What Finish and Recover write in the last attempt.
LEMMA WriteEnds ==
    ASSUME RouteInv, Sending, NEW D \in [Recipients -> Recorded], NEW R \in {"TEMP_FAILED", "OTHER"},
           NEW n, n = Len(attempts),
           \/ attempts' = [attempts EXCEPT ![n].decision = D, ![n].result = R]
           \/ attempts' = [attempts EXCEPT ![n].result = R]
    PROVE  Ended /\ n \in Numbers
  <1>1. n \in Numbers /\ attempts \in Seq(Attempt) /\ attempts[n] \in Attempt
    <2>1. \E i \in Numbers : TRUE
      BY Zenon DEF Sending
    <2>. QED
      BY Zenon, <2>1, AttemptParts DEF RouteInv, TypeOK
  <1>2. PICK x \in Attempt : /\ attempts' = [attempts EXCEPT ![n] = x]
                             /\ x.provider = attempts[n].provider
                             /\ x.recipients = attempts[n].recipients
                             /\ x.result # "IN_PROGRESS"
    <2>1. CASE attempts' = [attempts EXCEPT ![n].decision = D, ![n].result = R]
      <3> DEFINE x == [attempts[n] EXCEPT !.decision = D, !.result = R]
      <3>1. /\ x \in Attempt /\ x.provider = attempts[n].provider
            /\ x.recipients = attempts[n].recipients /\ x.result # "IN_PROGRESS"
        BY Zenon, <1>1 DEF Attempt
      <3>2. attempts' = [attempts EXCEPT ![n] = x]
        BY <2>1, Zenon
      <3>. QED
        BY <3>1, <3>2, Zenon
    <2>2. CASE attempts' = [attempts EXCEPT ![n].result = R]
      <3> DEFINE x == [attempts[n] EXCEPT !.result = R]
      <3>1. /\ x \in Attempt /\ x.provider = attempts[n].provider
            /\ x.recipients = attempts[n].recipients /\ x.result # "IN_PROGRESS"
        BY Zenon, <1>1 DEF Attempt
      <3>2. attempts' = [attempts EXCEPT ![n] = x]
        BY <2>2, Zenon
      <3>. QED
        BY <3>1, <3>2, Zenon
    <2>. QED
      BY Zenon, <2>1, <2>2
  <1>3. /\ attempts' \in Seq(Attempt) /\ Len(attempts') = Len(attempts)
        /\ \A i \in 1 .. Len(attempts) : attempts'[i] = IF i = n THEN x ELSE attempts[i]
    BY <1>1, <1>2, ReplaceFacts DEF Numbers
  <1>. QED
    BY <1>1, <1>2, <1>3 DEF Ended, Numbers

\* Finish.
LEMMA FinishKeepsRoute ==
    ASSUME RouteInv, NEW decision \in [Recipients -> Decisions], Finish(decision)
    PROVE  RouteInv'
  <1>1. PICK n : n = Len(attempts)
    BY Zenon
  <1>2. PICK D \in [Recipients -> Recorded], R \in {"TEMP_FAILED", "OTHER"} :
          attempts' = [attempts EXCEPT ![n].decision = D, ![n].result = R]
    <2>1. [r \in Recipients |-> Record(decision[r])] \in [Recipients -> Recorded]
      BY Zenon DEF Record, Recorded
    <2>2. Result(attempts[n], decision) \in {"TEMP_FAILED", "OTHER"}
      BY Zenon DEF Result
    <2>. QED
      BY <1>1, <2>1, <2>2, Zenon DEF Finish
  <1>3. Sending /\ Ended /\ n \in Numbers
    BY Zenon, <1>1, <1>2, WriteEnds DEF Finish
  <1>4. attempts[n].recipients \in SUBSET Recipients
    BY Zenon, <1>3, AttemptParts DEF RouteInv
  <1>5. /\ \A r \in Recipients : status'[r] = IF r \in attempts[n].recipients
                                               THEN Decided(r, decision[r]) ELSE status[r]
        /\ status' = [r \in Recipients |->
              IF r \in attempts[n].recipients THEN Decided(r, decision[r]) ELSE status[r]]
        /\ automatic' = [r \in Recipients |->
              automatic[r] /\ (r \notin attempts[n].recipients \/ decision[r] = "RESUME")]
        /\ UNCHANGED <<route, over>>
    BY Zenon, <1>1 DEF Finish
  <1>6. \A r \in attempts[n].recipients :
          /\ Decided(r, decision[r]) \in {"QUEUED", "UNKNOWN", "HELD", "WAITING", "DONE"}
          /\ status[r] = "DONE" => Decided(r, decision[r]) = "DONE"
    <2> TAKE r \in attempts[n].recipients
    <2>1. decision[r] # "none" /\ (status[r] = "DONE" => decision[r] = "SUPPRESS")
      BY Zenon, <1>1, <1>4 DEF Finish, Possible
    <2>2. decision[r] \in {"ACCEPT", "PERMANENT", "RETRY", "FAILOVER", "HOLD", "UNKNOWN",
                           "SUPPRESS", "RESUME"}
      BY Zenon, <1>4, <2>1 DEF Decisions
    <2>. QED
      BY Zenon, <2>1, <2>2 DEF Decided, Resumed
  <1>7. TypeOK'
    <2>1. status' \in [Recipients -> Statuses]
      BY Zenon, <1>5, <1>6 DEF RouteInv, TypeOK, Statuses
    <2>2. automatic' \in [Recipients -> BOOLEAN]
      BY Zenon, <1>5
    <2>. QED
      BY Zenon, <1>3, <1>5, <2>1, <2>2 DEF RouteInv, TypeOK, Ended, Statuses
  <1>8. \A r \in Recipients :
          /\ status[r] = "DONE" => status'[r] = "DONE"
          /\ status'[r] # "SENDING"
          /\ status'[r] = "UNKNOWN" => status[r] = "UNKNOWN" \/ r \in attempts[Len(attempts)].recipients
    <2>1. \A r \in Recipients : status[r] = "SENDING" => r \in attempts[n].recipients
      BY Zenon, <1>1 DEF RouteInv, LastAttempt
    <2>. QED
      BY Zenon, <1>1, <1>5, <1>6, <2>1
  <1>. QED
    BY Zenon, <1>3, <1>5, <1>7, <1>8, EndKeepsRoute

\* Recover.
LEMMA RecoverKeepsRoute ==
    ASSUME RouteInv, NEW armed \in BOOLEAN, Recover(armed)
    PROVE  RouteInv'
  <1>1. PICK n : n = Len(attempts)
    BY Zenon
  <1>2. PICK R \in {"TEMP_FAILED", "OTHER"} : attempts' = [attempts EXCEPT ![n].result = R]
    BY Zenon, <1>1 DEF Recover
  <1>3. Sending /\ Ended /\ n \in Numbers
    <2>1. [r \in Recipients |-> "none"] \in [Recipients -> Recorded]
      BY Zenon DEF Recorded
    <2>. QED
      BY Zenon, <1>1, <1>2, <2>1, WriteEnds DEF Recover
  <1>4. PICK taken \in SUBSET Recipients, held \in SUBSET Recipients :
          /\ \A r \in Recipients : r \in taken <=> r \in attempts[n].recipients /\ status[r] = "SENDING"
          /\ \A r \in held : r \in taken \/ status[r] = "QUEUED"
          /\ status' = [r \in Recipients |->
               IF armed THEN IF r \in taken THEN "UNKNOWN" ELSE status[r]
               ELSE IF r \in held THEN "HELD"
               ELSE IF r \in taken THEN "QUEUED" ELSE status[r]]
          /\ automatic' = [r \in Recipients |-> automatic[r] /\ (armed \/ r \notin held)]
          /\ UNCHANGED <<route, over>>
    <2> DEFINE T == {r \in attempts[n].recipients : status[r] = "SENDING"}
               H == {r \in Recipients : /\ r \in T \/ status[r] = "QUEUED"
                                        /\ BudgetSpent(r)}
    <2>1. /\ H \in SUBSET Recipients /\ \A r \in H : r \in T \/ status[r] = "QUEUED"
          /\ \A r \in Recipients : r \in T <=> r \in attempts[n].recipients /\ status[r] = "SENDING"
      BY Zenon
    <2>2. T \in SUBSET Recipients
      BY Zenon, <1>3, AttemptParts DEF RouteInv
    <2>3. /\ status' = [r \in Recipients |->
               IF armed THEN IF r \in T THEN "UNKNOWN" ELSE status[r]
               ELSE IF r \in H THEN "HELD"
               ELSE IF r \in T THEN "QUEUED" ELSE status[r]]
          /\ automatic' = [r \in Recipients |-> automatic[r] /\ (armed \/ r \notin H)]
          /\ UNCHANGED <<route, over>>
      BY <1>1, Zenon DEF Recover
    <2> HIDE DEF T, H
    <2>. QED
      BY <2>1, <2>2, <2>3, Zenon
  <1>5. TypeOK'
    <2>1. status' \in [Recipients -> Statuses]
      BY Zenon, <1>4 DEF RouteInv, TypeOK, Statuses
    <2>2. automatic' \in [Recipients -> BOOLEAN]
      BY Zenon, <1>4
    <2>. QED
      BY Zenon, <1>3, <1>4, <2>1, <2>2 DEF RouteInv, TypeOK, Ended, Statuses
  <1>6. \A r \in Recipients :
          /\ status[r] = "DONE" => status'[r] = "DONE"
          /\ status'[r] # "SENDING"
          /\ status'[r] = "UNKNOWN" => status[r] = "UNKNOWN" \/ r \in attempts[Len(attempts)].recipients
    <2>1. \A r \in Recipients : status[r] = "SENDING" => r \in attempts[n].recipients
      BY Zenon, <1>1 DEF RouteInv, LastAttempt
    <2>. QED
      BY Zenon, <1>1, <1>4, <2>1
  <1>. QED
    BY Zenon, <1>3, <1>4, <1>5, <1>6, EndKeepsRoute

\* ArmData's block.
LEMMA SuppressKeepsRoute ==
    ASSUME RouteInv, NEW hits \in SUBSET Recipients, SuppressAtFence(hits)
    PROVE  RouteInv'
  <1>1. PICK n : n = Len(attempts)
    BY Zenon
  <1>2. /\ hits \subseteq attempts[n].recipients
        /\ status' = [r \in Recipients |-> IF r \in hits THEN "DONE" ELSE status[r]]
        /\ automatic' = [r \in Recipients |-> automatic[r] /\ r \notin hits]
        /\ UNCHANGED <<route, attempts, over>>
    BY Zenon, <1>1 DEF SuppressAtFence
  <1>3. TypeOK'
    BY Zenon, <1>2 DEF RouteInv, TypeOK
  <1>4. \A r \in Recipients : /\ status[r] = "DONE" => status'[r] = "DONE"
                              /\ status'[r] = "SENDING" => status[r] = "SENDING"
                              /\ status[r] = "SENDING" => status'[r] \in {"SENDING", "DONE"}
                              /\ status'[r] = "UNKNOWN" => status[r] = "UNKNOWN"
    BY Zenon, <1>2
  <1>. QED
    BY Zenon, <1>2, <1>3, <1>4, BetweenKeepsRoute

\* Schedule, PolicyEnds and the end of the retry window.
LEMMA WaitKeepsRoute ==
    ASSUME RouteInv,
           \/ \E due \in SUBSET Recipients : Schedule(due)
           \/ \E r \in Recipients : PolicyEnds(r) \/ (r \in Aging /\ WindowCloses(r))
    PROVE  RouteInv'
  <1>1. CASE \E r \in Recipients : PolicyEnds(r)
    <2>1. PICK q \in Recipients : PolicyEnds(q)
      BY Zenon, <1>1
    <2>2. TypeOK'
      BY Zenon, <2>1 DEF PolicyEnds, RouteInv, TypeOK
    <2>3. \A r \in Recipients : /\ status[r] = "DONE" => status'[r] = "DONE"
                                /\ status'[r] = "SENDING" <=> status[r] = "SENDING"
                                /\ status'[r] = "UNKNOWN" => status[r] = "UNKNOWN"
      BY Zenon, <2>1 DEF PolicyEnds, RouteInv, TypeOK
    <2>. QED
      BY Zenon, <2>1, <2>2, <2>3, BetweenKeepsRoute DEF PolicyEnds
  <1>2. CASE \E r \in Recipients : r \in Aging /\ WindowCloses(r)
    <2>1. PICK q \in Recipients : WindowCloses(q)
      BY Zenon, <1>2
    <2>2. TypeOK'
      BY Zenon, <2>1 DEF WindowCloses, RouteInv, TypeOK
    <2>. QED
      BY Zenon, <2>1, <2>2, BetweenKeepsRoute DEF WindowCloses
  <1>3. CASE \E due \in SUBSET Recipients : Schedule(due)
    <2>1. PICK due \in SUBSET Recipients : Schedule(due)
      BY Zenon, <1>3
    <2> DEFINE spent == {r \in Recipients : /\ r \in due \/ (automatic[r] /\ status[r] = "QUEUED")
                                            /\ BudgetSpent(r)}
    <2>2. /\ \A r \in due : status[r] = "WAITING"
          /\ status' = [r \in Recipients |->
                IF r \in spent THEN "HELD" ELSE IF r \in due THEN "QUEUED" ELSE status[r]]
          /\ automatic' = [r \in Recipients |->
                IF r \in spent THEN FALSE ELSE automatic[r] \/ r \in due]
          /\ UNCHANGED <<route, attempts, over>>
      BY <2>1, Zenon DEF Schedule
    <2>3. \A r \in spent : status[r] \in {"WAITING", "QUEUED"}
      BY Zenon, <2>2
    <2>. HIDE DEF spent
    <2>4. TypeOK'
      <3>1. status' \in [Recipients -> Statuses]
        BY Zenon, <2>2 DEF RouteInv, TypeOK, Statuses
      <3>2. automatic' \in [Recipients -> BOOLEAN]
        BY Zenon, <2>2 DEF RouteInv, TypeOK
      <3>. QED
        BY Zenon, <2>2, <3>1, <3>2 DEF RouteInv, TypeOK, Statuses
    <2>5. \A r \in Recipients : /\ status[r] = "DONE" => status'[r] = "DONE"
                                /\ status'[r] = "SENDING" <=> status[r] = "SENDING"
                                /\ status'[r] = "UNKNOWN" => status[r] = "UNKNOWN"
      BY Zenon, <2>2, <2>3
    <2>. QED
      BY Zenon, <2>2, <2>4, <2>5, BetweenKeepsRoute
  <1>. QED
    BY Zenon, <1>1, <1>2, <1>3

\* ResolveUnknown: the latest attempt of an unknown recipient is the last one of all, so
\* the route it writes is the route there is.
LEMMA ResolveKeepsRoute ==
    ASSUME RouteInv, NEW q \in Recipients, NEW retry \in BOOLEAN, ResolveUnknown(q, retry)
    PROVE  RouteInv'
  <1>1. Len(attempts) \in Numbers /\ q \in attempts[Len(attempts)].recipients
    BY Zenon DEF ResolveUnknown, RouteInv, LastAttempt
  <1>2. Len(attempts) \in AttemptsOf(q)
    BY Zenon, <1>1 DEF AttemptsOf
  <1>3. Latest(q) \in Numbers /\ Len(attempts) <= Latest(q)
    BY <1>2, LatestIsLast, Zenon DEF LastIn, RouteInv
  <1>4. Latest(q) = Len(attempts)
    BY <1>1, <1>3 DEF Numbers, RouteInv, TypeOK
  <1>5. UNCHANGED <<route, attempts, over>>
    BY <1>1, <1>4 DEF ResolveUnknown, RouteInv, RouteIsLast, Numbers
  <1>6. TypeOK'
    BY Zenon, <1>5 DEF ResolveUnknown, RouteInv, TypeOK
  <1>7. \A r \in Recipients : /\ status[r] = "DONE" => status'[r] = "DONE"
                              /\ status'[r] = "SENDING" <=> status[r] = "SENDING"
                              /\ status'[r] = "UNKNOWN" => status[r] = "UNKNOWN"
    BY Zenon DEF ResolveUnknown, RouteInv, TypeOK
  <1>. QED
    BY Zenon, <1>5, <1>6, <1>7, BetweenKeepsRoute

\* A claim that changes the route: every unfinished recipient may move.
LEMMA MoveAllowed ==
    ASSUME RouteInv, SafeFailover, NEW r \in Recipients, status[r] # "DONE",
           NEW i \in Numbers, LastIn(r, i)
    PROVE  attempts[i].decision[r] = "FAILOVER"
  <1>1. MayMove(r)
    BY Zenon DEF SafeFailover
  <1>2. attempts[Latest(r)].decision[r] = "FAILOVER" /\ AttemptsOf(r) # {}
    BY Zenon, <1>1 DEF MayMove
  <1>3. LastIn(r, Latest(r)) /\ Latest(r) \in Numbers
    BY Zenon, <1>2, LatestIsLast DEF RouteInv
  <1>4. Latest(r) = i
    BY <1>3 DEF LastIn, Numbers, RouteInv, TypeOK
  <1>. QED
    BY Zenon, <1>2, <1>4

\* Claim.
LEMMA ClaimKeepsRoute ==
    ASSUME RouteInv, NEW p \in Providers, NEW S \in SUBSET Recipients, Claim(p, S)
    PROVE  RouteInv'
  <1>1. PICK n, x : /\ n = Len(attempts)
                    /\ x = [provider |-> p, recipients |-> S, result |-> "IN_PROGRESS",
                            decision |-> [r \in Recipients |-> "none"]]
    BY Zenon
  <1>2. /\ x \in Attempt /\ x.provider = p /\ x.recipients = S /\ x.result = "IN_PROGRESS"
    BY Zenon, <1>1 DEF Attempt, Recorded
  <1>3. /\ attempts' = Append(attempts, x) /\ route' = p /\ UNCHANGED <<automatic, over>>
        /\ status' = [r \in Recipients |-> IF r \in S THEN "SENDING" ELSE status[r]]
        /\ ~Sending /\ ~Unresolved /\ S \subseteq Claimable /\ EligibleProvider(p)
    BY <1>1, Zenon DEF Claim, Selectable
  <1>4. /\ attempts' \in Seq(Attempt) /\ n \in Nat /\ Len(attempts') = n + 1
        /\ \A i \in 1 .. n : attempts'[i] = attempts[i]
        /\ attempts'[n + 1] = x
    BY <1>1, <1>2, <1>3, AppendFacts DEF RouteInv, TypeOK
  <1>5. Numbers = 1 .. n /\ Numbers' = 1 .. n + 1
    BY Zenon, <1>1, <1>4 DEF Numbers
  <1>6. \A i \in Numbers : i \in Numbers' /\ attempts'[i] = attempts[i] /\ i <= n /\ i \in Nat
    BY <1>4, <1>5
  <1>7. n + 1 \in Numbers' /\ n + 1 \notin Numbers
        /\ \A i \in Numbers' : i \in Numbers \/ i = n + 1
    BY <1>4, <1>5
  <1>8. \A r \in Recipients : AttemptsOf(r)' = IF r \in S THEN AttemptsOf(r) \cup {n + 1} ELSE AttemptsOf(r)
    BY <1>2, <1>4, <1>6, <1>7, Zenon DEF AttemptsOf
  <1>9. \A r \in S : status[r] = "QUEUED"
    BY Zenon, <1>3 DEF Claimable
  <1>10. \/ n = 0 \/ p = route
         \/ SafeFailover /\ p \notin Visited
    BY Zenon, <1>1, <1>3 DEF EligibleProvider, RouteInv, RouteIsLast
  <1>11. TypeOK'
    <2>1. status' \in [Recipients -> Statuses]
      BY Zenon, <1>3 DEF RouteInv, TypeOK, Statuses
    <2>. QED
      BY Zenon, <1>3, <1>4, <2>1 DEF RouteInv, TypeOK, Statuses
  <1>12. LastAttempt'
    <2>1. \A i \in Numbers : attempts[i].result # "IN_PROGRESS"
      BY Zenon, <1>3 DEF Sending
    <2>2. \A i \in Numbers' : attempts'[i].result = "IN_PROGRESS" => i = n + 1
      BY Zenon, <1>6, <1>7, <2>1
    <2>3. \A r \in Recipients : status[r] # "SENDING" /\ status[r] # "UNKNOWN"
      <3>1. \A r \in Recipients : status[r] # "SENDING"
        BY Zenon, <2>1 DEF RouteInv, LastAttempt
      <3>. QED
        BY Zenon, <1>3, <3>1 DEF Unresolved
    <2>4. \A r \in Recipients : status'[r] # "UNKNOWN" /\ (status'[r] = "SENDING" <=> r \in S)
      BY Zenon, <1>3, <2>3
    <2>. QED
      BY Zenon, <1>2, <1>4, <1>7, <2>2, <2>4 DEF LastAttempt
  <1>13. RouteIsLast'
    BY <1>2, <1>3, <1>4, UpstreamAssumption DEF RouteIsLast
  <1>14. LeftBehind'
    <2> SUFFICES ASSUME NEW r \in Recipients, status'[r] # "DONE", NEW i \in Numbers', LastIn(r, i)'
                 PROVE  attempts'[i].provider = p \/ attempts'[i].decision[r] = "FAILOVER"
      BY <1>3, Zenon DEF LeftBehind
    <2>1. CASE i = n + 1
      BY Zenon, <1>2, <1>4, <2>1
    <2>2. CASE i # n + 1
      <3>1. i \in Numbers /\ attempts'[i] = attempts[i]
        BY Zenon, <1>6, <1>7, <2>2
      <3>2. r \notin S
        <4>1. SUFFICES ASSUME r \in S PROVE FALSE
          BY Zenon
        <4>2. n + 1 <= i
          BY Zenon, <1>8, <4>1 DEF LastIn
        <4>. QED
          BY <1>4, <1>6, <3>1, <4>2
      <3>3. LastIn(r, i) /\ status[r] # "DONE"
        BY Zenon, <1>3, <1>8, <3>2 DEF LastIn
      <3>4. attempts[i].provider = route \/ attempts[i].decision[r] = "FAILOVER"
        BY Zenon, <3>1, <3>3 DEF RouteInv, LeftBehind
      <3>5. n # 0
        BY <1>4, <1>5, <3>1
      <3>. QED
        BY Zenon, <1>10, <3>1, <3>3, <3>4, <3>5, MoveAllowed
    <2>. QED
      BY Zenon, <2>1, <2>2
  <1>15. MovesOnlyWhenAllowed'
    <2> SUFFICES ASSUME NEW r \in Recipients, NEW i \in AttemptsOf(r)', NEW j \in AttemptsOf(r)',
                        i < j, \A k \in AttemptsOf(r)' : k <= i \/ k >= j,
                        attempts'[i].provider # attempts'[j].provider
                 PROVE  attempts'[i].decision[r] = "FAILOVER"
      BY Zenon DEF MovesOnlyWhenAllowed
    <2>1. AttemptsOf(r) \subseteq Numbers /\ AttemptsOf(r) \subseteq AttemptsOf(r)'
      BY Zenon, <1>8 DEF AttemptsOf
    <2>2. i \in AttemptsOf(r) /\ i \in Numbers /\ i <= n
      <3>1. i \in Numbers' /\ j \in Numbers' /\ (i \in AttemptsOf(r) \/ i = n + 1)
        BY Zenon, <1>8 DEF AttemptsOf
      <3>2. i # n + 1
        BY <1>4, <1>5, <3>1
      <3>. QED
        BY Zenon, <1>6, <2>1, <3>1, <3>2
    <2>3. CASE j \in AttemptsOf(r)
      <3>1. attempts[i].decision[r] = "FAILOVER"
        BY Zenon, <1>6, <2>1, <2>2, <2>3 DEF RouteInv, MovesOnlyWhenAllowed
      <3>. QED
        BY Zenon, <1>6, <2>2, <3>1
    <2>4. CASE j \notin AttemptsOf(r)
      <3>1. j = n + 1 /\ r \in S
        BY Zenon, <1>8, <2>4
      <3>2. LastIn(r, i)
        BY <1>4, <1>6, <2>1, <2>2, <3>1 DEF LastIn
      <3>3. status[r] # "DONE" /\ attempts[i].provider # p
        BY Zenon, <1>2, <1>4, <1>6, <1>9, <2>2, <3>1
      <3>4. attempts[i].provider = route \/ attempts[i].decision[r] = "FAILOVER"
        BY Zenon, <2>2, <3>2, <3>3 DEF RouteInv, LeftBehind
      <3>5. n # 0
        BY <1>4, <1>5, <2>2
      <3>6. attempts[i].decision[r] = "FAILOVER"
        BY Zenon, <1>10, <2>2, <3>2, <3>3, <3>4, <3>5, MoveAllowed
      <3>. QED
        BY Zenon, <1>6, <2>2, <3>6
    <2>. QED
      BY Zenon, <2>3, <2>4
  <1>16. RouteGoesForward'
    <2>1. Visited' = Visited \cup {p}
      BY <1>2, <1>4, <1>6, <1>7, Zenon DEF Visited
    <2>2. IsFiniteSet(Visited) /\ Cardinality(Visited) \in Nat
      <3> DEFINE f == [i \in Numbers |-> attempts[i].provider]
      <3>1. f \in Surjection(Numbers, Visited)
        BY Zenon DEF Surjection, Visited
      <3>2. IsFiniteSet(Numbers)
        BY <1>4, <1>5, FS_Interval
      <3>. QED
        BY Zenon, <3>1, <3>2, FS_Surjection, FS_CardinalityType
    <2>3. n = 0 => Visited = {}
      BY <1>5 DEF Visited
    <2>4. n # 0 => route = attempts[n].provider /\ n \in Numbers
      BY <1>1, <1>4, <1>5 DEF RouteInv, RouteIsLast
    <2>5. n # 0 => route \in Visited
      BY Zenon, <2>4 DEF Visited
    <2>6. Cardinality(Visited') <= MaxProviders
      <3>1. Cardinality(Visited \cup {p}) = IF p \in Visited THEN Cardinality(Visited) ELSE Cardinality(Visited) + 1
        BY Zenon, <2>2, FS_AddElement
      <3>2. Cardinality({}) = 0
        BY Zenon, FS_EmptySet
      <3>3. Cardinality(Visited) <= MaxProviders /\ MaxProviders \in Nat /\ MaxProviders >= 1
        BY FailoverAssumption DEF RouteInv, RouteGoesForward
      <3>4. CASE n = 0
        BY <2>1, <2>3, <3>1, <3>2, <3>3, <3>4
      <3>5. CASE n # 0 /\ p = route
        BY Zenon, <2>1, <2>5, <3>1, <3>3, <3>5
      <3>6. CASE SafeFailover /\ p \notin Visited
        BY <2>1, <2>2, <3>1, <3>3, <3>6 DEF SafeFailover
      <3>. QED
        BY Zenon, <1>10, <3>4, <3>5, <3>6
    <2>7. ASSUME NEW i \in Numbers', NEW j \in Numbers', NEW k \in Numbers', i < j, j < k,
                 attempts'[i].provider = attempts'[k].provider
          PROVE  attempts'[j].provider = attempts'[i].provider
      <3>1. i \in Numbers /\ j \in Numbers
        BY <1>4, <1>5, <2>7
      <3>2. CASE k \in Numbers
        BY <1>6, <2>7, <3>1, <3>2 DEF RouteInv, RouteGoesForward
      <3>3. CASE k = n + 1
        <4>1. attempts[i].provider = p /\ n # 0
          BY <1>2, <1>4, <1>5, <1>6, <2>7, <3>1, <3>3
        <4>2. p \in Visited
          BY Zenon, <3>1, <4>1 DEF Visited
        <4>3. p = attempts[n].provider /\ n \in Numbers
          BY Zenon, <1>10, <2>4, <4>1, <4>2
        <4>4. j = n \/ j < n
          BY <1>4, <1>5, <3>1
        <4>5. attempts[j].provider = attempts[i].provider
          BY Zenon, <2>7, <3>1, <4>1, <4>3, <4>4 DEF RouteInv, RouteGoesForward
        <4>. QED
          BY Zenon, <1>6, <3>1, <4>5
      <3>. QED
        BY Zenon, <1>7, <3>2, <3>3
    <2>. QED
      BY Zenon, <2>6, <2>7 DEF RouteGoesForward
  <1>. QED
    BY Zenon, <1>11, <1>12, <1>13, <1>14, <1>15, <1>16 DEF RouteInv

\* The first state, and every step.
LEMMA RouteStart == Init => RouteInv
  <1> SUFFICES ASSUME Init PROVE RouteInv
    BY Zenon
  <1>1. attempts = << >> /\ Len(attempts) = 0 /\ Numbers = {} /\ \A r : AttemptsOf(r) = {}
    BY DEF Init, Numbers, AttemptsOf
  <1>2. TypeOK
    BY DEF Init, TypeOK
  <1>3. LastAttempt /\ RouteIsLast /\ LeftBehind /\ MovesOnlyWhenAllowed
    BY Zenon, <1>1 DEF Init, LastAttempt, RouteIsLast, LeftBehind, MovesOnlyWhenAllowed, Sending
  <1>4. RouteGoesForward
    <2>1. Visited = {}
      BY Zenon, <1>1 DEF Visited
    <2>. QED
      BY <1>1, <2>1, FS_EmptySet, FailoverAssumption DEF RouteGoesForward
  <1>. QED
    BY Zenon, <1>2, <1>3, <1>4 DEF RouteInv

\* Every step keeps the invariant.
LEMMA RouteStep == RouteInv /\ [Next]_vars => RouteInv'
  <1> SUFFICES ASSUME RouteInv, [Next]_vars PROVE RouteInv'
    BY Zenon
  <1>1. CASE UNCHANGED vars
    <2>1. TypeOK'
      BY <1>1, Zenon DEF RouteInv, TypeOK, vars
    <2>. QED
      BY Zenon, <1>1, <2>1, BetweenKeepsRoute DEF vars
  <1>2. ASSUME NEW r \in Aging, WindowCloses(r) PROVE RouteInv'
    <2>1. r \in Recipients
      BY Zenon, FailoverAssumption
    <2>. QED
      BY Zenon, <1>2, <2>1, WaitKeepsRoute
  <1>. QED
    BY <1>1, <1>2, ClaimKeepsRoute, SuppressKeepsRoute, FinishKeepsRoute, RecoverKeepsRoute, WaitKeepsRoute,
       ResolveKeepsRoute, Zenon DEF Next

\* A recipient changes provider only with the permission to fail over, whatever is
\* claimed in parts, recovered, resolved and retried in between.
THEOREM RecipientsMoveSafely == Spec => []MovesOnlyWhenAllowed
  <1>1. RouteInv => MovesOnlyWhenAllowed
    BY Zenon DEF RouteInv
  <1>. QED
    BY <1>1, RouteStart, RouteStep, PTL DEF Spec

\* A message never comes back to a provider it has left, and uses MaxProviders at most.
THEOREM RouteNeverReturns == Spec => []RouteGoesForward
  <1>1. RouteInv => RouteGoesForward
    BY Zenon DEF RouteInv
  <1>. QED
    BY <1>1, RouteStart, RouteStep, PTL DEF Spec

\* recordFailover never refuses what the selection has let through.
THEOREM SelectionIsEnough == Spec => []SelectionSuffices
  <1>1. RouteInv => SelectionSuffices
    BY Zenon, EvidenceFollows DEF RouteInv
  <1>. QED
    BY <1>1, RouteStart, RouteStep, PTL DEF Spec

(***************************************************************************)
(* The admission of a claim.  A half-open circuit is one that is watched,  *)
(* so that its probe keeps every later claim out.                          *)
(***************************************************************************)
ProbesAreChecked ==
    \A p \in Providers : circuit[p] = "HALF_OPEN" => HealthEnabled /\ p \in HealthChecked

ControlsInv == ControlsTypeOK /\ ProbeIsAlone /\ ProbesAreChecked

\* The same attempts at the same providers.
Kept ==
    /\ reservations' \in Seq(Reservation) /\ Ids' = Ids
    /\ \A a \in Ids : reservations'[a].provider = reservations[a].provider

\* The parts of a reservation.
LEMMA ReservationParts ==
    ASSUME ControlsTypeOK, NEW a \in Ids
    PROVE  /\ reservations[a] \in Reservation
           /\ reservations[a].provider \in Providers /\ reservations[a].units \in 1 .. Quantum
           /\ reservations[a].inProgress \in BOOLEAN /\ reservations[a].leased \in BOOLEAN
           /\ reservations[a].sample \in {"none", "SUCCESS", "FAILURE"}
           /\ reservations[a].age \in {"hour", "day", "older"}
           /\ reservations[a].fresh \in BOOLEAN
           /\ Len(reservations) \in Nat /\ a \in Nat /\ a # 0
  <1>1. reservations \in Seq(Reservation) /\ a \in 1 .. Len(reservations)
    BY Zenon DEF ControlsTypeOK, Ids
  <1>2. reservations[a] \in Reservation /\ Len(reservations) \in Nat /\ a \in Nat /\ a # 0
    BY <1>1
  <1>. QED
    BY Zenon, <1>2 DEF Reservation

\* What the recovery, the end of a lease and the clock write.
LEMMA EditedReservation ==
    ASSUME NEW r \in Reservation
    PROVE  /\ LET x == [r EXCEPT !.inProgress = FALSE]
              IN x \in Reservation /\ x.provider = r.provider /\ ~x.inProgress
           /\ LET x == [r EXCEPT !.leased = FALSE]
              IN x \in Reservation /\ x.provider = r.provider /\ x.inProgress = r.inProgress
           /\ LET x == [r EXCEPT !.sample = "none"]
              IN x \in Reservation /\ x.provider = r.provider /\ x.inProgress = r.inProgress
           /\ \A g \in {"day", "older"} :
                LET x == [r EXCEPT !.age = g]
                IN x \in Reservation /\ x.provider = r.provider /\ x.inProgress = r.inProgress
  BY Zenon DEF Reservation

\* One reservation is rewritten.
LEMMA EditKeeps ==
    ASSUME ControlsTypeOK, NEW a \in Ids, NEW x \in Reservation,
           x.provider = reservations[a].provider,
           reservations' = [reservations EXCEPT ![a] = x]
    PROVE  Kept /\ \A b \in Ids : reservations'[b] = IF b = a THEN x ELSE reservations[b]
  <1>1. reservations \in Seq(Reservation) /\ a \in 1 .. Len(reservations)
    BY Zenon DEF ControlsTypeOK, Ids
  <1>2. /\ reservations' \in Seq(Reservation) /\ Len(reservations') = Len(reservations)
        /\ \A b \in 1 .. Len(reservations) : reservations'[b] = IF b = a THEN x ELSE reservations[b]
    BY <1>1, ReplaceFacts
  <1>. QED
    BY Zenon, <1>2 DEF Kept, Ids

\* The attempts of a provider stay the same.
LEMMA KeptOf == Kept => \A p : Of(p)' = Of(p)
  BY Zenon DEF Kept, Of

\* Nothing happens to a probe as long as its attempt goes on.
LEMMA KeptProbes ==
    ASSUME ControlsInv, Kept, ControlsTypeOK', UNCHANGED <<circuit, probe>>,
           \A a \in Ids : reservations'[a].inProgress = reservations[a].inProgress
    PROVE  ControlsInv'
  <1>1. \A p \in Providers : Of(p)' = Of(p)
    BY Zenon, KeptOf
  <1>2. \A p : Of(p) \subseteq Ids
    BY Zenon DEF Of
  <1>3. ProbeIsAlone'
    <2> SUFFICES ASSUME NEW p \in Providers PROVE
             /\ probe[p] # 0 <=> circuit[p] = "HALF_OPEN"
             /\ circuit[p] = "HALF_OPEN" =>
                 /\ probe[p] \in Of(p)'
                 /\ reservations'[probe[p]].inProgress
                 /\ \A a \in Of(p)' : a <= probe[p]
      BY Zenon DEF ProbeIsAlone
    <2>. QED
      BY Zenon, <1>1, <1>2 DEF ControlsInv, ProbeIsAlone
  <1>4. ProbesAreChecked'
    BY Zenon DEF ControlsInv, ProbesAreChecked
  <1>. QED
    BY Zenon, <1>3, <1>4 DEF ControlsInv

\* The steps of ProbeDecides and ReservationFits.
ProbeStep ==
    \A p \in Providers :
        circuit[p] = "HALF_OPEN" /\ circuit'[p] # "HALF_OPEN" =>
            reservations[probe[p]].inProgress /\ ~reservations'[probe[p]].inProgress

Fitted ==
    \A p \in Providers :
        Of(p)' # Of(p) =>
            /\ Active(p)' <= settings[p].connections
            /\ \A l \in Layers(p) :
                /\ l.hourly = 0 \/ Used(l.members, {"hour"})' <= l.hourly
                /\ l.daily = 0 \/ Used(l.members, {"hour", "day"})' <= l.daily

\* A step that leaves the reservations alone.
LEMMA SameKeeps ==
    ASSUME ControlsInv, UNCHANGED <<reservations, circuit, probe>>, ControlsTypeOK'
    PROVE  ControlsInv' /\ Kept /\ ProbeStep
  <1>1. Kept
    BY Zenon DEF ControlsInv, ControlsTypeOK, Kept, Ids
  <1>2. ProbeStep
    BY Zenon DEF ProbeStep
  <1>. QED
    BY Zenon, <1>1, <1>2, KeptProbes

\* The selection and the rollback of a claim, the administration and the cooldown.
LEMMA SelectKeeps ==
    ASSUME ControlsInv, NEW w \in Workers,
           (\E p \in Providers : Select(w, p)) \/ Rollback(w)
    PROVE  ControlsInv' /\ Kept /\ ProbeStep
  <1>1. UNCHANGED <<reservations, circuit, cooled, probe, settings, group, members, changes>>
    BY Zenon DEF Select, Rollback
  <1>2. chosen' \in [Workers -> [provider : Providers \cup {NoProvider}, fresh : BOOLEAN]]
    <2>1. PICK x \in [provider : Providers \cup {NoProvider}, fresh : BOOLEAN] :
            chosen' = [chosen EXCEPT ![w] = x]
      <3>1. /\ NothingChosen \in [provider : Providers \cup {NoProvider}, fresh : BOOLEAN]
            /\ \A p \in Providers : [provider |-> p, fresh |-> TRUE] \in [provider : Providers \cup {NoProvider}, fresh : BOOLEAN]
        BY Zenon DEF NothingChosen
      <3>. QED
        BY <3>1, Zenon DEF Select, Rollback
    <2>. QED
      BY Zenon, <2>1 DEF ControlsInv, ControlsTypeOK
  <1>3. ControlsTypeOK'
    BY <1>1, <1>2, Zenon DEF ControlsInv, ControlsTypeOK
  <1>. QED
    BY Zenon, <1>1, <1>3, SameKeeps

\* The administrators' changes and the end of a cooldown touch no attempt and no probe.
LEMMA ConfigureKeeps ==
    ASSUME ControlsInv,
           \/ \E p \in Providers, s \in Settings : Configure(p, s)
           \/ \E s \in GroupSettings : ConfigureGroup(s)
           \/ \E p \in Providers : AttachQuotaGroup(p) \/ CooldownEnds(p)
    PROVE  ControlsInv' /\ Kept /\ ProbeStep
  <1>1. UNCHANGED <<reservations, circuit, probe, chosen>>
    BY Zenon DEF Configure, ConfigureGroup, AttachQuotaGroup, CooldownEnds
  <1>2. /\ settings' \in [Providers -> Settings] /\ group' \in GroupSettings
        /\ members' \subseteq Providers /\ changes' \in Nat
        /\ cooled' \in [Providers -> BOOLEAN]
    <2>1. ControlsTypeOK
      BY Zenon DEF ControlsInv
    <2>2. CASE \E p \in Providers, s \in Settings : Configure(p, s)
      BY <2>1, <2>2 DEF Configure, ControlsTypeOK
    <2>3. CASE \E s \in GroupSettings : ConfigureGroup(s)
      BY <2>1, <2>3 DEF ConfigureGroup, ControlsTypeOK
    <2>4. CASE \E p \in Providers : AttachQuotaGroup(p)
      BY <2>1, <2>4 DEF AttachQuotaGroup, ControlsTypeOK
    <2>5. CASE \E p \in Providers : CooldownEnds(p)
      BY Zenon, <2>1, <2>5 DEF CooldownEnds, ControlsTypeOK
    <2>. QED
      BY Zenon, <2>2, <2>3, <2>4, <2>5
  <1>3. ControlsTypeOK'
    BY <1>1, <1>2, Zenon DEF ControlsInv, ControlsTypeOK
  <1>. QED
    BY Zenon, <1>1, <1>3, SameKeeps

\* The end of a lease, and what leaves a window.
LEMMA AgeKeeps ==
    ASSUME ControlsInv, NEW a \in Ids, LeaseExpires(a) \/ ReservationAges(a) \/ SampleAges(a)
    PROVE  ControlsInv' /\ Kept /\ ProbeStep
  <1>1. UNCHANGED <<circuit, cooled, probe, settings, group, members, chosen, changes>>
    BY Zenon DEF LeaseExpires, ReservationAges, SampleAges
  <1>2. reservations[a] \in Reservation /\ ControlsTypeOK
    BY Zenon, ReservationParts DEF ControlsInv
  <1>3. PICK x \in Reservation :
          /\ x.provider = reservations[a].provider /\ x.inProgress = reservations[a].inProgress
          /\ reservations' = [reservations EXCEPT ![a] = x]
    <2>1. CASE LeaseExpires(a)
      <3> DEFINE x == [reservations[a] EXCEPT !.leased = FALSE]
      <3>1. x \in Reservation /\ x.provider = reservations[a].provider
            /\ x.inProgress = reservations[a].inProgress
        BY <1>2, EditedReservation, Zenon
      <3>2. reservations' = [reservations EXCEPT ![a] = x]
        BY <2>1, Zenon DEF LeaseExpires
      <3>. QED
        BY <3>1, <3>2, Zenon
    <2>2. CASE SampleAges(a)
      <3> DEFINE x == [reservations[a] EXCEPT !.sample = "none"]
      <3>1. x \in Reservation /\ x.provider = reservations[a].provider
            /\ x.inProgress = reservations[a].inProgress
        BY <1>2, EditedReservation, Zenon
      <3>2. reservations' = [reservations EXCEPT ![a] = x]
        BY <2>2, Zenon DEF SampleAges
      <3>. QED
        BY <3>1, <3>2, Zenon
    <2>3. CASE ReservationAges(a)
      <3> DEFINE g == IF reservations[a].age = "hour" THEN "day" ELSE "older"
                 x == [reservations[a] EXCEPT !.age = g]
      <3>1. g \in {"day", "older"}
        BY Zenon
      <3>2. x \in Reservation /\ x.provider = reservations[a].provider
            /\ x.inProgress = reservations[a].inProgress
        <4>. HIDE DEF g
        <4>. QED
          BY <1>2, <3>1, EditedReservation, Zenon
      <3>3. reservations' = [reservations EXCEPT ![a] = x]
        BY <2>3, Zenon DEF ReservationAges
      <3>. QED
        BY <3>2, <3>3, Zenon
    <2>. QED
      BY Zenon, <2>1, <2>2, <2>3
  <1>4. Kept /\ \A b \in Ids : reservations'[b] = IF b = a THEN x ELSE reservations[b]
    BY Zenon, <1>2, <1>3, EditKeeps
  <1>5. \A b \in Ids : reservations'[b].inProgress = reservations[b].inProgress
    BY Zenon, <1>3, <1>4
  <1>6. ControlsTypeOK'
    BY <1>1, <1>2, <1>4, Zenon DEF ControlsTypeOK, Kept
  <1>7. ProbeStep
    BY Zenon, <1>1 DEF ProbeStep
  <1>. QED
    BY Zenon, <1>1, <1>4, <1>5, <1>6, <1>7, KeptProbes

\* An attempt ends and takes its own probe with it; the probes of others stay.
LEMMA EndKeepsProbes ==
    ASSUME ControlsInv, Kept, ControlsTypeOK', NEW a \in Ids,
           reservations[a].inProgress, ~reservations'[a].inProgress,
           \A b \in Ids : b # a => reservations'[b].inProgress = reservations[b].inProgress,
           \A q \in Providers :
               \/ circuit'[q] = circuit[q] /\ probe'[q] = probe[q]
                  /\ (circuit[q] = "HALF_OPEN" => probe[q] # a)
               \/ circuit'[q] # "HALF_OPEN" /\ probe'[q] = 0
                  /\ (circuit[q] = "HALF_OPEN" => probe[q] = a)
    PROVE  ControlsInv' /\ ProbeStep
  <1>1. \A p \in Providers : Of(p)' = Of(p)
    BY Zenon, KeptOf
  <1>2. \A p : Of(p) \subseteq Ids
    BY Zenon DEF Of
  <1>3. ProbeIsAlone'
    <2> SUFFICES ASSUME NEW p \in Providers PROVE
             /\ probe'[p] # 0 <=> circuit'[p] = "HALF_OPEN"
             /\ circuit'[p] = "HALF_OPEN" =>
                 /\ probe'[p] \in Of(p)'
                 /\ reservations'[probe'[p]].inProgress
                 /\ \A b \in Of(p)' : b <= probe'[p]
      BY Zenon DEF ProbeIsAlone
    <2>. QED
      BY <1>1, <1>2 DEF ControlsInv, ProbeIsAlone
  <1>4. ProbesAreChecked'
    BY Zenon DEF ControlsInv, ProbesAreChecked
  <1>5. ProbeStep
    BY Zenon DEF ProbeStep
  <1>. QED
    BY Zenon, <1>3, <1>4, <1>5 DEF ControlsInv

\* RecoverAttempt.
LEMMA RecoverKeepsProbes ==
    ASSUME ControlsInv, NEW a \in Ids, RecoverAttempt(a)
    PROVE  ControlsInv' /\ Kept /\ ProbeStep
  <1>1. reservations[a] \in Reservation /\ ControlsTypeOK /\ reservations[a].inProgress /\ a # 0
    BY Zenon, ReservationParts DEF ControlsInv, RecoverAttempt
  <1>2. PICK x \in Reservation :
          /\ x.provider = reservations[a].provider /\ ~x.inProgress
          /\ reservations' = [reservations EXCEPT ![a] = x]
    <2> DEFINE x == [reservations[a] EXCEPT !.inProgress = FALSE]
    <2>1. x \in Reservation /\ x.provider = reservations[a].provider /\ ~x.inProgress
      BY <1>1, EditedReservation, Zenon
    <2>2. reservations' = [reservations EXCEPT ![a] = x]
      BY Zenon DEF RecoverAttempt
    <2>. QED
      BY <2>1, <2>2, Zenon
  <1>3. Kept /\ \A b \in Ids : reservations'[b] = IF b = a THEN x ELSE reservations[b]
    BY Zenon, <1>1, <1>2, EditKeeps
  <1>4. UNCHANGED <<settings, group, members, chosen, changes>> /\ RecoverProbe(a)
    BY Zenon DEF RecoverAttempt
  <1>5. /\ circuit' \in [Providers -> {"CLOSED", "OPEN", "HALF_OPEN"}]
        /\ probe' \in [Providers -> Nat] /\ cooled' \in [Providers -> BOOLEAN]
    BY Zenon, <1>1, <1>4 DEF RecoverProbe, ControlsTypeOK
  <1>6. ControlsTypeOK'
    BY <1>1, <1>3, <1>4, <1>5, Zenon DEF ControlsTypeOK, Kept
  <1>7. ~reservations'[a].inProgress
        /\ \A b \in Ids : b # a => reservations'[b].inProgress = reservations[b].inProgress
    BY Zenon, <1>2, <1>3
  <1>8. \A q \in Providers :
               \/ circuit'[q] = circuit[q] /\ probe'[q] = probe[q] /\ probe[q] # a
               \/ circuit'[q] # "HALF_OPEN" /\ probe'[q] = 0 /\ probe[q] = a
    BY Zenon, <1>4 DEF RecoverProbe
  <1>. QED
    BY <1>1, <1>3, <1>6, <1>7, <1>8, EndKeepsProbes

\* A function on 1 .. n is a sequence of length n.
LEMMA SequenceOf ==
    ASSUME NEW T, NEW n \in Nat, NEW f \in [1 .. n -> T]
    PROVE  f \in Seq(T) /\ Len(f) = n
  OBVIOUS

\* The decision about the circuit: it moves out of the half-open state with its probe
\* only, and never into it.
LEMMA CircuitMoves ==
    ASSUME ControlsTypeOK, NEW p \in Providers, NEW a, NEW s
    PROVE  /\ NextCircuit(p, a, s) \in {"CLOSED", "OPEN", "HALF_OPEN"}
           /\ NextCircuit(p, a, s) # circuit[p] =>
                /\ NextCircuit(p, a, s) # "HALF_OPEN"
                /\ circuit[p] = "HALF_OPEN" => probe[p] = a
           /\ NextCircuit(p, a, s) = circuit[p] => (circuit[p] = "HALF_OPEN" => probe[p] # a)
  BY Zenon DEF ControlsTypeOK, NextCircuit

\* FinishHealth.
LEMMA FinishKeepsProbes ==
    ASSUME ControlsInv, NEW a \in Ids, NEW s \in Outcomes, FinishHealth(a, s)
    PROVE  ControlsInv' /\ Kept /\ ProbeStep
  <1> DEFINE p == reservations[a].provider
             next == NextCircuit(p, a, s)
             moved == next # circuit[p]
             closes == moved /\ next = "CLOSED"
             x(b) == [reservations[b] EXCEPT
                         !.inProgress = @ /\ b # a,
                         !.leased = @ /\ b # a,
                         !.sample = IF b # a THEN @ ELSE IF s = "IGNORED" THEN "none" ELSE s,
                         !.fresh = @ /\ ~(closes /\ reservations[b].provider = p)]
  <1>1. ControlsTypeOK /\ p \in Providers /\ Len(reservations) \in Nat
    BY Zenon, ReservationParts DEF ControlsInv
  <1>2. /\ next \in {"CLOSED", "OPEN", "HALF_OPEN"}
        /\ moved => next # "HALF_OPEN" /\ (circuit[p] = "HALF_OPEN" => probe[p] = a)
        /\ ~moved => (circuit[p] = "HALF_OPEN" => probe[p] # a)
    BY <1>1, CircuitMoves
  <1>3. /\ reservations[a].inProgress
        /\ reservations' = [b \in Ids |-> x(b)]
        /\ circuit' = [circuit EXCEPT ![p] = next]
        /\ probe' = [probe EXCEPT ![p] = IF moved THEN 0 ELSE @]
        /\ cooled' = [cooled EXCEPT ![p] = @ /\ ~moved]
        /\ chosen' = [w \in Workers |->
               IF closes /\ chosen[w].provider = p
               THEN [chosen[w] EXCEPT !.fresh = FALSE] ELSE chosen[w]]
        /\ UNCHANGED <<settings, group, members, changes>>
    BY Zenon DEF FinishHealth
  <1>4. ASSUME NEW b \in Ids
        PROVE  /\ x(b) \in Reservation /\ x(b).provider = reservations[b].provider
               /\ x(b).inProgress = (reservations[b].inProgress /\ b # a)
    <2>1. PICK i \in BOOLEAN : i = (reservations[b].inProgress /\ b # a)
      BY Zenon
    <2>2. PICK l \in BOOLEAN : l = (reservations[b].leased /\ b # a)
      BY Zenon
    <2>3. PICK g \in {"none", "SUCCESS", "FAILURE"} :
            g = IF b # a THEN reservations[b].sample ELSE IF s = "IGNORED" THEN "none" ELSE s
      <3>1. reservations[b].sample \in {"none", "SUCCESS", "FAILURE"}
        BY Zenon, <1>1, ReservationParts
      <3>. QED
        BY Zenon, <3>1, ControlsAssumption
    <2>4. PICK f \in BOOLEAN :
            f = (reservations[b].fresh /\ ~(closes /\ reservations[b].provider = p))
      BY Zenon
    <2>5. x(b) = [reservations[b] EXCEPT !.inProgress = i, !.leased = l, !.sample = g, !.fresh = f]
      BY <2>1, <2>2, <2>3, <2>4, Zenon
    <2>6. reservations[b] \in Reservation
      BY Zenon, <1>1, ReservationParts
    <2>7. PICK y : y = [reservations[b] EXCEPT !.inProgress = i, !.leased = l, !.sample = g, !.fresh = f]
      BY Zenon
    <2>8. y \in Reservation /\ y.provider = reservations[b].provider /\ y.inProgress = i
      BY <2>6, <2>7, Zenon DEF Reservation
    <2>9. x(b) = y
      BY <2>5, <2>7, Zenon
    <2>. HIDE DEF x
    <2>. QED
      BY <2>1, <2>8, <2>9, Zenon
  <1>. HIDE DEF x, next, moved, closes
  <1>5. reservations' \in [1 .. Len(reservations) -> Reservation]
    BY Zenon, <1>3, <1>4 DEF Ids
  <1>6. reservations' \in Seq(Reservation) /\ Len(reservations') = Len(reservations)
    BY Zenon, <1>1, <1>5, SequenceOf
  <1>7. \A b \in Ids : reservations'[b] = x(b)
    BY Zenon, <1>3
  <1>8. Kept
    BY Zenon, <1>4, <1>6, <1>7 DEF Kept, Ids
  <1>9. /\ ~reservations'[a].inProgress
        /\ \A b \in Ids : b # a => reservations'[b].inProgress = reservations[b].inProgress
    <2>1. \A b \in Ids : reservations[b].inProgress \in BOOLEAN
      BY Zenon, <1>1, ReservationParts
    <2>. QED
      BY Zenon, <1>4, <1>7, <2>1
  <1>10. chosen' \in [Workers -> [provider : Providers \cup {NoProvider}, fresh : BOOLEAN]]
    <2>1. \A w \in Workers : chosen[w] \in [provider : Providers \cup {NoProvider}, fresh : BOOLEAN]
      BY <1>1, Zenon DEF ControlsTypeOK
    <2>2. \A c \in [provider : Providers \cup {NoProvider}, fresh : BOOLEAN] :
            [c EXCEPT !.fresh = FALSE] \in [provider : Providers \cup {NoProvider}, fresh : BOOLEAN]
      BY Zenon
    <2>. QED
      BY <1>3, <2>1, <2>2, Zenon
  <1>11. /\ circuit' \in [Providers -> {"CLOSED", "OPEN", "HALF_OPEN"}]
         /\ probe' \in [Providers -> Nat] /\ cooled' \in [Providers -> BOOLEAN]
    <2>1. circuit' \in [Providers -> {"CLOSED", "OPEN", "HALF_OPEN"}]
      BY Zenon, <1>1, <1>2, <1>3 DEF ControlsTypeOK
    <2>2. probe' \in [Providers -> Nat]
      BY Zenon, <1>1, <1>3 DEF ControlsTypeOK
    <2>3. cooled' \in [Providers -> BOOLEAN]
      BY <1>1, <1>3, Zenon DEF ControlsTypeOK
    <2>. QED
      BY Zenon, <2>1, <2>2, <2>3
  <1>12. ControlsTypeOK'
    BY <1>1, <1>3, <1>8, <1>10, <1>11, Zenon DEF ControlsTypeOK, Kept
  <1>13. ASSUME NEW q \in Providers
         PROVE  \/ circuit'[q] = circuit[q] /\ probe'[q] = probe[q]
                   /\ (circuit[q] = "HALF_OPEN" => probe[q] # a)
                \/ circuit'[q] # "HALF_OPEN" /\ probe'[q] = 0
                   /\ (circuit[q] = "HALF_OPEN" => probe[q] = a)
    <2>1. CASE q = p
      <3>1. circuit'[q] = next /\ probe'[q] = IF moved THEN 0 ELSE probe[q]
        BY Zenon, <1>1, <1>3, <2>1 DEF ControlsTypeOK
      <3>. QED
        BY Zenon, <1>2, <2>1, <3>1 DEF moved
    <2>2. CASE q # p
      <3>1. circuit'[q] = circuit[q] /\ probe'[q] = probe[q]
        BY Zenon, <1>1, <1>3, <2>2 DEF ControlsTypeOK
      <3>2. circuit[q] = "HALF_OPEN" => reservations[probe[q]].provider = q
        BY Zenon DEF ControlsInv, ProbeIsAlone, Of
      <3>. QED
        BY Zenon, <2>2, <3>1, <3>2
    <2>. QED
      BY Zenon, <2>1, <2>2
  <1>. QED
    BY Zenon, <1>3, <1>8, <1>9, <1>12, <1>13, EndKeepsProbes

\* The least of at most four numbers.
LEMMA LeastOfFour ==
    ASSUME NEW a \in Int, NEW b \in Int, NEW c \in Int, NEW d \in Int, NEW S, S = {a, b, c, d}
    PROVE  Min(S) \in S /\ \A y \in S : Min(S) <= y
  <1>1. \E x \in S : \A y \in S : x <= y
    OBVIOUS
  <1>2. Min(S) = CHOOSE x \in S : \A y \in S : x <= y
    BY Zenon DEF Min
  <1>. QED
    BY <1>1, <1>2, Zenon

\* The units reserved, and that they are finitely many.
ReservedUnits(S, ages) ==
    UNION {{a} \X (1 .. reservations[a].units) : a \in Counting(S, ages)}

\* As many pairs as units.
LEMMA UnitsOfOne ==
    ASSUME NEW a, NEW n \in Nat
    PROVE  IsFiniteSet({a} \X (1 .. n)) /\ Cardinality({a} \X (1 .. n)) = n
  <1>1. IsFiniteSet(1 .. n) /\ Cardinality(1 .. n) = n
    BY FS_Interval
  <1>2. IsFiniteSet({a}) /\ Cardinality({a}) = 1
    BY Zenon, FS_Singleton
  <1>3. /\ IsFiniteSet({a} \X (1 .. n))
        /\ Cardinality({a} \X (1 .. n)) = Cardinality({a}) * Cardinality(1 .. n)
    BY <1>1, <1>2, FS_Product, Zenon
  <1>. QED
    BY <1>1, <1>2, <1>3

\* Used counts a finite set.
LEMMA ReservedFinite ==
    ASSUME ControlsTypeOK, NEW S, NEW ages
    PROVE  /\ IsFiniteSet(ReservedUnits(S, ages))
           /\ Used(S, ages) = Cardinality(ReservedUnits(S, ages)) /\ Used(S, ages) \in Nat
  <1> DEFINE C == Counting(S, ages)
             U(a) == {a} \X (1 .. reservations[a].units)
             f == [a \in C |-> U(a)]
             T == {U(a) : a \in C}
  <1>1. Len(reservations) \in Nat
    BY DEF ControlsTypeOK
  <1>2. IsFiniteSet(Ids) /\ C \subseteq Ids
    BY <1>1, FS_Interval DEF Ids, Counting
  <1>3. IsFiniteSet(C)
    BY Zenon, <1>2, FS_Subset
  <1>4. f \in Surjection(C, T)
    BY Zenon DEF Surjection
  <1>5. IsFiniteSet(T)
    BY Zenon, <1>3, <1>4, FS_Surjection
  <1>6. \A a \in C : IsFiniteSet(U(a))
    <2> SUFFICES ASSUME NEW a \in C PROVE IsFiniteSet(U(a))
      BY Zenon
    <2>1. reservations[a].units \in Nat
      BY <1>2, ReservationParts, ControlsAssumption
    <2>. QED
      BY <2>1, UnitsOfOne, Zenon
  <1>7. \A V \in T : IsFiniteSet(V)
    BY <1>6, Zenon
  <1>. HIDE DEF T
  <1>8. IsFiniteSet(UNION T)
    BY Zenon, <1>5, <1>7, FS_UNION
  <1>9. IsFiniteSet(ReservedUnits(S, ages))
    BY Zenon, <1>8 DEF ReservedUnits, T
  <1>. QED
    BY Zenon, <1>9, FS_CardinalityType DEF Used, ReservedUnits

\* The layers of limits that a claim passes, and that the allowance is within each.
LEMMA LayerParts ==
    ASSUME ControlsTypeOK, NEW p \in Providers, NEW l \in Layers(p)
    PROVE  p \in l.members /\ l.hourly \in Nat /\ l.daily \in Nat
  <1>1. settings[p] \in [enabled : BOOLEAN, hourly : Nat, daily : Nat, connections : Nat \ {0}]
        /\ group \in [hourly : Nat, daily : Nat]
    BY Zenon, ControlsAssumption DEF ControlsTypeOK
  <1>. QED
    BY <1>1 DEF Layers

\* The allowance is within what every layer has left.
LEMMA AllowanceBounds ==
    ASSUME ControlsTypeOK, NEW p \in Providers
    PROVE  /\ Allowance(p) \in Int
           /\ \A l \in Layers(p) :
                /\ Allowance(p) <= Left(l.hourly, Used(l.members, {"hour"}))
                /\ Allowance(p) <= Left(l.daily, Used(l.members, {"hour", "day"}))
  <1> DEFINE H(l) == Left(l.hourly, Used(l.members, {"hour"}))
             D(l) == Left(l.daily, Used(l.members, {"hour", "day"}))
             S == UNION {{H(l), D(l)} : l \in Layers(p)}
  <1>1. \A l \in Layers(p) : H(l) \in Int /\ D(l) \in Int
    <2> SUFFICES ASSUME NEW l \in Layers(p) PROVE H(l) \in Int /\ D(l) \in Int
      OBVIOUS
    <2>1. Used(l.members, {"hour"}) \in Nat /\ Used(l.members, {"hour", "day"}) \in Nat
      BY ReservedFinite, Zenon
    <2>2. l.hourly \in Nat /\ l.daily \in Nat
      BY LayerParts
    <2>. QED
      BY <2>1, <2>2 DEF Left, NoLimit
  <1>2. \E l, m \in Layers(p) : Layers(p) = {l, m}
    <2> DEFINE own == [members |-> {p}, hourly |-> settings[p].hourly, daily |-> settings[p].daily]
               shared == [members |-> members, hourly |-> group.hourly, daily |-> group.daily]
    <2>1. CASE p \in members
      <3>1. Layers(p) = {own} \cup {shared}
        BY <2>1, Zenon DEF Layers
      <3>. HIDE DEF own, shared
      <3>. QED
        BY <3>1
    <2>2. CASE p \notin members
      <3>1. Layers(p) = {own} \cup {}
        BY <2>2, Zenon DEF Layers
      <3>. HIDE DEF own, shared
      <3>. QED
        BY <3>1
    <2>. QED
      BY <2>1, <2>2
  <1>3. PICK l \in Layers(p), m \in Layers(p) : Layers(p) = {l, m}
    BY <1>2
  <1>4. S = {H(l), D(l), H(m), D(m)}
    <2>. HIDE DEF H, D
    <2>. QED
      BY <1>3
  <1>5. PICK a \in Int, b \in Int, c \in Int, d \in Int :
          a = H(l) /\ b = D(l) /\ c = H(m) /\ d = D(m)
    BY <1>1, <1>3
  <1>6. S = {a, b, c, d} /\ Allowance(p) = Min(S)
    BY <1>4, <1>5, Zenon DEF Allowance
  <1>7. Min(S) \in {a, b, c, d} /\ \A y \in {a, b, c, d} : Min(S) <= y
    <2>1. PICK T : T = {a, b, c, d}
      BY Zenon
    <2>2. Min(T) \in T /\ \A y \in T : Min(T) <= y
      BY <1>5, <2>1, LeastOfFour, Zenon
    <2>. QED
      BY <1>6, <2>1, <2>2, Zenon
  <1>8. Allowance(p) \in Int /\ \A y \in {a, b, c, d} : Allowance(p) <= y
    BY <1>6, <1>7
  <1>. HIDE DEF H, D, S
  <1>9. \A k \in Layers(p) : Allowance(p) <= H(k) /\ Allowance(p) <= D(k)
    BY <1>3, <1>5, <1>8, Zenon
  <1>. QED
    BY Zenon, <1>8, <1>9 DEF H, D

\* How many recipients a claim takes.
LEMMA UnitsBounds ==
    ASSUME ControlsTypeOK, NEW p \in Providers, NEW n \in 1 .. MaxRecipients, Allowance(p) > 0
    PROVE  ClaimUnits(p, n) \in 1 .. Quantum /\ ClaimUnits(p, n) <= Allowance(p)
  <1>1. PICK a \in Int, b \in Int, c \in Int : a = Allowance(p) /\ b = Quantum /\ c = n
    BY AllowanceBounds, ControlsAssumption
  <1>2. ClaimUnits(p, n) = Min({a, b, c, c})
    <2>1. {a, b, c} = {a, b, c, c}
      OBVIOUS
    <2>. QED
      BY <1>1, <2>1, Zenon DEF ClaimUnits
  <1>3. /\ ClaimUnits(p, n) \in {a, b, c, c}
        /\ \A y \in {a, b, c, c} : ClaimUnits(p, n) <= y
    <2>1. PICK T : T = {a, b, c, c}
      BY Zenon
    <2>2. Min(T) \in T /\ \A y \in T : Min(T) <= y
      BY <1>1, <2>1, LeastOfFour, Zenon
    <2>. QED
      BY <1>2, <2>1, <2>2, Zenon
  <1>4. a > 0 /\ b > 0 /\ c > 0
    BY <1>1, ControlsAssumption
  <1>. QED
    BY <1>1, <1>3, <1>4

\* The reservation of a claim adds its units to every window it falls in.
LEMMA ReservationAdds ==
    ASSUME ControlsTypeOK, NEW x \in Reservation, reservations' = Append(reservations, x),
           x.age = "hour", NEW S, x.provider \in S, NEW ages, "hour" \in ages
    PROVE  Used(S, ages)' = Used(S, ages) + x.units
  <1>1. PICK n \in Nat : n = Len(reservations)
    BY DEF ControlsTypeOK
  <1>2. /\ Len(reservations') = n + 1 /\ reservations'[n + 1] = x
        /\ \A a \in 1 .. n : reservations'[a] = reservations[a]
    BY <1>1, AppendFacts DEF ControlsTypeOK
  <1>3. Ids = 1 .. n /\ Ids' = 1 .. n + 1
    BY <1>1, <1>2 DEF Ids
  <1>4. /\ \A a \in Ids : a \in Ids' /\ reservations'[a] = reservations[a]
        /\ n + 1 \in Ids' /\ n + 1 \notin Ids /\ \A a \in Ids' : a \in Ids \/ a = n + 1
    BY <1>2, <1>3
  <1>5. Counting(S, ages)' = Counting(S, ages) \cup {n + 1}
    BY <1>2, <1>4, Zenon DEF Counting
  <1>6. \A a \in Counting(S, ages) : a \in Ids
    BY DEF Counting
  <1>7. ReservedUnits(S, ages)' = ReservedUnits(S, ages) \cup ({n + 1} \X (1 .. x.units))
    <2>1. ReservedUnits(S, ages)'
            = UNION {{a} \X (1 .. reservations'[a].units) : a \in Counting(S, ages) \cup {n + 1}}
      BY <1>5, Zenon DEF ReservedUnits
    <2>2. \A a \in Counting(S, ages) : reservations'[a].units = reservations[a].units
      BY <1>4, <1>6, Zenon
    <2>3. reservations'[n + 1].units = x.units
      BY <1>2
    <2>. QED
      <3>1. \A a \in Counting(S, ages) :
              {a} \X (1 .. reservations'[a].units) = {a} \X (1 .. reservations[a].units)
        BY <2>2, Zenon
      <3>2. {{a} \X (1 .. reservations'[a].units) : a \in Counting(S, ages) \cup {n + 1}}
              = {{a} \X (1 .. reservations[a].units) : a \in Counting(S, ages)}
                  \cup {{n + 1} \X (1 .. x.units)}
        <4>1. PICK C, k : C = Counting(S, ages) /\ k = n + 1
          OBVIOUS
        <4>2. {{a} \X (1 .. reservations'[a].units) : a \in C \cup {k}}
                = {{a} \X (1 .. reservations'[a].units) : a \in C}
                    \cup {{k} \X (1 .. reservations'[k].units)}
          BY Zenon
        <4>3. {{a} \X (1 .. reservations'[a].units) : a \in C}
                = {{a} \X (1 .. reservations[a].units) : a \in C}
          BY <3>1, <4>1, Zenon
        <4>. QED
          BY <2>3, <4>1, <4>2, <4>3, Zenon
      <3>3. \A A, B : UNION (A \cup {B}) = (UNION A) \cup B
        BY Zenon
      <3>4. PICK A, B : /\ A = {{a} \X (1 .. reservations[a].units) : a \in Counting(S, ages)}
                        /\ B = {n + 1} \X (1 .. x.units)
        BY Zenon
      <3>5. UNION A = ReservedUnits(S, ages)
        BY <3>4, Zenon DEF ReservedUnits
      <3>6. ReservedUnits(S, ages)' = UNION (A \cup {B})
        BY <2>1, <3>2, <3>4, Zenon
      <3>. QED
        BY <3>3, <3>4, <3>5, <3>6, Zenon
  <1>8. ReservedUnits(S, ages) \cap ({n + 1} \X (1 .. x.units)) = {}
    BY <1>4, <1>6 DEF ReservedUnits
  <1>9. x.units \in Nat
    BY ControlsAssumption DEF Reservation
  <1>10. PICK V, W : V = ReservedUnits(S, ages) /\ W = {n + 1} \X (1 .. x.units)
    BY Zenon
  <1>11. /\ IsFiniteSet(V) /\ Cardinality(V) = Used(S, ages) /\ Used(S, ages) \in Nat
         /\ IsFiniteSet(W) /\ Cardinality(W) = x.units
    BY <1>9, <1>10, ReservedFinite, UnitsOfOne, Zenon
  <1>12. Cardinality(V \cup W) = Cardinality(V) + Cardinality(W) - Cardinality(V \cap W)
    BY <1>11, FS_Union, Zenon
  <1>13. Cardinality(V \cap W) = 0
    BY <1>8, <1>10, FS_EmptySet, Zenon
  <1>14. Used(S, ages)' = Cardinality(V \cup W)
    BY <1>7, <1>10, Zenon DEF Used, ReservedUnits
  <1>. QED
    BY <1>9, <1>11, <1>12, <1>13, <1>14

\* ClaimCommits.
LEMMA ClaimKeepsProbes ==
    ASSUME ControlsInv, NEW w \in Workers, NEW n \in 1 .. MaxRecipients, ClaimCommits(w, n)
    PROVE  ControlsInv' /\ Fitted /\ ProbeStep
  <1>1. PICK p \in Providers, f \in BOOLEAN : chosen[w].provider = p /\ chosen[w].fresh = f
    BY DEF ControlsInv, ControlsTypeOK, ClaimCommits
  <1>2. PICK x : x = Reserved(w, n)
    OBVIOUS
  <1>3. PICK m \in Nat : m = Len(reservations)
    BY DEF ControlsInv, ControlsTypeOK
  <1>4. PICK probing \in BOOLEAN : probing = (HealthEnabled /\ p \in HealthChecked /\ ProbeDue(p))
    BY Zenon
  <1>5. /\ Eligible(p) /\ reservations' = Append(reservations, x)
        /\ circuit' = IF probing THEN [circuit EXCEPT ![p] = "HALF_OPEN"] ELSE circuit
        /\ probe' = IF probing THEN [probe EXCEPT ![p] = m + 1] ELSE probe
        /\ chosen' = [chosen EXCEPT ![w] = NothingChosen]
        /\ UNCHANGED <<cooled, settings, group, members, changes>>
    BY <1>1, <1>2, <1>3, <1>4, Zenon DEF ClaimCommits, Admits
  <1>6. ControlsTypeOK
    BY DEF ControlsInv
  <1>7. ClaimUnits(p, n) \in 1 .. Quantum /\ ClaimUnits(p, n) <= Allowance(p)
    BY <1>5, <1>6, UnitsBounds DEF Eligible
  <1>8. /\ x \in Reservation /\ x.provider = p /\ x.units = ClaimUnits(p, n) /\ x.inProgress
        /\ x.leased /\ x.age = "hour"
    BY <1>1, <1>2, <1>7 DEF Reserved, Reservation
  <1>9. /\ reservations' \in Seq(Reservation) /\ Len(reservations') = m + 1
        /\ \A i \in 1 .. m : reservations'[i] = reservations[i]
        /\ reservations'[m + 1] = x
    BY <1>3, <1>5, <1>6, <1>8, AppendFacts DEF ControlsTypeOK
  <1>10. Ids = 1 .. m /\ Ids' = 1 .. m + 1
    BY <1>3, <1>9 DEF Ids
  <1>11. /\ \A a \in Ids : a \in Ids' /\ reservations'[a] = reservations[a] /\ a <= m + 1
         /\ m + 1 \in Ids' /\ m + 1 \notin Ids /\ \A a \in Ids' : a \in Ids \/ a = m + 1
    BY <1>9, <1>10
  <1>12. \A q : Of(q)' = IF q = p THEN Of(q) \cup {m + 1} ELSE Of(q)
    BY <1>8, <1>9, <1>11, Zenon DEF Of
  <1>13. ControlsTypeOK'
    <2>1. /\ circuit' \in [Providers -> {"CLOSED", "OPEN", "HALF_OPEN"}]
          /\ probe' \in [Providers -> Nat]
      BY <1>5, <1>6 DEF ControlsTypeOK
    <2>2. NothingChosen \in [provider : Providers \cup {NoProvider}, fresh : BOOLEAN]
      BY DEF NothingChosen
    <2>3. chosen' \in [Workers -> [provider : Providers \cup {NoProvider}, fresh : BOOLEAN]]
      BY <1>5, <1>6, <2>2 DEF ControlsTypeOK
    <2>. QED
      BY <1>5, <1>6, <1>9, <2>1, <2>3, Zenon DEF ControlsTypeOK
  <1>14. ~probing => circuit[p] # "HALF_OPEN"
    BY <1>4, <1>5, Zenon DEF Eligible, CircuitAvailable, ControlsInv, ProbesAreChecked
  <1>15. probing => circuit[p] = "OPEN" /\ HealthEnabled /\ p \in HealthChecked
    BY <1>4, Zenon DEF ProbeDue
  <1>16. ASSUME NEW q \in Providers
         PROVE  \/ circuit'[q] = circuit[q] /\ probe'[q] = probe[q]
                   /\ (circuit[q] = "HALF_OPEN" => q # p)
                \/ q = p /\ circuit'[q] = "HALF_OPEN" /\ probe'[q] = m + 1
                   /\ circuit[q] = "OPEN" /\ HealthEnabled /\ q \in HealthChecked
    BY <1>5, <1>6, <1>14, <1>15 DEF ControlsTypeOK
  <1>17. ProbeIsAlone'
    <2> SUFFICES ASSUME NEW q \in Providers PROVE
             /\ probe'[q] # 0 <=> circuit'[q] = "HALF_OPEN"
             /\ circuit'[q] = "HALF_OPEN" =>
                 /\ probe'[q] \in Of(q)'
                 /\ reservations'[probe'[q]].inProgress
                 /\ \A a \in Of(q)' : a <= probe'[q]
      BY Zenon DEF ProbeIsAlone
    <2>1. \A a \in Of(q) : a \in Ids
      BY DEF Of
    <2>2. CASE q = p /\ circuit'[q] = "HALF_OPEN" /\ probe'[q] = m + 1
      BY <1>3, <1>8, <1>9, <1>11, <1>12, <2>1, <2>2
    <2>3. CASE circuit'[q] = circuit[q] /\ probe'[q] = probe[q]
                   /\ (circuit[q] = "HALF_OPEN" => q # p)
      BY <1>11, <1>12, <2>1, <2>3 DEF ControlsInv, ProbeIsAlone
    <2>. QED
      BY <1>16, <2>2, <2>3
  <1>18. ProbesAreChecked'
    BY <1>16 DEF ControlsInv, ProbesAreChecked
  <1>19. ProbeStep
    BY <1>16 DEF ProbeStep
  <1>20. Active(p)' <= settings[p].connections
    <2> DEFINE A == {a \in Of(p) : reservations[a].inProgress /\ reservations[a].leased}
    <2>1. Active(p)' = Cardinality(A \cup {m + 1})
      <3>1. {a \in Of(p)' : reservations'[a].inProgress /\ reservations'[a].leased} = A \cup {m + 1}
        <4>1. Of(p)' = Of(p) \cup {m + 1} /\ reservations'[m + 1].inProgress /\ reservations'[m + 1].leased
          BY <1>8, <1>9, <1>12, Zenon
        <4>2. \A a \in Of(p) : reservations'[a] = reservations[a]
          BY <1>11, Zenon DEF Of
        <4>. QED
          BY <4>1, <4>2, Zenon
      <3>. QED
        BY <3>1, Zenon DEF Active
    <2>2. IsFiniteSet(A) /\ m + 1 \notin A
      <3>1. IsFiniteSet(Ids)
        BY <1>3, <1>10, FS_Interval
      <3>2. A \subseteq Ids
        BY DEF Of
      <3>. QED
        BY <1>11, <3>1, <3>2, FS_Subset, Zenon
    <2>3. Cardinality(A \cup {m + 1}) = Cardinality(A) + 1
      BY <2>2, FS_AddElement, Zenon
    <2>4. Cardinality(A) \in Nat /\ Cardinality(A) < settings[p].connections
      BY <1>5, <2>2, FS_CardinalityType DEF Eligible, ConnectionFree, Active
    <2>5. settings[p].connections \in Nat
      BY <1>6, ControlsAssumption DEF ControlsTypeOK
    <2>. QED
      BY <2>1, <2>3, <2>4, <2>5
  <1>21. ASSUME NEW l \in Layers(p)
         PROVE  /\ l.hourly = 0 \/ Used(l.members, {"hour"})' <= l.hourly
                /\ l.daily = 0 \/ Used(l.members, {"hour", "day"})' <= l.daily
    <2>1. p \in l.members /\ l.hourly \in Nat /\ l.daily \in Nat
      BY <1>6, LayerParts
    <2>2. /\ Used(l.members, {"hour"})' = Used(l.members, {"hour"}) + x.units
          /\ Used(l.members, {"hour", "day"})' = Used(l.members, {"hour", "day"}) + x.units
      BY <1>5, <1>6, <1>8, <2>1, ReservationAdds
    <2>3. /\ Allowance(p) \in Int
          /\ Allowance(p) <= Left(l.hourly, Used(l.members, {"hour"}))
          /\ Allowance(p) <= Left(l.daily, Used(l.members, {"hour", "day"}))
      BY <1>6, AllowanceBounds
    <2>4. Used(l.members, {"hour"}) \in Nat /\ Used(l.members, {"hour", "day"}) \in Nat
      BY <1>6, ReservedFinite, Zenon
    <2>5. x.units \in Nat /\ x.units <= Allowance(p)
      BY <1>7, <1>8, ControlsAssumption
    <2>. QED
      BY <2>1, <2>2, <2>3, <2>4, <2>5 DEF Left
  <1>22. Fitted
    BY <1>12, <1>20, <1>21, Zenon DEF Fitted
  <1>. QED
    BY <1>13, <1>17, <1>18, <1>19, <1>22 DEF ControlsInv

\* The first state, and every step.
LEMMA ControlsStart == ControlsInit => ControlsInv
  <1> SUFFICES ASSUME ControlsInit PROVE ControlsInv
    OBVIOUS
  <1>1. ControlsTypeOK
    BY DEF ControlsInit, ControlsTypeOK, NothingChosen
  <1>2. ProbeIsAlone /\ ProbesAreChecked
    BY DEF ControlsInit, ProbeIsAlone, ProbesAreChecked
  <1>. QED
    BY <1>1, <1>2 DEF ControlsInv

\* A step without a new attempt has nothing to fit.
LEMMA KeptFits == Kept => Fitted
  BY KeptOf DEF Fitted

\* Every step keeps the invariant and is a step of the two action properties.
LEMMA ControlsStep ==
    ControlsInv /\ [ControlsNext]_controlsVars => ControlsInv' /\ Fitted /\ ProbeStep
  <1> SUFFICES ASSUME ControlsInv, [ControlsNext]_controlsVars PROVE ControlsInv' /\ Fitted /\ ProbeStep
    OBVIOUS
  <1>1. CASE UNCHANGED controlsVars
    <2>1. ControlsTypeOK' /\ UNCHANGED <<reservations, circuit, probe>>
      BY <1>1, Zenon DEF ControlsInv, ControlsTypeOK, controlsVars
    <2>. QED
      BY <2>1, SameKeeps, KeptFits
  <1>. QED
    BY <1>1, SelectKeeps, ClaimKeepsProbes, FinishKeepsProbes, RecoverKeepsProbes,
       ConfigureKeeps, AgeKeeps, KeptFits, Zenon DEF ControlsNext

\* A half-open circuit has one probe, still under way, and nothing was claimed after it.
THEOREM ProbesAreAlone == ControlsSpec => []ProbeIsAlone
  <1>1. ControlsInv => ProbeIsAlone
    BY DEF ControlsInv
  <1>. QED
    BY <1>1, ControlsStart, ControlsStep, PTL DEF ControlsSpec

\* Only the end of the probe ends the half-open state.
THEOREM ProbesDecide == ControlsSpec => ProbeDecides
  <1>1. ProbeStep => [\A p \in Providers :
            circuit[p] = "HALF_OPEN" /\ circuit'[p] # "HALF_OPEN" =>
                reservations[probe[p]].inProgress /\ ~reservations'[probe[p]].inProgress]_controlsVars
    BY Zenon DEF ProbeStep
  <1>. QED
    BY <1>1, ControlsStart, ControlsStep, PTL DEF ControlsSpec, ProbeDecides

\* Every reservation fits the connections and the quotas in force when it commits.
THEOREM ReservationsFit == ControlsSpec => ReservationFits
  <1>1. Fitted => [\A p \in Providers :
            Of(p)' # Of(p) =>
                /\ Active(p)' <= settings[p].connections
                /\ \A l \in Layers(p) :
                    /\ l.hourly = 0 \/ Used(l.members, {"hour"})' <= l.hourly
                    /\ l.daily = 0 \/ Used(l.members, {"hour", "day"})' <= l.daily]_controlsVars
    BY Zenon DEF Fitted
  <1>. QED
    BY <1>1, ControlsStart, ControlsStep, PTL DEF ControlsSpec, ReservationFits
================================================================================
