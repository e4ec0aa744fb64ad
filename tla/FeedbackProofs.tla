---------------------------- MODULE FeedbackProofs ----------------------------
(***************************************************************************)
(* Feedback: the collection of its mail (FeedbackCollector), for any       *)
(* mailbox, callers and bounds, and what is concluded from it              *)
(* (FeedbackPublication), for any reports and transactions.                *)
(***************************************************************************)
EXTENDS FeedbackCollector, FeedbackPublication, FiniteSetTheorems, NaturalsInduction,
        WellFoundedInduction, TLAPS

(***************************************************************************)
(* The collector.  Whoever holds the lock works from the checkpoint that   *)
(* is stored; a window lies below the UIDNEXT it was chosen by, so that no *)
(* mail arrives in it later, and what was there when it was fetched is     *)
(* still to do or has its receipt.                                         *)
(***************************************************************************)
SourceRecords ==
    [exists : BOOLEAN, epoch : Epochs \cup {0}, last : Nat, records : Nat, bytes : Nat]

CallRecords ==
    [pc : {"idle", "locked", "selected", "ready", "alert", "fetched", "saving"},
     accept : Epochs \cup {0}, epoch : Epochs \cup {0}, next : Nat, last : Nat, end : Nat,
     todo : SUBSET Mail, outcome : Outcomes \cup {"none"}, alert : AlertKinds \cup {"none"}]

CollectorTypes ==
    /\ epoch \in Epochs /\ next \in [Epochs -> 1 .. MaxUid + 1] /\ mail \subseteq Mail
    /\ source \in SourceRecords
    /\ receipts \subseteq [epoch : Epochs, uid : Nat, outcome : Outcomes]
    /\ IsFiniteSet(receipts) /\ IsFiniteSet(alerts)
    /\ lock \in Collectors \cup {NoCollector}
    /\ collector \in [Collectors -> CallRecords]

MailBelowNext ==
    /\ \A m \in mail : m.uid < next[m.epoch]
    /\ source.exists /\ source.epoch \notin rolledBack => source.last < next[source.epoch]

SourceOK ==
    /\ source.exists => source.epoch \in Epochs
    /\ ~source.exists => source.epoch = 0 /\ source.last = 0 /\ source.records = 0 /\ source.bytes = 0

CallOK(c) ==
    LET k == collector[c] IN
    /\ k.pc \in {"selected", "ready", "fetched", "saving"} =>
         k.epoch \in Epochs /\ (k.epoch \notin rolledBack => k.next <= next[k.epoch])
    /\ lock = c /\ k.pc = "alert" => source.exists
    /\ lock = c /\ k.pc \in {"ready", "fetched", "saving"} =>
         source.exists /\ source.epoch = k.epoch /\ source.last = k.last
    /\ k.pc \in {"fetched", "saving"} =>
         /\ k.end < k.next
         /\ \A m \in k.todo : m.epoch = k.epoch /\ m.uid <= k.end
         /\ k.epoch \notin rolledBack =>
              \A m \in mail : m.epoch = k.epoch /\ k.last < m.uid /\ m.uid <= k.end =>
                  m \in k.todo \/ Receipted(m)
    /\ k.pc = "saving" => k.todo # {} /\ k.outcome \in Outcomes

CollectorInv ==
    /\ CollectorTypes /\ MailBelowNext /\ SourceOK
    /\ \A c \in Collectors : CallOK(c)
    /\ NothingSkipped /\ ChargesAgree

\* The parts of a message, and of a call of Collect.
LEMMA MailParts ==
    ASSUME NEW m \in Mail
    PROVE  m.epoch \in Epochs /\ m.uid \in 1 .. MaxUid /\ m.uid \in Nat /\ m.epoch # 0
  <1>1. m.epoch \in Epochs /\ m.uid \in 1 .. MaxUid
    BY Zenon DEF Mail
  <1>. QED
    BY <1>1, CollectorAssumption DEF Epochs

\* The parts of a call.
LEMMA CallParts ==
    ASSUME CollectorTypes, NEW c \in Collectors
    PROVE  /\ collector[c] \in CallRecords
           /\ collector[c].next \in Nat /\ collector[c].last \in Nat /\ collector[c].end \in Nat
           /\ collector[c].todo \in SUBSET Mail /\ collector[c].epoch \in Epochs \cup {0}
           /\ collector[c].accept \in Epochs \cup {0}
  <1>1. collector[c] \in CallRecords
    BY Zenon DEF CollectorTypes
  <1>. QED
    BY Zenon, <1>1 DEF CallRecords

\* The parts of the stored source.
LEMMA SourceParts ==
    ASSUME CollectorTypes
    PROVE  /\ source.exists \in BOOLEAN /\ source.epoch \in Epochs \cup {0} /\ source.last \in Nat
           /\ source.records \in Nat /\ source.bytes \in Nat
  BY Zenon DEF CollectorTypes, SourceRecords

\* A call that does not move is not disturbed by another.
LEMMA CallWaits ==
    ASSUME CollectorInv, UNCHANGED mailbox, receipts \subseteq receipts', NEW d \in Collectors,
           collector'[d] = collector[d], lock' = d => lock = d /\ source' = source
    PROVE  CallOK(d)'
  <1>1. CallOK(d) /\ UNCHANGED <<mail, next, rolledBack>>
    BY Zenon DEF CollectorInv, mailbox
  <1>2. \A m : Receipted(m) => Receipted(m)'
    BY Zenon DEF Receipted
  <1>. QED
    BY <1>1, <1>2, Zenon DEF CallOK

\* What is stored, when nothing is written.
LEMMA StoreWaits ==
    ASSUME CollectorInv, UNCHANGED <<mailbox, source, records>>
    PROVE  MailBelowNext' /\ SourceOK' /\ NothingSkipped' /\ ChargesAgree'
  BY Zenon DEF CollectorInv, mailbox, records, MailBelowNext, SourceOK, NothingSkipped, ChargesAgree,
         Receipted

\* A step in which one call moves.
LEMMA CallStep ==
    ASSUME CollectorInv, UNCHANGED mailbox, receipts \subseteq receipts', NEW c \in Collectors,
           NEW r \in CallRecords, collector' = [collector EXCEPT ![c] = r], CallOK(c)',
           lock' \in Collectors \cup {NoCollector},
           \A d \in Collectors : d # c => (lock' = d => lock = d /\ source' = source),
           source' \in SourceRecords,
           receipts' \subseteq [epoch : Epochs, uid : Nat, outcome : Outcomes],
           IsFiniteSet(receipts'), IsFiniteSet(alerts'),
           MailBelowNext', SourceOK', NothingSkipped', ChargesAgree'
    PROVE  CollectorInv'
  <1>1. CollectorTypes /\ UNCHANGED <<epoch, next, mail>>
    BY Zenon DEF CollectorInv, mailbox
  <1>2. /\ collector' \in [Collectors -> CallRecords]
        /\ \A d \in Collectors : d # c => collector'[d] = collector[d]
    BY <1>1, Zenon DEF CollectorTypes
  <1>3. CollectorTypes'
    BY <1>1, <1>2, Zenon DEF CollectorTypes
  <1>4. \A d \in Collectors : d # c => CallOK(d)'
    BY Zenon, <1>2, CallWaits
  <1>. QED
    BY <1>3, <1>4, Zenon DEF CollectorInv

\* A step in which one call moves and nothing is written.
LEMMA QuietStep ==
    ASSUME CollectorInv, UNCHANGED <<mailbox, source, records>>, NEW c \in Collectors,
           NEW r \in CallRecords, collector' = [collector EXCEPT ![c] = r], CallOK(c)',
           lock' \in {lock, c, NoCollector}
    PROVE  CollectorInv'
  <1>1. MailBelowNext' /\ SourceOK' /\ NothingSkipped' /\ ChargesAgree'
    BY Zenon, StoreWaits
  <1>2. /\ source' \in SourceRecords /\ receipts \subseteq receipts'
        /\ receipts' \subseteq [epoch : Epochs, uid : Nat, outcome : Outcomes]
        /\ IsFiniteSet(receipts') /\ IsFiniteSet(alerts')
        /\ lock' \in Collectors \cup {NoCollector}
    BY Zenon DEF records, CollectorInv, CollectorTypes
  <1>3. \A d \in Collectors : d # c => (lock' = d => lock = d /\ source' = source)
    BY Zenon, CollectorAssumption
  <1>. QED
    BY Zenon, <1>1, <1>2, <1>3, CallStep

\* A call ends.
LEMMA IdleParts ==
    /\ Idle \in CallRecords /\ Idle.pc = "idle"
    /\ \A a \in Epochs \cup {0} :
         LET r == [Idle EXCEPT !.pc = "locked", !.accept = a]
         IN r \in CallRecords /\ r.pc = "locked"
  BY Zenon DEF Idle, CallRecords

\* What the end of a call leaves: no call, and the lock to others.
LEMMA FinishParts ==
    ASSUME CollectorInv, NEW c \in Collectors, Finish(c)
    PROVE  /\ collector' = [collector EXCEPT ![c] = Idle] /\ Idle \in CallRecords /\ CallOK(c)'
           /\ lock' \in Collectors \cup {NoCollector} /\ lock' \in {lock, NoCollector} /\ lock' # c
           /\ lock = c => lock' = NoCollector
  <1>1. collector' = [collector EXCEPT ![c] = Idle] /\ collector \in [Collectors -> CallRecords]
    BY Zenon DEF Finish, Set, CollectorInv, CollectorTypes
  <1>2. collector'[c] = Idle
    BY <1>1, Zenon
  <1>3. CallOK(c)'
    BY Zenon, <1>2, IdleParts DEF CallOK
  <1>4. lock \in Collectors \cup {NoCollector}
    BY Zenon DEF CollectorInv, CollectorTypes
  <1>. QED
    BY Zenon, <1>1, <1>3, <1>4, IdleParts, CollectorAssumption DEF Finish

\* A call that ends and stores nothing.
LEMMA FinishStep ==
    ASSUME CollectorInv, UNCHANGED <<mailbox, source, records>>, NEW c \in Collectors, Finish(c)
    PROVE  CollectorInv'
  BY Zenon, FinishParts, QuietStep

\* The first of the messages to do.
LEMMA FirstIsLeast ==
    ASSUME CollectorTypes, NEW c \in Collectors, collector[c].todo # {}
    PROVE  First(c) \in collector[c].todo /\ \A n \in collector[c].todo : First(c).uid <= n.uid
  <1> DEFINE T == collector[c].todo
             U == {m.uid : m \in T}
  <1>1. T \subseteq Mail
    BY Zenon, CallParts
  <1>2. \A m \in T : m.uid \in Nat
    BY Zenon, <1>1, MailParts
  <1>3. PICK u \in U : \A v \in U : ~(<<v, u>> \in OpToRel(<, Nat))
    <2>1. IsWellFoundedOn(OpToRel(<, Nat), Nat)
      BY Zenon, NatLessThanWellFounded
    <2>2. U \subseteq Nat /\ U # {}
      BY Zenon, <1>2
    <2>. HIDE DEF U
    <2>. QED
      BY Zenon, <2>1, <2>2, WFMin
  <1>4. u \in Nat /\ U \subseteq Nat
    BY Zenon, <1>2
  <1>5. \A v \in U : u <= v
    <2> SUFFICES ASSUME NEW v \in U PROVE u <= v
      BY Zenon
    <2>1. ~(<<v, u>> \in OpToRel(<, Nat)) /\ v \in Nat
      BY Zenon, <1>3, <1>4
    <2>. QED
      BY <1>4, <2>1 DEF OpToRel
  <1>6. \E m \in T : \A n \in T : m.uid <= n.uid
    BY Zenon, <1>5
  <1>. QED
    BY <1>6, Zenon DEF First

\* What the mail server may do: UIDs grow, except in a folder that was rolled back.
LEMMA ServerStep ==
    ASSUME CollectorInv, UNCHANGED <<source, records, lock, collector>>,
           epoch' \in Epochs, next' \in [Epochs -> 1 .. MaxUid + 1], mail' \subseteq Mail,
           rolledBack \subseteq rolledBack',
           \A m \in mail' : m.uid < next'[m.epoch],
           \A m \in mail' : m \in mail \/ m.epoch \in rolledBack' \/ m.uid = next[m.epoch],
           \A e \in Epochs : e \notin rolledBack' => next[e] <= next'[e]
    PROVE  CollectorInv'
  <1>1. CollectorTypes /\ MailBelowNext /\ SourceOK /\ NothingSkipped /\ ChargesAgree
        /\ UNCHANGED <<receipts, alerts>>
    BY Zenon DEF CollectorInv, records
  <1>2. CollectorTypes'
    BY <1>1, Zenon DEF CollectorTypes
  <1>3. /\ \A e \in Epochs : next[e] \in Nat /\ next'[e] \in Nat
        /\ \A m \in mail' : m.epoch \in Epochs /\ m.uid \in Nat /\ m.epoch # 0
    <2>1. \A e \in Epochs : next[e] \in 1 .. MaxUid + 1 /\ next'[e] \in 1 .. MaxUid + 1
      BY Zenon, <1>1 DEF CollectorTypes
    <2>2. \A m \in mail' : m.epoch \in Epochs /\ m.uid \in Nat /\ m.epoch # 0
      BY Zenon, MailParts
    <2>. QED
      BY <2>1, <2>2
  <1>4. source.last \in Nat
    BY Zenon, <1>1, SourceParts
  <1>5. MailBelowNext'
    BY <1>1, <1>3, <1>4 DEF MailBelowNext, SourceOK
  <1>6. SourceOK' /\ ChargesAgree'
    BY <1>1, Zenon DEF SourceOK, ChargesAgree
  <1>7. \A m : Receipted(m)' = Receipted(m)
    BY Zenon, <1>1 DEF Receipted
  <1>8. ASSUME NEW m \in mail', m.epoch = source.epoch, m.epoch \notin rolledBack', m.uid <= source.last
        PROVE  Receipted(m)'
    <2>1. source.exists /\ source.last < next[source.epoch]
      BY Zenon, <1>1, <1>3, <1>8 DEF SourceOK, MailBelowNext
    <2>2. m \in mail
      BY <1>3, <1>4, <1>8, <2>1
    <2>. QED
      BY Zenon, <1>1, <1>7, <1>8, <2>2 DEF NothingSkipped
  <1>9. NothingSkipped'
    BY <1>8, Zenon DEF NothingSkipped
  <1>10. ASSUME NEW c \in Collectors PROVE CallOK(c)'
    <2> DEFINE k == collector[c]
    <2>1. CallOK(c) /\ k.next \in Nat /\ k.end \in Nat /\ k.last \in Nat
      BY Zenon, <1>1, CallParts DEF CollectorInv
    <2>2. k.pc \in {"selected", "ready", "fetched", "saving"} =>
            k.epoch \in Epochs /\ (k.epoch \notin rolledBack' => k.next <= next'[k.epoch])
      BY <1>3, <2>1 DEF CallOK
    <2>3. ASSUME k.pc \in {"fetched", "saving"}, k.epoch \notin rolledBack', NEW m \in mail',
                 m.epoch = k.epoch, k.last < m.uid, m.uid <= k.end
          PROVE  m \in k.todo \/ Receipted(m)'
      <3>1. k.end < k.next /\ k.next <= next[k.epoch]
        BY Zenon, <2>1, <2>3 DEF CallOK
      <3>2. m \in mail
        BY <1>3, <2>1, <2>3, <3>1
      <3>. QED
        BY Zenon, <1>7, <2>1, <2>3, <3>2 DEF CallOK
    <2>. QED
      BY <2>1, <2>2, <2>3, Zenon DEF CallOK
  <1>. QED
    BY <1>2, <1>5, <1>6, <1>9, <1>10, Zenon DEF CollectorInv

\* Mail arrives and is removed, the folder is replaced, the server takes back UIDs.
LEMMA MailboxStep ==
    ASSUME CollectorInv,
           \/ \E kind \in Kinds : Arrive(kind)
           \/ \E m \in mail : Expunge(m)
           \/ \E e \in Epochs : ReplaceFolder(e)
           \/ \E n \in 1 .. MaxUid : RollBack(n)
    PROVE  CollectorInv'
  <1>1. /\ CollectorTypes /\ epoch \in Epochs /\ next \in [Epochs -> 1 .. MaxUid + 1]
        /\ mail \subseteq Mail /\ MaxUid \in Nat
        /\ \A m \in mail : m.uid < next[m.epoch]
        /\ \A m \in mail : m.epoch \in Epochs /\ m.uid \in Nat
    BY Zenon, MailParts, CollectorAssumption DEF CollectorInv, CollectorTypes, MailBelowNext
  <1>2. \A e \in Epochs : next[e] \in Nat
    BY <1>1
  <1>3. ASSUME NEW kind \in Kinds, Arrive(kind) PROVE CollectorInv'
    <2> DEFINE m == [epoch |-> epoch, uid |-> next[epoch], kind |-> kind]
    <2>1. m \in Mail /\ m.epoch = epoch /\ m.uid = next[epoch]
      BY <1>1, <1>3 DEF Mail, Arrive
    <2>2. mail' = mail \cup {m} /\ UNCHANGED <<epoch, rolledBack, source, records, lock, collector>>
      BY Zenon, <1>3 DEF Arrive
    <2>. HIDE DEF m
    <2>3. /\ next' \in [Epochs -> 1 .. MaxUid + 1] /\ next'[epoch] = next[epoch] + 1
          /\ \A e \in Epochs : e # epoch => next'[e] = next[e]
      BY <1>1, <1>3 DEF Arrive
    <2>4. \A n \in mail' : n.uid < next'[n.epoch]
      BY <1>1, <1>2, <2>1, <2>2, <2>3
    <2>5. \A e \in Epochs : next[e] <= next'[e]
      BY <1>2, <2>3
    <2>. QED
      BY Zenon, <1>1, <2>1, <2>2, <2>3, <2>4, <2>5, ServerStep
  <1>4. ASSUME NEW m \in mail, Expunge(m) PROVE CollectorInv'
    BY <1>1, <1>2, <1>4, ServerStep DEF Expunge
  <1>5. ASSUME NEW e \in Epochs, ReplaceFolder(e) PROVE CollectorInv'
    BY <1>1, <1>2, <1>5, ServerStep DEF ReplaceFolder
  <1>6. ASSUME NEW n \in 1 .. MaxUid, RollBack(n) PROVE CollectorInv'
    <2>1. /\ UNCHANGED <<epoch, source, records, lock, collector>>
          /\ rolledBack' = rolledBack \cup {epoch}
          /\ mail' = {m \in mail : m.epoch = epoch => m.uid < n}
      BY Zenon, <1>6 DEF RollBack
    <2>2. /\ next' \in [Epochs -> 1 .. MaxUid + 1] /\ next'[epoch] = n
          /\ \A e \in Epochs : e # epoch => next'[e] = next[e]
      BY <1>1, <1>6 DEF RollBack
    <2>3. \A m \in mail' : m \in mail /\ m.uid < next'[m.epoch]
      BY Zenon, <1>1, <2>1, <2>2
    <2>4. \A e \in Epochs : e \notin rolledBack' => next[e] <= next'[e]
      BY <1>2, <2>1, <2>2
    <2>. QED
      BY Zenon, <1>1, <2>1, <2>2, <2>3, <2>4, ServerStep
  <1>. QED
    BY Zenon, <1>3, <1>4, <1>5, <1>6

\* The fields a call writes.
LEMMA CallEdits ==
    ASSUME NEW k \in CallRecords
    PROVE  /\ \A a \in AlertKinds :
                LET r == [k EXCEPT !.pc = "alert", !.alert = a]
                IN r \in CallRecords /\ r.pc = "alert"
           /\ \A o \in Outcomes :
                LET r == [k EXCEPT !.pc = "saving", !.outcome = o]
                IN /\ r \in CallRecords /\ r.pc = "saving" /\ r.outcome = o /\ r.epoch = k.epoch
                   /\ r.next = k.next /\ r.last = k.last /\ r.end = k.end /\ r.todo = k.todo
  <1>1. ASSUME NEW a \in AlertKinds
        PROVE  LET r == [k EXCEPT !.pc = "alert", !.alert = a]
               IN r \in CallRecords /\ r.pc = "alert"
    BY Zenon DEF CallRecords
  <1>2. ASSUME NEW o \in Outcomes
        PROVE  LET r == [k EXCEPT !.pc = "saving", !.outcome = o]
               IN /\ r \in CallRecords /\ r.pc = "saving" /\ r.outcome = o /\ r.epoch = k.epoch
                  /\ r.next = k.next /\ r.last = k.last /\ r.end = k.end /\ r.todo = k.todo
    BY Zenon DEF CallRecords
  <1>. QED
    BY <1>1, <1>2, Zenon

\* A call begins, selects the folder, fetches a body, or stops.
LEMMA BeginStep ==
    ASSUME CollectorInv, NEW c \in Collectors,
           \/ \E accept \in Epochs \cup {0} : Start(c, accept)
           \/ SelectFolder(c) \/ FetchBody(c) \/ Fails(c) \/ GivesUp(c) \/ LockIsLost(c)
    PROVE  CollectorInv'
  <1>1. /\ UNCHANGED <<mailbox, source, records>> /\ CollectorTypes /\ CallOK(c)
        /\ UNCHANGED <<epoch, next, mail, rolledBack>> /\ UNCHANGED <<receipts, alerts>>
    BY Zenon DEF Start, SelectFolder, FetchBody, Fails, GivesUp, LockIsLost, mailbox, records, CollectorInv
  <1>2. ASSUME NEW accept \in Epochs \cup {0}, Start(c, accept) PROVE CollectorInv'
    <2> DEFINE r == [Idle EXCEPT !.pc = "locked", !.accept = accept]
    <2>1. r \in CallRecords /\ r.pc = "locked"
      BY IdleParts, Zenon
    <2>2. collector' = [collector EXCEPT ![c] = r] /\ lock' = c
      BY <1>2, Zenon DEF Start, Set
    <2>. HIDE DEF r
    <2>3. collector'[c] = r
      BY Zenon, <1>1, <2>2 DEF CollectorTypes
    <2>4. CallOK(c)'
      BY Zenon, <2>1, <2>3 DEF CallOK
    <2>. QED
      BY Zenon, <1>1, <2>1, <2>2, <2>4, QuietStep
  <1>3. CASE SelectFolder(c)
    <2>1. CASE Finish(c)
      BY Zenon, <1>1, <2>1, FinishStep
    <2>2. CASE ~Finish(c)
      <3> DEFINE r == [collector[c] EXCEPT !.pc = "selected", !.epoch = epoch, !.next = next[epoch]]
      <3>1. collector' = [collector EXCEPT ![c] = r] /\ lock' = lock
        BY <1>3, <2>2, Zenon DEF SelectFolder, Set
      <3>2. collector[c] \in CallRecords /\ epoch \in Epochs /\ next[epoch] \in Nat
        BY <1>1, CallParts DEF CollectorTypes
      <3>3. r \in CallRecords /\ r.pc = "selected" /\ r.epoch = epoch /\ r.next = next[epoch]
        <4>1. PICK e \in Epochs, n \in Nat : e = epoch /\ n = next[epoch]
          BY Zenon, <3>2
        <4> DEFINE q == [collector[c] EXCEPT !.pc = "selected", !.epoch = e, !.next = n]
        <4>2. q \in CallRecords /\ q.pc = "selected" /\ q.epoch = e /\ q.next = n
          BY Zenon, <3>2, <4>1 DEF CallRecords
        <4>3. q = r
          BY Zenon, <4>1
        <4>. HIDE DEF q, r
        <4>. QED
          BY <4>1, <4>2, <4>3, Zenon
      <3>. HIDE DEF r
      <3>4. collector'[c] = r
        BY Zenon, <1>1, <3>1 DEF CollectorTypes
      <3>5. CallOK(c)'
        BY <1>1, <3>2, <3>3, <3>4 DEF CallOK
      <3>. QED
        BY Zenon, <1>1, <3>1, <3>3, <3>5, QuietStep
    <2>. QED
      BY Zenon, <2>1, <2>2
  <1>4. CASE FetchBody(c)
    <2>1. PICK o \in Outcomes : Set(c, [collector[c] EXCEPT !.pc = "saving", !.outcome = o])
      BY <1>4, Zenon DEF FetchBody
    <2> DEFINE r == [collector[c] EXCEPT !.pc = "saving", !.outcome = o]
               k == collector[c]
    <2>2. collector' = [collector EXCEPT ![c] = r] /\ lock' = lock /\ k.pc = "fetched" /\ k.todo # {}
      BY <1>4, <2>1, Zenon DEF FetchBody, Set
    <2>3. collector[c] \in CallRecords
      BY Zenon, <1>1, CallParts
    <2>4. /\ r \in CallRecords /\ r.pc = "saving" /\ r.outcome = o /\ r.epoch = k.epoch
          /\ r.next = k.next /\ r.last = k.last /\ r.end = k.end /\ r.todo = k.todo
      BY <2>3, CallEdits, Zenon
    <2>. HIDE DEF r
    <2>5. collector'[c] = r
      BY Zenon, <1>1, <2>2 DEF CollectorTypes
    <2>6. \A m : Receipted(m)' = Receipted(m)
      BY Zenon, <1>1 DEF Receipted
    <2>7. CallOK(c)'
      BY <1>1, <2>2, <2>4, <2>5, <2>6 DEF CallOK
    <2>. QED
      BY Zenon, <1>1, <2>2, <2>4, <2>7, QuietStep
  <1>5. CASE Fails(c) \/ GivesUp(c)
    BY Zenon, <1>1, <1>5, FinishStep DEF Fails, GivesUp
  <1>6. CASE LockIsLost(c)
    <2>1. collector' = collector /\ lock' = NoCollector
      BY Zenon, <1>6 DEF LockIsLost
    <2>2. collector' = [collector EXCEPT ![c] = collector[c]] /\ collector[c] \in CallRecords
      BY Zenon, <1>1, <2>1, CallParts DEF CollectorTypes
    <2>3. receipts \subseteq receipts' /\ (lock' = c => lock = c /\ source' = source)
      BY Zenon, <1>1, <2>1, CollectorAssumption
    <2>4. CallOK(c)'
      BY Zenon, <1>1, <2>1, <2>3, CallWaits
    <2>. QED
      BY Zenon, <1>1, <2>1, <2>2, <2>4, QuietStep
  <1>. QED
    BY Zenon, <1>2, <1>3, <1>4, <1>5, <1>6

\* What the row of the source is after initializeSource.
LEMMA SourceEdits ==
    ASSUME NEW s \in SourceRecords, NEW e \in Epochs
    PROVE  LET r == [s EXCEPT !.epoch = e, !.last = 0]
           IN /\ r \in SourceRecords /\ r.exists = s.exists /\ r.epoch = e /\ r.last = 0
              /\ r.records = s.records /\ r.bytes = s.bytes
  BY Zenon DEF SourceRecords

\* initializeSource: the source is created, found as it was, or its new epoch accepted.
LEMMA InitializeStep ==
    ASSUME CollectorInv, NEW c \in Collectors, InitializeSource(c)
    PROVE  CollectorInv'
  <1> DEFINE k == collector[c]
             made == IF source.exists THEN source
                     ELSE [NoSource EXCEPT !.exists = TRUE, !.epoch = k.epoch]
             reset == [made EXCEPT !.epoch = k.epoch, !.last = 0]
             stored == IF made.epoch = k.epoch THEN made ELSE reset
  <1>1. /\ UNCHANGED <<mailbox, records>> /\ CollectorTypes /\ CallOK(c) /\ k.pc = "selected" /\ lock = c
        /\ UNCHANGED <<epoch, next, mail, rolledBack>> /\ UNCHANGED <<receipts, alerts>>
        /\ MailBelowNext /\ SourceOK /\ NothingSkipped /\ ChargesAgree
    BY Zenon DEF InitializeSource, Connected, mailbox, records, CollectorInv
  <1>2. /\ k \in CallRecords /\ source \in SourceRecords /\ k.epoch \in Epochs /\ k.next \in Nat
        /\ (k.epoch \notin rolledBack => k.next <= next[k.epoch])
    BY Zenon, <1>1, CallParts DEF CallOK, CollectorTypes
  <1>3. /\ made \in SourceRecords /\ made.exists /\ made.records = source.records
        /\ made.bytes = source.bytes
        /\ source.exists => made = source
        /\ ~source.exists => made.epoch = k.epoch /\ made.last = 0
    <2>1. CASE source.exists
      BY Zenon, <1>2, <2>1
    <2>2. CASE ~source.exists
      <3> DEFINE n == [NoSource EXCEPT !.exists = TRUE, !.epoch = k.epoch]
      <3>1. /\ n \in SourceRecords /\ n.exists /\ n.epoch = k.epoch /\ n.last = 0
            /\ n.records = 0 /\ n.bytes = 0
        BY Zenon, <1>2 DEF NoSource, SourceRecords
      <3>2. made = n
        BY <2>2, Zenon
      <3>3. source.records = 0 /\ source.bytes = 0
        BY Zenon, <1>1, <2>2 DEF SourceOK
      <3>. HIDE DEF n, made
      <3>. QED
        BY <2>2, <3>1, <3>2, <3>3, Zenon
    <2>. QED
      BY Zenon, <2>1, <2>2
  <1>4. /\ stored \in SourceRecords /\ stored.exists /\ stored.epoch = k.epoch
        /\ stored.records = source.records /\ stored.bytes = source.bytes /\ stored.last \in Nat
        /\ stored.last # 0 => source.exists /\ source.epoch = k.epoch /\ stored.last = source.last
    <2>. HIDE DEF made
    <2>1. /\ reset \in SourceRecords /\ reset.exists = made.exists /\ reset.epoch = k.epoch
          /\ reset.last = 0 /\ reset.records = made.records /\ reset.bytes = made.bytes
      BY <1>2, <1>3, SourceEdits, Zenon
    <2>2. \A s \in SourceRecords : s.last \in Nat
      BY Zenon DEF SourceRecords
    <2>. HIDE DEF reset
    <2>3. CASE made.epoch = k.epoch
      BY <1>3, <2>2, <2>3, Zenon
    <2>4. CASE made.epoch # k.epoch
      BY <1>3, <2>1, <2>2, <2>4, Zenon
    <2>. QED
      BY Zenon, <2>3, <2>4
  <1>5. \/ Finish(c) /\ source' = source
        \/ /\ made.epoch # k.epoch /\ Set(c, [k EXCEPT !.pc = "alert", !.alert = "UIDVALIDITY_CHANGED"])
           /\ UNCHANGED <<lock, source>>
        \/ /\ source' = stored /\ Set(c, [k EXCEPT !.pc = "ready", !.last = stored.last])
           /\ lock' = lock
    BY Zenon DEF InitializeSource
  <1>. HIDE DEF made, reset, stored
  <1>6. CASE Finish(c) /\ source' = source
    BY Zenon, <1>1, <1>6, FinishStep
  <1>7. CASE /\ made.epoch # k.epoch /\ Set(c, [k EXCEPT !.pc = "alert", !.alert = "UIDVALIDITY_CHANGED"])
             /\ UNCHANGED <<lock, source>>
    <2> DEFINE r == [k EXCEPT !.pc = "alert", !.alert = "UIDVALIDITY_CHANGED"]
    <2>1. r \in CallRecords /\ r.pc = "alert"
      <3>1. "UIDVALIDITY_CHANGED" \in AlertKinds
        BY Zenon DEF AlertKinds
      <3>. QED
        BY <1>2, <3>1, CallEdits, Zenon
    <2>2. collector' = [collector EXCEPT ![c] = r]
      BY <1>7, Zenon DEF Set
    <2>. HIDE DEF r
    <2>3. collector'[c] = r
      BY Zenon, <1>1, <2>2 DEF CollectorTypes
    <2>4. source'.exists
      BY Zenon, <1>3, <1>7
    <2>5. CallOK(c)'
      BY Zenon, <2>1, <2>3, <2>4 DEF CallOK
    <2>. QED
      BY Zenon, <1>1, <1>7, <2>1, <2>2, <2>5, QuietStep
  <1>8. CASE source' = stored /\ Set(c, [k EXCEPT !.pc = "ready", !.last = stored.last]) /\ lock' = lock
    <2> DEFINE r == [k EXCEPT !.pc = "ready", !.last = stored.last]
    <2>1. /\ r \in CallRecords /\ r.pc = "ready" /\ r.last = stored.last /\ r.epoch = k.epoch
          /\ r.next = k.next
      <3>1. stored.last \in Nat
        BY Zenon, <1>4
      <3>2. PICK l \in Nat : l = stored.last
        BY Zenon, <3>1
      <3> DEFINE q == [k EXCEPT !.pc = "ready", !.last = l]
      <3>3. /\ q \in CallRecords /\ q.pc = "ready" /\ q.last = l /\ q.epoch = k.epoch
            /\ q.next = k.next
        BY Zenon, <1>2 DEF CallRecords
      <3>4. q = r
        BY Zenon, <3>2
      <3>. HIDE DEF q, r
      <3>. QED
        BY <3>2, <3>3, <3>4, Zenon
    <2>2. collector' = [collector EXCEPT ![c] = r]
      BY <1>8, Zenon DEF Set
    <2>. HIDE DEF r
    <2>3. collector'[c] = r
      BY Zenon, <1>1, <2>2 DEF CollectorTypes
    <2>4. CallOK(c)'
      BY Zenon, <1>1, <1>2, <1>4, <1>8, <2>1, <2>3 DEF CallOK
    <2>5. SourceOK'
      BY Zenon, <1>2, <1>4, <1>8 DEF SourceOK
    <2>6. ChargesAgree'
      BY <1>1, <1>4, <1>8, Zenon DEF ChargesAgree
    <2>7. MailBelowNext'
      <3>1. next[k.epoch] \in Nat /\ next[k.epoch] > 0
        BY <1>1, <1>2, CollectorAssumption DEF CollectorTypes
      <3>. QED
        BY Zenon, <1>1, <1>4, <1>8, <3>1 DEF MailBelowNext
    <2>8. NothingSkipped'
      <3> SUFFICES ASSUME NEW m \in mail, m.epoch = k.epoch, m.epoch \notin rolledBack,
                          m.uid <= stored.last
                   PROVE  Receipted(m)
        BY Zenon, <1>1, <1>4, <1>8 DEF NothingSkipped, Receipted
      <3>1. m.uid \in Nat /\ m.uid # 0
        BY <1>1, MailParts DEF CollectorTypes
      <3>. QED
        BY <1>1, <1>4, <3>1 DEF NothingSkipped
    <2>9. /\ receipts \subseteq receipts' /\ receipts' \subseteq [epoch : Epochs, uid : Nat, outcome : Outcomes]
          /\ IsFiniteSet(receipts') /\ IsFiniteSet(alerts') /\ source' \in SourceRecords
          /\ lock' \in Collectors \cup {NoCollector}
          /\ \A d \in Collectors : d # c => (lock' = d => lock = d /\ source' = source)
      BY Zenon, <1>1, <1>4, <1>8 DEF CollectorTypes
    <2>. QED
      BY <1>1, <2>1, <2>2, <2>4, <2>5, <2>6, <2>7, <2>8, <2>9, CallStep
  <1>. QED
    BY Zenon, <1>5, <1>6, <1>7, <1>8

\* An alert is recorded, and charged to the source.
LEMMA AlertStep ==
    ASSUME CollectorInv, NEW c \in Collectors, RaiseAlert(c)
    PROVE  CollectorInv'
  <1> DEFINE a == [epoch |-> collector[c].epoch, kind |-> collector[c].alert]
             charged == [source EXCEPT !.records = @ + 1]
  <1>1. /\ Finish(c) /\ UNCHANGED mailbox /\ receipts' = receipts /\ CollectorTypes /\ CallOK(c)
        /\ MailBelowNext /\ SourceOK /\ NothingSkipped /\ ChargesAgree
        /\ UNCHANGED <<epoch, next, mail, rolledBack>> /\ lock = c /\ collector[c].pc = "alert"
    BY Zenon DEF RaiseAlert, Connected, mailbox, CollectorInv
  <1>2. \/ alerts' = alerts /\ source' = source
        \/ /\ a \notin alerts /\ source.records < MaxRecords
           /\ alerts' = alerts \cup {a} /\ source' = charged
    BY Zenon DEF RaiseAlert
  <1>3. CASE alerts' = alerts /\ source' = source
    BY Zenon, <1>1, <1>3, FinishStep DEF records
  <1>4. CASE /\ a \notin alerts /\ source.records < MaxRecords
             /\ alerts' = alerts \cup {a} /\ source' = charged
    <2>1. /\ charged \in SourceRecords /\ charged.exists = source.exists
          /\ charged.epoch = source.epoch /\ charged.last = source.last
          /\ charged.records = source.records + 1 /\ charged.bytes = source.bytes
      BY <1>1 DEF CollectorTypes, SourceRecords
    <2>. HIDE DEF a, charged
    <2>2. source.exists
      BY Zenon, <1>1 DEF CallOK
    <2>3. IsFiniteSet(alerts') /\ Cardinality(alerts') = Cardinality(alerts) + 1
      BY Zenon, <1>1, <1>4, FS_AddElement DEF CollectorTypes
    <2>4. Cardinality(receipts) \in Nat /\ Cardinality(alerts) \in Nat
      BY Zenon, <1>1, FS_CardinalityType DEF CollectorTypes
    <2>5. ChargesAgree'
      <3>1. source'.records = Cardinality(receipts') + Cardinality(alerts')
        <4>1. source.records = Cardinality(receipts) + Cardinality(alerts)
          BY Zenon, <1>1 DEF ChargesAgree
        <4>2. source'.records = source.records + 1 /\ receipts' = receipts
          BY Zenon, <1>1, <1>4, <2>1
        <4>. QED
          BY <2>3, <2>4, <4>1, <4>2
      <3>2. source'.records <= MaxRecords
        BY <1>1, <1>4, <2>1, SourceParts, CollectorAssumption
      <3>3. source'.bytes = source.bytes /\ receipts' = receipts
        BY Zenon, <1>1, <1>4, <2>1
      <3>. QED
        BY <1>1, <3>1, <3>2, <3>3, Zenon DEF ChargesAgree
    <2>6. MailBelowNext' /\ SourceOK'
      BY <1>1, <1>4, <2>1, <2>2, Zenon DEF MailBelowNext, SourceOK
    <2>7. NothingSkipped'
      BY <1>1, <1>4, <2>1, Zenon DEF NothingSkipped, Receipted
    <2>8. /\ receipts \subseteq receipts' /\ receipts' \subseteq [epoch : Epochs, uid : Nat, outcome : Outcomes]
          /\ IsFiniteSet(receipts') /\ source' \in SourceRecords
      BY Zenon, <1>1, <1>4, <2>1 DEF CollectorTypes
    <2>9. \A d \in Collectors : d # c => (lock' = d => lock = d /\ source' = source)
      BY Zenon, <1>1, FinishParts, CollectorAssumption
    <2>. QED
      BY Zenon, <1>1, <2>3, <2>5, <2>6, <2>7, <2>8, <2>9, FinishParts, CallStep
  <1>. QED
    BY Zenon, <1>2, <1>3, <1>4

\* A window is chosen and its mail listed, or there is nothing new, or UIDNEXT lies
\* behind the checkpoint.
LEMMA MetadataStep ==
    ASSUME CollectorInv, NEW c \in Collectors, FetchMetadata(c)
    PROVE  CollectorInv'
  <1> DEFINE k == collector[c]
             w == WindowEnd(k)
             listed == {m \in mail : m.epoch = epoch /\ m.uid \in k.last + 1 .. w}
             alerted == [k EXCEPT !.pc = "alert", !.alert = "UIDNEXT_REGRESSED"]
             fetched == [k EXCEPT !.pc = "fetched", !.end = w, !.todo = listed]
  <1>1. /\ UNCHANGED <<mailbox, source, records>> /\ CollectorTypes /\ CallOK(c) /\ k.pc = "ready"
        /\ UNCHANGED <<epoch, next, mail, rolledBack>> /\ receipts' = receipts
    BY Zenon DEF FetchMetadata, mailbox, records, CollectorInv
  <1>2. k \in CallRecords /\ k.next \in Nat /\ k.last \in Nat
    BY Zenon, <1>1, CallParts
  <1>3. \/ Finish(c)
        \/ collector' = [collector EXCEPT ![c] = alerted] /\ lock' = lock
        \/ /\ k.next > k.last /\ w > k.last /\ epoch = k.epoch
           /\ collector' = [collector EXCEPT ![c] = fetched] /\ lock' = lock
    BY Zenon DEF FetchMetadata, Set
  <1>4. CASE Finish(c)
    BY Zenon, <1>1, <1>4, FinishStep
  <1>5. CASE collector' = [collector EXCEPT ![c] = alerted] /\ lock' = lock
    <2>1. alerted \in CallRecords /\ alerted.pc = "alert"
      <3>1. "UIDNEXT_REGRESSED" \in AlertKinds
        BY Zenon DEF AlertKinds
      <3>. QED
        BY <1>2, <3>1, CallEdits, Zenon
    <2>. HIDE DEF alerted
    <2>2. collector'[c] = alerted
      BY Zenon, <1>1, <1>5 DEF CollectorTypes
    <2>3. CallOK(c)'
      BY Zenon, <1>1, <1>5, <2>1, <2>2 DEF CallOK
    <2>. QED
      BY Zenon, <1>1, <1>5, <2>1, <2>3, QuietStep
  <1>6. CASE /\ k.next > k.last /\ w > k.last /\ epoch = k.epoch
             /\ collector' = [collector EXCEPT ![c] = fetched] /\ lock' = lock
    <2>1. w \in Nat /\ w < k.next
      BY <1>2, <1>6, CollectorAssumption DEF WindowEnd
    <2>2. listed \in SUBSET Mail
      BY Zenon, <1>1 DEF CollectorTypes
    <2>3. PICK v \in Nat, T \in SUBSET Mail : v = w /\ T = listed
      BY Zenon, <2>1, <2>2
    <2> DEFINE q == [k EXCEPT !.pc = "fetched", !.end = v, !.todo = T]
    <2>4. /\ q \in CallRecords /\ q.pc = "fetched" /\ q.end = v /\ q.todo = T
          /\ q.epoch = k.epoch /\ q.next = k.next /\ q.last = k.last
      BY Zenon, <1>2 DEF CallRecords
    <2>5. collector' = [collector EXCEPT ![c] = q]
      BY <1>6, <2>3, Zenon
    <2>. HIDE DEF q
    <2>6. collector'[c] = q
      BY Zenon, <1>1, <2>5 DEF CollectorTypes
    <2>7. \A m : m \in T <=> m \in mail /\ m.epoch = k.epoch /\ m.uid \in k.last + 1 .. v
      BY Zenon, <1>6, <2>3
    <2>8. \A m \in mail : m.uid \in Nat
      BY Zenon, <1>1, MailParts DEF CollectorTypes
    <2>9. \A m \in T : m.epoch = k.epoch /\ m.uid <= v
      BY <1>2, <2>1, <2>3, <2>7, <2>8
    <2>10. \A m \in mail : m.epoch = k.epoch /\ k.last < m.uid /\ m.uid <= v => m \in T
      BY <1>2, <2>1, <2>3, <2>7, <2>8
    <2>11. CallOK(c)'
      BY <1>1, <1>6, <2>1, <2>3, <2>4, <2>6, <2>9, <2>10 DEF CallOK
    <2>. QED
      BY Zenon, <1>1, <1>6, <2>4, <2>5, <2>11, QuietStep
  <1>. QED
    BY Zenon, <1>3, <1>4, <1>5, <1>6

\* The first message to do is done with: the checkpoint reaches it, and what is below
\* it has a receipt.
LEMMA SavedOn ==
    ASSUME CollectorInv, NEW c \in Collectors, collector[c].pc = "saving", lock = c, lock' = lock,
           UNCHANGED mailbox, receipts \subseteq receipts', NEW m, m = First(c),
           Receipted(m)', source'.exists, source'.epoch = source.epoch, source'.last = m.uid,
           collector' = [collector EXCEPT ![c] =
               [collector[c] EXCEPT !.pc = "fetched", !.last = m.uid, !.todo = @ \ {m},
                                    !.outcome = "none"]]
    PROVE  /\ CallOK(c)' /\ MailBelowNext' /\ NothingSkipped'
           /\ \E r \in CallRecords : collector' = [collector EXCEPT ![c] = r]
  <1> DEFINE k == collector[c]
  <1>1. /\ CollectorTypes /\ CallOK(c) /\ UNCHANGED <<epoch, next, mail, rolledBack>>
        /\ MailBelowNext /\ NothingSkipped
    BY Zenon DEF CollectorInv, mailbox
  <1>2. /\ k \in CallRecords /\ k.todo \in SUBSET Mail /\ k.end \in Nat /\ k.next \in Nat
        /\ k.last \in Nat
    BY Zenon, <1>1, CallParts
  <1>3. m \in k.todo /\ \A n \in k.todo : m.uid <= n.uid
    BY Zenon, <1>1, FirstIsLeast DEF CallOK
  <1>4. m.epoch = k.epoch /\ m.uid \in Nat /\ m.uid <= k.end
    BY Zenon, <1>1, <1>2, <1>3, MailParts DEF CallOK
  <1>5. PICK u \in Nat, T \in SUBSET Mail : u = m.uid /\ T = k.todo \ {m}
    BY Zenon, <1>2, <1>4
  <1> DEFINE q == [k EXCEPT !.pc = "fetched", !.last = u, !.todo = T, !.outcome = "none"]
  <1>6. /\ q \in CallRecords /\ q.pc = "fetched" /\ q.last = u /\ q.todo = T
        /\ q.epoch = k.epoch /\ q.next = k.next /\ q.end = k.end
    BY Zenon, <1>2 DEF CallRecords
  <1>7. collector' = [collector EXCEPT ![c] = q]
    BY <1>5, Zenon
  <1>. HIDE DEF q
  <1>8. collector'[c] = q
    BY Zenon, <1>1, <1>7 DEF CollectorTypes
  <1>9. \A n : Receipted(n) => Receipted(n)'
    BY Zenon DEF Receipted
  <1>10. \A n \in mail : n.uid \in Nat
    BY Zenon, <1>1, MailParts DEF CollectorTypes
  <1>11. source.exists /\ source.epoch = k.epoch /\ source.last = k.last
    BY Zenon, <1>1 DEF CallOK
  <1>12. ASSUME NEW n \in mail, n.epoch = k.epoch, n.uid = m.uid PROVE Receipted(n)'
    BY <1>4, <1>12, Zenon DEF Receipted
  <1>13. ASSUME NEW n \in mail, k.epoch \notin rolledBack, n.epoch = k.epoch, n.uid <= k.end, k.last < n.uid
         PROVE  n \in k.todo \/ Receipted(n)
    BY Zenon, <1>1, <1>13 DEF CallOK
  <1>14. NothingSkipped'
    <2> SUFFICES ASSUME NEW n \in mail, n.epoch = k.epoch, n.epoch \notin rolledBack, n.uid <= m.uid
                 PROVE  Receipted(n)'
      BY Zenon, <1>1, <1>11 DEF NothingSkipped
    <2>1. CASE n.uid <= k.last
      BY Zenon, <1>1, <1>9, <1>11, <2>1 DEF NothingSkipped
    <2>2. CASE n.uid = m.uid
      BY Zenon, <1>12, <2>2
    <2>3. CASE k.last < n.uid /\ n.uid < m.uid
      <3>1. n.uid <= k.end /\ n \notin k.todo
        BY <1>2, <1>3, <1>4, <1>10, <2>3
      <3>. QED
        BY Zenon, <1>9, <1>13, <2>3, <3>1
    <2>. QED
      BY <1>2, <1>4, <1>10, <2>1, <2>2, <2>3
  <1>15. MailBelowNext'
    <2>1. k.epoch \in Epochs /\ k.end < k.next /\ (k.epoch \notin rolledBack => k.next <= next[k.epoch])
      BY Zenon, <1>1 DEF CallOK
    <2>2. next[k.epoch] \in Nat
      BY <1>1, <2>1, CollectorAssumption DEF CollectorTypes
    <2>. QED
      BY <1>1, <1>2, <1>4, <1>11, <2>1, <2>2 DEF MailBelowNext
  <1>16. CallOK(c)'
    <2>1. \A n \in T : n.epoch = k.epoch /\ n.uid <= k.end
      BY Zenon, <1>1, <1>5 DEF CallOK
    <2>2. ASSUME NEW n \in mail, k.epoch \notin rolledBack, n.epoch = k.epoch, u < n.uid, n.uid <= k.end
          PROVE  n \in T \/ Receipted(n)'
      <3>1. k.last < n.uid \/ n.uid <= k.last
        BY <1>2, <1>10
      <3>2. CASE k.last < n.uid
        <4>1. n.uid # m.uid
          BY <1>4, <1>5, <1>10, <2>2
        <4>2. n \in k.todo \/ Receipted(n)
          BY Zenon, <1>13, <2>2, <3>2
        <4>. QED
          BY Zenon, <1>5, <1>9, <4>1, <4>2
      <3>3. CASE n.uid <= k.last
        BY Zenon, <1>1, <1>9, <1>11, <2>2, <3>3 DEF NothingSkipped
      <3>. QED
        BY Zenon, <3>1, <3>2, <3>3
    <2>3. k.epoch \in Epochs /\ k.end < k.next /\ (k.epoch \notin rolledBack => k.next <= next[k.epoch])
      BY Zenon, <1>1 DEF CallOK
    <2>4. /\ source'.exists /\ source'.epoch = k.epoch /\ source'.last = u
          /\ UNCHANGED <<next, mail, rolledBack>>
      BY Zenon, <1>1, <1>5, <1>11
    <2>5. /\ \A n \in q.todo : n.epoch = q.epoch /\ n.uid <= q.end
          /\ q.epoch \notin rolledBack' =>
               \A n \in mail' : n.epoch = q.epoch /\ q.last < n.uid /\ n.uid <= q.end =>
                   n \in q.todo \/ Receipted(n)'
      BY <1>6, <2>1, <2>2, <2>4, Zenon
    <2>6. /\ q.epoch \in Epochs /\ q.end < q.next
          /\ q.epoch \notin rolledBack' => q.next <= next'[q.epoch]
          /\ source'.exists /\ source'.epoch = q.epoch /\ source'.last = q.last
          /\ q.pc = "fetched"
      BY <1>6, <2>3, <2>4, Zenon
    <2>. QED
      BY Zenon, <1>8, <2>5, <2>6 DEF CallOK
  <1>. QED
    BY Zenon, <1>6, <1>7, <1>14, <1>15, <1>16

\* The counters after a receipt is added.
LEMMA ReceiptCharged ==
    ASSUME CollectorInv, NEW e \in Epochs, NEW u \in Nat, NEW o \in Outcomes,
           NEW r, r = [epoch |-> e, uid |-> u, outcome |-> o], FirstSeen(r),
           source.records < MaxRecords, source.bytes + Units(o) <= MaxBytes,
           receipts' = receipts \cup {r}, alerts' = alerts,
           source'.records = source.records + 1, source'.bytes = source.bytes + Units(o)
    PROVE  /\ ChargesAgree' /\ IsFiniteSet(receipts')
           /\ receipts' \subseteq [epoch : Epochs, uid : Nat, outcome : Outcomes]
  <1> DEFINE Imported(R) == {q \in R : q.outcome = "IMPORTED"}
  <1>1. CollectorTypes /\ ChargesAgree
    BY Zenon DEF CollectorInv
  <1>2. r.epoch = e /\ r.uid = u /\ r.outcome = o /\ r \in [epoch : Epochs, uid : Nat, outcome : Outcomes]
    BY Zenon
  <1>3. r \notin receipts
    BY Zenon DEF FirstSeen
  <1>4. IsFiniteSet(receipts) /\ receipts \subseteq [epoch : Epochs, uid : Nat, outcome : Outcomes]
    BY Zenon, <1>1 DEF CollectorTypes
  <1>5. IsFiniteSet(receipts') /\ Cardinality(receipts') = Cardinality(receipts) + 1
    BY Zenon, <1>3, <1>4, FS_AddElement
  <1>6. Cardinality(receipts) \in Nat /\ Cardinality(alerts) \in Nat
    BY Zenon, <1>1, FS_CardinalityType DEF CollectorTypes
  <1>7. source'.records = Cardinality(receipts') + Cardinality(alerts')
    <2>1. source.records = Cardinality(receipts) + Cardinality(alerts)
      BY Zenon, <1>1 DEF ChargesAgree
    <2>. QED
      BY <1>5, <1>6, <2>1
  <1>8. source'.records <= MaxRecords /\ source'.bytes <= MaxBytes
    BY <1>1, SourceParts, CollectorAssumption
  <1>9. IsFiniteSet(Imported(receipts)) /\ Cardinality(Imported(receipts)) \in Nat
    <2>1. Imported(receipts) \subseteq receipts
      BY Zenon
    <2>. HIDE DEF Imported
    <2>. QED
      BY Zenon, <1>4, <2>1, FS_Subset, FS_CardinalityType
  <1>10. source.bytes = Cardinality(Imported(receipts))
    BY <1>1, Zenon DEF ChargesAgree
  <1>11. source'.bytes = Cardinality(Imported(receipts'))
    <2>1. CASE o = "IMPORTED"
      <3>1. Imported(receipts') = Imported(receipts) \cup {r} /\ r \notin Imported(receipts)
        BY Zenon, <1>2, <1>3, <2>1
      <3>2. Units(o) = 1
        BY Zenon, <2>1 DEF Units
      <3>. HIDE DEF Imported
      <3>3. Cardinality(Imported(receipts) \cup {r}) = Cardinality(Imported(receipts)) + 1
        BY Zenon, <1>9, <3>1, FS_AddElement
      <3>. QED
        BY Zenon, <1>9, <1>10, <3>1, <3>2, <3>3
    <2>2. CASE o # "IMPORTED"
      <3>1. Imported(receipts') = Imported(receipts)
        BY Zenon, <1>2, <2>2
      <3>2. Units(o) = 0
        BY Zenon, <2>2 DEF Units
      <3>. HIDE DEF Imported
      <3>. QED
        BY <1>9, <1>10, <3>1, <3>2
    <2>. QED
      BY Zenon, <2>1, <2>2
  <1>12. ChargesAgree'
    BY Zenon, <1>7, <1>8, <1>11 DEF ChargesAgree
  <1>. QED
    BY Zenon, <1>2, <1>4, <1>5, <1>12

\* saveCollected: the receipt is new and fits, or is there already, or does not fit.
LEMMA SaveStep ==
    ASSUME CollectorInv, NEW c \in Collectors, SaveCollected(c)
    PROVE  CollectorInv'
  <1>0. PICK m : m = First(c)
    BY Zenon
  <1> DEFINE k == collector[c]
             r == [epoch |-> k.epoch, uid |-> m.uid, outcome |-> k.outcome]
             done == [k EXCEPT !.pc = "fetched", !.last = m.uid, !.todo = @ \ {m},
                               !.outcome = "none"]
             passed == [source EXCEPT !.last = m.uid]
             charged == [source EXCEPT !.last = m.uid, !.records = @ + 1,
                                       !.bytes = @ + Units(k.outcome)]
  <1>1. /\ UNCHANGED mailbox /\ alerts' = alerts /\ CollectorTypes /\ CallOK(c) /\ k.pc = "saving"
        /\ UNCHANGED <<epoch, next, mail, rolledBack>> /\ lock = c
        /\ MailBelowNext /\ SourceOK /\ NothingSkipped /\ ChargesAgree
    BY Zenon DEF SaveCollected, Connected, mailbox, CollectorInv
  <1>2. \/ /\ ~FirstSeen(r) /\ source' = passed /\ receipts' = receipts /\ lock' = lock
           /\ collector' = [collector EXCEPT ![c] = done]
        \/ /\ FirstSeen(r) /\ source.records < MaxRecords
           /\ source.bytes + Units(k.outcome) <= MaxBytes
           /\ source' = charged /\ receipts' = receipts \cup {r} /\ lock' = lock
           /\ collector' = [collector EXCEPT ![c] = done]
        \/ Finish(c) /\ source' = source /\ receipts' = receipts
    BY <1>0, Zenon DEF SaveCollected, Set
  <1>3. m \in k.todo /\ k.todo \in SUBSET Mail /\ k.outcome \in Outcomes /\ k.epoch \in Epochs
    BY Zenon, <1>0, <1>1, FirstIsLeast, CallParts DEF CallOK
  <1>4. m.uid \in Nat /\ m.epoch = k.epoch /\ source.exists
    BY Zenon, <1>1, <1>3, MailParts DEF CallOK
  <1>5. source \in SourceRecords
    BY Zenon, <1>1 DEF CollectorTypes
  <1>6. \A d \in Collectors : d # c => (lock = d => lock = d /\ source' = source)
    BY Zenon, <1>1
  <1>7. CASE /\ ~FirstSeen(r) /\ source' = passed /\ receipts' = receipts /\ lock' = lock
             /\ collector' = [collector EXCEPT ![c] = done]
    <2>1. /\ passed \in SourceRecords /\ passed.exists = source.exists
          /\ passed.epoch = source.epoch /\ passed.last = m.uid
          /\ passed.records = source.records /\ passed.bytes = source.bytes
      BY Zenon, <1>4, <1>5 DEF SourceRecords
    <2>. HIDE DEF passed
    <2>2. Receipted(m)'
      <3>1. PICK p \in receipts : p.epoch = r.epoch /\ p.uid = r.uid
        BY <1>7, Zenon DEF FirstSeen
      <3>2. r.epoch = m.epoch /\ r.uid = m.uid
        BY Zenon, <1>4
      <3>. QED
        BY <1>7, <3>1, <3>2, Zenon DEF Receipted
    <2>3. /\ source'.exists /\ source'.epoch = source.epoch /\ source'.last = m.uid
          /\ receipts \subseteq receipts'
      BY Zenon, <1>4, <1>7, <2>1
    <2>4. /\ CallOK(c)' /\ MailBelowNext' /\ NothingSkipped'
          /\ \E q \in CallRecords : collector' = [collector EXCEPT ![c] = q]
      BY <1>0, <1>1, <1>7, <2>2, <2>3, SavedOn, Zenon
    <2>5. ChargesAgree'
      BY <1>1, <1>7, <2>1, Zenon DEF ChargesAgree
    <2>6. SourceOK'
      BY <1>1, <1>4, <1>7, <2>1, Zenon DEF SourceOK
    <2>7. PICK q \in CallRecords : collector' = [collector EXCEPT ![c] = q]
      BY Zenon, <2>4
    <2>8. /\ receipts' \subseteq [epoch : Epochs, uid : Nat, outcome : Outcomes]
          /\ IsFiniteSet(receipts') /\ IsFiniteSet(alerts') /\ source' \in SourceRecords
          /\ lock' \in Collectors \cup {NoCollector} /\ lock' = lock
      BY Zenon, <1>1, <1>7, <2>1 DEF CollectorTypes
    <2>. HIDE DEF done, r, k
    <2>. QED
      BY <1>1, <1>6, <2>3, <2>4, <2>5, <2>6, <2>7, <2>8, CallStep, Zenon
  <1>8. CASE /\ FirstSeen(r) /\ source.records < MaxRecords
             /\ source.bytes + Units(k.outcome) <= MaxBytes
             /\ source' = charged /\ receipts' = receipts \cup {r} /\ lock' = lock
             /\ collector' = [collector EXCEPT ![c] = done]
    <2>1. Units(k.outcome) \in Nat
      BY Zenon DEF Units
    <2>2. /\ charged \in SourceRecords /\ charged.exists = source.exists
          /\ charged.epoch = source.epoch /\ charged.last = m.uid
          /\ charged.records = source.records + 1 /\ charged.bytes = source.bytes + Units(k.outcome)
      <3>1. m.uid \in Nat /\ source.records + 1 \in Nat /\ source.bytes + Units(k.outcome) \in Nat
        BY <1>1, <1>4, <2>1, SourceParts
      <3>2. PICK u \in Nat, n \in Nat, b \in Nat :
              u = m.uid /\ n = source.records + 1 /\ b = source.bytes + Units(k.outcome)
        BY Zenon, <3>1
      <3> DEFINE s == [source EXCEPT !.last = u, !.records = n, !.bytes = b]
      <3>3. charged = s
        BY <3>2, Zenon
      <3>4. /\ s \in SourceRecords /\ s.exists = source.exists /\ s.epoch = source.epoch
            /\ s.last = u /\ s.records = n /\ s.bytes = b
        BY Zenon, <1>5 DEF SourceRecords
      <3>. HIDE DEF s, charged
      <3>. QED
        BY <3>2, <3>3, <3>4, Zenon
    <2>. HIDE DEF charged
    <2>3. Receipted(m)'
      <3>1. r \in receipts' /\ r.epoch = m.epoch /\ r.uid = m.uid
        BY Zenon, <1>4, <1>8
      <3>. QED
        BY <3>1, Zenon DEF Receipted
    <2>4. /\ source'.exists /\ source'.epoch = source.epoch /\ source'.last = m.uid
          /\ source'.records = source.records + 1 /\ source'.bytes = source.bytes + Units(k.outcome)
          /\ receipts \subseteq receipts'
      BY Zenon, <1>4, <1>8, <2>2
    <2>5. /\ CallOK(c)' /\ MailBelowNext' /\ NothingSkipped'
          /\ \E q \in CallRecords : collector' = [collector EXCEPT ![c] = q]
      BY <1>0, <1>1, <1>8, <2>3, <2>4, SavedOn, Zenon
    <2>6. /\ ChargesAgree' /\ IsFiniteSet(receipts')
          /\ receipts' \subseteq [epoch : Epochs, uid : Nat, outcome : Outcomes]
      BY <1>1, <1>3, <1>4, <1>8, <2>4, ReceiptCharged, Zenon
    <2>7. SourceOK'
      BY <1>1, <1>4, <1>8, <2>2, Zenon DEF SourceOK
    <2>8. PICK q \in CallRecords : collector' = [collector EXCEPT ![c] = q]
      BY Zenon, <2>5
    <2>9. /\ IsFiniteSet(alerts') /\ source' \in SourceRecords
          /\ lock' \in Collectors \cup {NoCollector} /\ lock' = lock
      BY Zenon, <1>1, <1>8, <2>2 DEF CollectorTypes
    <2>. HIDE DEF done, r, k
    <2>. QED
      BY <1>1, <1>6, <2>4, <2>5, <2>6, <2>7, <2>8, <2>9, CallStep, Zenon
  <1>9. CASE Finish(c) /\ source' = source /\ receipts' = receipts
    BY Zenon, <1>1, <1>9, FinishStep DEF records
  <1>. QED
    BY Zenon, <1>2, <1>7, <1>8, <1>9

\* The window is done: the checkpoint moves to its end.
LEMMA WindowStep ==
    ASSUME CollectorInv, NEW c \in Collectors, WindowDone(c)
    PROVE  CollectorInv'
  <1> DEFINE k == collector[c]
             moved == [source EXCEPT !.last = k.end]
  <1>1. /\ Finish(c) /\ UNCHANGED <<mailbox, records>> /\ CollectorTypes /\ CallOK(c)
        /\ k.pc = "fetched" /\ k.todo = {} /\ lock = c /\ source' = moved
        /\ UNCHANGED <<epoch, next, mail, rolledBack>> /\ UNCHANGED <<receipts, alerts>>
        /\ MailBelowNext /\ SourceOK /\ NothingSkipped /\ ChargesAgree
    BY Zenon DEF WindowDone, Connected, mailbox, records, CollectorInv
  <1>2. k.end \in Nat /\ k.next \in Nat /\ k.last \in Nat
    BY Zenon, <1>1, CallParts
  <1>3. /\ moved \in SourceRecords /\ moved.exists = source.exists /\ moved.epoch = source.epoch
        /\ moved.last = k.end /\ moved.records = source.records /\ moved.bytes = source.bytes
    BY Zenon, <1>1, <1>2 DEF CollectorTypes, SourceRecords
  <1>. HIDE DEF moved
  <1>4. source.exists /\ source.epoch = k.epoch /\ source.last = k.last /\ k.epoch \in Epochs
    BY Zenon, <1>1 DEF CallOK
  <1>5. SourceOK'
    BY <1>1, <1>3, <1>4, Zenon DEF SourceOK
  <1>6. ChargesAgree'
    BY <1>1, <1>3, Zenon DEF ChargesAgree
  <1>7. MailBelowNext'
    <2>1. k.end < k.next /\ (k.epoch \notin rolledBack => k.next <= next[k.epoch])
      BY Zenon, <1>1 DEF CallOK
    <2>2. next[k.epoch] \in Nat
      BY <1>1, <1>4, CollectorAssumption DEF CollectorTypes
    <2>. QED
      BY <1>1, <1>2, <1>3, <1>4, <2>1, <2>2 DEF MailBelowNext
  <1>8. NothingSkipped'
    <2> SUFFICES ASSUME NEW n \in mail, n.epoch = k.epoch, n.epoch \notin rolledBack, n.uid <= k.end
                 PROVE  Receipted(n)
      BY Zenon, <1>1, <1>3, <1>4 DEF NothingSkipped, Receipted
    <2>1. n.uid \in Nat
      BY Zenon, <1>1, MailParts DEF CollectorTypes
    <2>2. CASE n.uid <= k.last
      BY Zenon, <1>1, <1>4, <2>2 DEF NothingSkipped
    <2>3. CASE k.last < n.uid
      BY Zenon, <1>1, <2>3 DEF CallOK
    <2>. QED
      BY <1>2, <2>1, <2>2, <2>3
  <1>9. /\ receipts \subseteq receipts' /\ receipts' \subseteq [epoch : Epochs, uid : Nat, outcome : Outcomes]
        /\ IsFiniteSet(receipts') /\ IsFiniteSet(alerts') /\ source' \in SourceRecords
    BY Zenon, <1>1, <1>3 DEF CollectorTypes
  <1>10. \A d \in Collectors : d # c => (lock' = d => lock = d /\ source' = source)
    BY Zenon, <1>1, FinishParts, CollectorAssumption
  <1>. QED
    BY <1>1, <1>5, <1>6, <1>7, <1>8, <1>9, <1>10, FinishParts, CallStep

\* Before the first call there is no source and nothing to have skipped.
LEMMA CollectorStart == CollectorInit => CollectorInv
  <1> SUFFICES ASSUME CollectorInit PROVE CollectorInv
    BY Zenon
  <1>1. /\ NoSource \in SourceRecords /\ ~NoSource.exists /\ NoSource.epoch = 0 /\ NoSource.last = 0
        /\ NoSource.records = 0 /\ NoSource.bytes = 0
    BY Zenon DEF NoSource, SourceRecords
  <1>2. CollectorTypes
    <2>1. 1 \in Epochs /\ 1 \in 1 .. MaxUid + 1
      BY CollectorAssumption DEF Epochs
    <2>2. collector \in [Collectors -> CallRecords]
      BY Zenon, IdleParts DEF CollectorInit
    <2>. QED
      BY Zenon, <1>1, <2>1, <2>2, FS_EmptySet DEF CollectorInit, CollectorTypes
  <1>3. MailBelowNext /\ SourceOK /\ NothingSkipped
    BY Zenon, <1>1 DEF CollectorInit, MailBelowNext, SourceOK, NothingSkipped
  <1>4. \A c \in Collectors : CallOK(c)
    BY Zenon, IdleParts DEF CollectorInit, CallOK
  <1>5. ChargesAgree
    <2>1. {r \in receipts : r.outcome = "IMPORTED"} = {}
      BY Zenon DEF CollectorInit
    <2>. QED
      BY <1>1, <2>1, FS_EmptySet, CollectorAssumption DEF CollectorInit, ChargesAgree
  <1>. QED
    BY <1>2, <1>3, <1>4, <1>5, Zenon DEF CollectorInv

\* Every step keeps the invariant.
LEMMA CollectorSteps == CollectorInv /\ [CollectorNext]_collectorVars => CollectorInv'
  <1> SUFFICES ASSUME CollectorInv, [CollectorNext]_collectorVars PROVE CollectorInv'
    BY Zenon
  <1>1. CASE UNCHANGED collectorVars
    BY Zenon, <1>1 DEF collectorVars, mailbox, records, CollectorInv, CollectorTypes, MailBelowNext,
               SourceOK, CallOK, NothingSkipped, ChargesAgree, Receipted
  <1>2. CASE \/ \E kind \in Kinds : Arrive(kind)
             \/ \E m \in mail : Expunge(m)
             \/ \E e \in Epochs : ReplaceFolder(e)
             \/ \E n \in 1 .. MaxUid : RollBack(n)
    BY Zenon, <1>2, MailboxStep
  <1>3. ASSUME NEW c \in Collectors,
               \/ \E accept \in Epochs \cup {0} : Start(c, accept)
               \/ Step(c) \/ LockIsLost(c) \/ Fails(c)
        PROVE  CollectorInv'
    BY <1>3, BeginStep, InitializeStep, AlertStep, MetadataStep, SaveStep, WindowStep, Zenon DEF Step
  <1>. QED
    BY <1>1, <1>2, <1>3, Zenon DEF CollectorNext

\* The checkpoint never passes mail without a receipt, whichever call of Collect was
\* cut short and whatever the server does short of taking back UIDs.
THEOREM NoMailSkipped == CollectorSpec => []NothingSkipped
  <1>1. CollectorInv => NothingSkipped
    BY Zenon DEF CollectorInv
  <1>. QED
    BY <1>1, CollectorStart, CollectorSteps, PTL DEF CollectorSpec

\* The counters of a source are the number and the size of what is stored for it, and
\* stay within its quota; nothing is charged twice.
THEOREM SourceCharges == CollectorSpec => []ChargesAgree
  <1>1. CollectorInv => ChargesAgree
    BY Zenon DEF CollectorInv
  <1>. QED
    BY <1>1, CollectorStart, CollectorSteps, PTL DEF CollectorSpec

-----------------------------------------------------------------------------
(***************************************************************************)
(* The publication.  A transaction checks and computes whom to notify in   *)
(* one step and commits in another; the fence makes both see one state.    *)
(***************************************************************************)
TransactionRecords ==
    [pc : {"idle", "begun", "fenced", "written"},
     op : {"none", "Import", "Dismiss", "Link", "Review"},
     report : Reports \cup {Nobody}, action : Actions \cup {"none"},
     expected : 0 .. 1, notify : SUBSET Reports]

\* A transaction that works has its report; behind the fence the tables stand still,
\* so that what it checked and whom it is going to notify are still right when it
\* commits.
Checked(t) ==
    LET k == tx[t] IN
    /\ k.pc # "idle" => k.op # "none" /\ k.report \in Reports /\ (k.op = "Review" => k.action \in Actions)
    /\ k.pc # "idle" /\ k.op = "Dismiss" => k.report \in reports
    /\ k.pc \in {"fenced", "written"} => fence = t
    /\ k.pc = "written" =>
        /\ k.op = "Import" => k.report \in reports \/ k.notify = Invalidated("Import", k.report)
        /\ k.op = "Dismiss" => k.notify = Invalidated("Dismiss", k.report)
        /\ k.op = "Link" => MayLink(k.report) /\ k.notify = {k.report}
        /\ k.op = "Review" =>
            MayReview(k.report, k.action, k.expected) /\ k.notify = {k.report}

PublicationInv == TypeOK /\ \A t \in Transactions : Checked(t)

\* Nothing is stored before the first import.
LEMMA PublicationInitially == Init => PublicationInv
  <1> SUFFICES ASSUME Init PROVE PublicationInv
    BY Zenon
  <1>1. NoTx \in TransactionRecords
    BY DEF NoTx, TransactionRecords
  <1>2. TypeOK
    BY <1>1 DEF Init, TypeOK, TransactionRecords
  <1>3. ASSUME NEW t \in Transactions PROVE Checked(t)
    <2>1. tx[t].pc = "idle"
      BY Zenon DEF Init, NoTx
    <2>. QED
      BY Zenon, <2>1 DEF Checked
  <1>. QED
    BY Zenon, <1>2, <1>3 DEF PublicationInv

\* What a transaction has checked stays right in the steps of others that leave the
\* tables and its fence alone.
LEMMA CheckedStays ==
    ASSUME PublicationInv, UNCHANGED tables, NEW u \in Transactions, tx'[u] = tx[u],
           fence' = fence \/ fence # u
    PROVE  Checked(u)'
  <1>1. Checked(u)
    BY Zenon DEF PublicationInv
  <1>2. tx[u].pc \in {"fenced", "written"} => fence = u /\ fence' = u
    BY Zenon, <1>1 DEF Checked
  <1>3. /\ \A op, r : Invalidated(op, r)' = Invalidated(op, r)
        /\ \A r : MayLink(r)' <=> MayLink(r)
        /\ \A r, action, expected : MayReview(r, action, expected)' <=> MayReview(r, action, expected)
    <2>1. \A r : Projection(r)' = Projection(r) /\ (Conflicting(r)' <=> Conflicting(r))
                  /\ \A a : Reviewed(r, a)' <=> Reviewed(r, a)
      BY Zenon DEF tables, Projection, Conflicting, Reviewed
    <2>2. \A op, r : Invalidated(op, r)' = Invalidated(op, r)
      BY Zenon DEF tables, Invalidated
    <2>3. \A r : MayLink(r)' <=> MayLink(r)
      BY Zenon, <2>1 DEF tables, MayLink
    <2>4. \A r, action, expected : MayReview(r, action, expected)' <=> MayReview(r, action, expected)
      BY Zenon, <2>1 DEF tables, MayReview
    <2>. QED
      BY Zenon, <2>2, <2>3, <2>4
  <1>. QED
    BY Zenon, <1>1, <1>2, <1>3 DEF Checked, tables

\* The parts of a transaction.
LEMMA TransactionParts ==
    ASSUME NEW k \in TransactionRecords
    PROVE  /\ k.report \in Reports \cup {Nobody} /\ k.action \in Actions \cup {"none"}
           /\ k.expected \in 0 .. 1 /\ k.notify \in SUBSET Reports
           /\ k.op \in {"none", "Import", "Dismiss", "Link", "Review"}
           /\ k.pc \in {"idle", "begun", "fenced", "written"}
  BY Zenon DEF TransactionRecords

\* Begin, TakeFence and an end without commit.
LEMMA QuietPublication ==
    ASSUME PublicationInv, NEW t \in Transactions,
           \/ \E r \in Reports : \E op \in {"Import", "Dismiss", "Link"} : Begin(t, op, r, "none", 0)
           \/ \E r \in Reports : \E action \in Actions, expected \in 0 .. 1 :
                  Begin(t, "Review", r, action, expected)
           \/ TakeFence(t) \/ Aborts(t)
    PROVE  PublicationInv' /\ UNCHANGED tables
  <1> USE DEF PublicationInv
  <1>1. tx \in [Transactions -> TransactionRecords] /\ tx[t] \in TransactionRecords
    BY Zenon DEF TypeOK, TransactionRecords
  <1>2. CASE \E r \in Reports, op \in {"Import", "Dismiss", "Link", "Review"},
                action \in Actions \cup {"none"}, expected \in 0 .. 1 :
                Begin(t, op, r, action, expected) /\ (op = "Review" => action \in Actions)
    <2>1. PICK r \in Reports, op \in {"Import", "Dismiss", "Link", "Review"},
                action \in Actions \cup {"none"}, expected \in 0 .. 1 :
                Begin(t, op, r, action, expected) /\ (op = "Review" => action \in Actions)
      BY Zenon, <1>2
    <2> DEFINE k == [NoTx EXCEPT !.pc = "begun", !.op = op, !.report = r, !.action = action,
                                 !.expected = expected]
    <2>2. tx' = [tx EXCEPT ![t] = k] /\ UNCHANGED <<tables, fence>>
      BY Zenon, <2>1 DEF Begin
    <2>3. k \in TransactionRecords
      BY Zenon DEF TransactionRecords, NoTx
    <2>4. k.pc = "begun" /\ k.op = op /\ k.report = r /\ k.action = action
      BY Zenon DEF NoTx
    <2> HIDE DEF k
    <2>5. tx' \in [Transactions -> TransactionRecords] /\ tx'[t] = k /\ \A u \in Transactions \ {t} : tx'[u] = tx[u]
      BY Zenon, <1>1, <2>2, <2>3
    <2>6. TypeOK'
      BY Zenon, <2>2, <2>5 DEF TypeOK, TransactionRecords, tables
    <2>7. Checked(t)'
      BY Zenon, <2>1, <2>2, <2>4, <2>5 DEF Checked, Begin, tables
    <2>8. \A u \in Transactions \ {t} : Checked(u)'
      BY Zenon, <2>2, <2>5, CheckedStays
    <2>. QED
      BY Zenon, <2>2, <2>6, <2>7, <2>8
  <1>3. CASE TakeFence(t)
    <2> DEFINE k == [tx[t] EXCEPT !.pc = "fenced"]
    <2>1. tx' = [tx EXCEPT ![t] = k] /\ UNCHANGED tables /\ fence' = t /\ fence = Nobody
      BY Zenon, <1>3 DEF TakeFence, FenceFree
    <2>2. k \in TransactionRecords /\ k.pc = "fenced" /\ k.op = tx[t].op /\ k.report = tx[t].report
                      /\ k.action = tx[t].action
      BY Zenon, <1>1 DEF TransactionRecords
    <2> HIDE DEF k
    <2>3. tx' \in [Transactions -> TransactionRecords] /\ tx'[t] = k /\ \A u \in Transactions \ {t} : tx'[u] = tx[u]
      BY Zenon, <1>1, <2>1, <2>2
    <2>4. TypeOK'
      BY Zenon, <2>1, <2>3 DEF TypeOK, TransactionRecords, tables
    <2>5. Checked(t)'
      BY Zenon, <1>3, <2>1, <2>2, <2>3 DEF Checked, TakeFence, tables
    <2>6. \A u \in Transactions \ {t} : Checked(u)'
      BY Zenon, <2>1, <2>3, CheckedStays, PublicationAssumption
    <2>. QED
      BY Zenon, <2>1, <2>4, <2>5, <2>6
  <1>4. CASE Aborts(t)
    <2>1. tx' = [tx EXCEPT ![t] = NoTx] /\ UNCHANGED tables
          /\ fence' = IF fence = t THEN Nobody ELSE fence
      BY Zenon, <1>4 DEF Aborts, Leave
    <2>2. NoTx \in TransactionRecords /\ NoTx.pc = "idle"
      BY DEF TransactionRecords, NoTx
    <2>3. tx' \in [Transactions -> TransactionRecords] /\ tx'[t] = NoTx
          /\ \A u \in Transactions \ {t} : tx'[u] = tx[u]
      BY Zenon, <1>1, <2>1, <2>2
    <2>4. TypeOK'
      BY Zenon, <2>1, <2>3 DEF TypeOK, TransactionRecords, tables
    <2>5. Checked(t)'
      BY Zenon, <2>2, <2>3 DEF Checked
    <2>6. \A u \in Transactions \ {t} : Checked(u)'
      BY Zenon, <2>1, <2>3, CheckedStays, PublicationAssumption
    <2>. QED
      BY Zenon, <2>1, <2>4, <2>5, <2>6
  <1>5. 0 \in 0 .. 1
    OBVIOUS
  <1>. QED
    BY Zenon, <1>2, <1>3, <1>4, <1>5

\* Write: behind the fence, before the commit.
LEMMA WriteKeeps ==
    ASSUME PublicationInv, NEW t \in Transactions, Write(t)
    PROVE  PublicationInv' /\ UNCHANGED tables
  <1> USE DEF PublicationInv
  <1>1. tx \in [Transactions -> TransactionRecords] /\ tx[t] \in TransactionRecords /\ Checked(t)
    BY Zenon DEF TypeOK, TransactionRecords
  <1>2. PICK k : k = tx[t]
    BY Zenon
  <1>3. PICK N : N = IF k.op \in {"Link", "Review"} THEN {k.report}
                     ELSE IF k.op = "Import" /\ k.report \in reports THEN {}
                     ELSE Invalidated(k.op, k.report)
    BY Zenon
  <1> DEFINE q == [k EXCEPT !.pc = "written", !.notify = N]
  <1>4. /\ k.pc = "fenced" /\ tx' = [tx EXCEPT ![t] = q] /\ UNCHANGED <<tables, fence>>
        /\ \/ k.op = "Import"
           \/ k.op = "Dismiss" /\ k.report \notin dismissed
           \/ k.op = "Link" /\ MayLink(k.report)
           \/ k.op = "Review" /\ MayReview(k.report, k.action, k.expected)
    BY Zenon, <1>1, <1>2, <1>3 DEF Write, TransactionRecords
  <1>5. N \in SUBSET Reports
    BY Zenon, <1>1, <1>2, <1>3, <1>4 DEF Checked, Invalidated, TypeOK
  <1>6. /\ q \in TransactionRecords /\ q.pc = "written" /\ q.op = k.op /\ q.report = k.report
        /\ q.action = k.action /\ q.expected = k.expected /\ q.notify = N
    BY Zenon, <1>1, <1>2, <1>5 DEF TransactionRecords
  <1> HIDE DEF q
  <1>7. tx' \in [Transactions -> TransactionRecords] /\ tx'[t] = q /\ \A u \in Transactions \ {t} : tx'[u] = tx[u]
    BY Zenon, <1>1, <1>4, <1>6
  <1>8. TypeOK'
    BY Zenon, <1>4, <1>7 DEF TypeOK, TransactionRecords, tables
  <1>9. \A u \in Transactions \ {t} : Checked(u)'
    BY Zenon, <1>4, <1>7, CheckedStays
  <1>10. /\ q.op = "Import" => q.report \in reports \/ q.notify = Invalidated("Import", q.report)
         /\ q.op = "Dismiss" => q.notify = Invalidated("Dismiss", q.report)
         /\ q.op = "Link" => MayLink(q.report) /\ q.notify = {q.report}
         /\ q.op = "Review" =>
                MayReview(q.report, q.action, q.expected) /\ q.notify = {q.report}
    <2>1. N = IF k.op \in {"Link", "Review"} THEN {k.report}
              ELSE IF k.op = "Import" /\ k.report \in reports THEN {}
              ELSE Invalidated(k.op, k.report)
      BY Zenon, <1>3
    <2>. QED
      BY Zenon, <1>4, <1>6, <2>1
  <1>11. q.report \in Reports /\ (q.op = "Review" => q.action \in Actions)
         /\ (q.op = "Dismiss" => q.report \in reports) /\ fence = t
    BY Zenon, <1>1, <1>2, <1>4, <1>6 DEF Checked
  <1>12. Checked(t)'
    BY Zenon, <1>4, <1>6, <1>7, <1>10, <1>11 DEF Checked, tables, Invalidated, MayLink,
       MayReview, Conflicting, Projection, Reviewed
  <1>. QED
    BY Zenon, <1>4, <1>8, <1>9, <1>12

\* The steps of ChangesAreAnnounced and DecisionsAreInformed.
Announced ==
    \A r \in links' : r \notin links \/ Projection(r)' # Projection(r) => events'[r] > events[r]
Informed ==
    \A r \in Reports : reviews'[r] # reviews[r] =>
        \E t \in Transactions :
            /\ tx[t].report = r /\ tx[t].expected = Len(reviews[r])
            /\ tx[t].action = "CONFIRM_FAILURE" =>
                Projection(r) = "PENDING_REVIEW" /\ Content[r] # "other"

\* The reviews of a link: one, or a confirmation and its withdrawal.
LEMMA ReviewAppends ==
    ASSUME TypeOK, NEW r \in Reports, NEW a \in Actions, NEW n \in 0 .. 1, MayReview(r, a, n)
    PROVE  Append(reviews[r], a) \in {<<"CONFIRM_FAILURE">>, <<"WITHDRAW">>,
                                      <<"CONFIRM_FAILURE", "WITHDRAW">>}
  <1>1. reviews[r] \in {<<>>, <<"CONFIRM_FAILURE">>, <<"WITHDRAW">>, <<"CONFIRM_FAILURE", "WITHDRAW">>}
    BY Zenon DEF TypeOK
  <1>2. Len(reviews[r]) = n /\ (n = 1 => a = "WITHDRAW" /\ ~Reviewed(r, "WITHDRAW"))
    BY Zenon DEF MayReview
  <1>3. CASE reviews[r] = <<>>
    BY <1>3 DEF Actions
  <1>4. CASE reviews[r] = <<"CONFIRM_FAILURE">>
    <2>1. a = "WITHDRAW"
      BY Zenon, <1>2, <1>4
    <2>2. Append(<<"CONFIRM_FAILURE">>, "WITHDRAW") = <<"CONFIRM_FAILURE", "WITHDRAW">>
      <3> DEFINE long == Append(<<"CONFIRM_FAILURE">>, "WITHDRAW")
                 pair == <<"CONFIRM_FAILURE", "WITHDRAW">>
      <3>1. /\ long \in Seq(Actions) /\ Len(long) = 2
            /\ long[1] = "CONFIRM_FAILURE" /\ long[2] = "WITHDRAW"
        <4>1. <<"CONFIRM_FAILURE">> \in Seq(Actions) /\ "WITHDRAW" \in Actions
          BY DEF Actions
        <4>2. Len(<<"CONFIRM_FAILURE">>) = 1 /\ <<"CONFIRM_FAILURE">>[1] = "CONFIRM_FAILURE"
          BY Zenon
        <4>. QED
          BY <4>1, <4>2
      <3>2. /\ pair \in Seq(Actions) /\ Len(pair) = 2
            /\ pair[1] = "CONFIRM_FAILURE" /\ pair[2] = "WITHDRAW"
        BY DEF Actions
      <3> HIDE DEF long, pair
      <3>4. long = pair
        BY <3>1, <3>2
      <3>. QED
        BY Zenon, <3>4 DEF long, pair
    <2>. QED
      BY Zenon, <1>4, <2>1, <2>2
  <1>5. reviews[r] # <<"WITHDRAW">>
    BY <1>2 DEF Reviewed
  <1>6. reviews[r] # <<"CONFIRM_FAILURE", "WITHDRAW">>
    <2>1. Len(<<"CONFIRM_FAILURE", "WITHDRAW">>) = 2
      BY Zenon
    <2>2. n # 2
      OBVIOUS
    <2>. QED
      BY Zenon, <1>2, <2>1, <2>2
  <1>. QED
    BY Zenon, <1>1, <1>3, <1>4, <1>5, <1>6

\* Commit: what the transaction found behind the fence is how it still is.
LEMMA CommitKeeps ==
    ASSUME PublicationInv, NEW t \in Transactions, Commit(t)
    PROVE  PublicationInv' /\ Announced /\ Informed
  <1> USE DEF PublicationInv
  <1>1. tx \in [Transactions -> TransactionRecords] /\ tx[t] \in TransactionRecords /\ Checked(t)
    BY Zenon DEF TypeOK, TransactionRecords
  <1>2. PICK k : k = tx[t]
    BY Zenon
  <1>3. /\ k \in TransactionRecords /\ k.pc = "written" /\ k.report \in Reports /\ fence = t
        /\ k.notify \in SUBSET Reports /\ k.expected \in 0 .. 1
        /\ k.op \in {"Import", "Dismiss", "Link", "Review"}
    BY Zenon, <1>1, <1>2, TransactionParts DEF Checked, Commit
  <1>4. /\ k.op = "Import" => k.report \in reports \/ k.notify = Invalidated("Import", k.report)
        /\ k.op = "Dismiss" => k.report \in reports /\ k.notify = Invalidated("Dismiss", k.report)
        /\ k.op = "Link" => MayLink(k.report) /\ k.notify = {k.report}
        /\ k.op = "Review" => /\ MayReview(k.report, k.action, k.expected)
                              /\ k.notify = {k.report} /\ k.action \in Actions
    BY Zenon, <1>1, <1>2, <1>3 DEF Checked
  <1>5. /\ reports' = IF k.op = "Import" THEN reports \cup {k.report} ELSE reports
        /\ dismissed' = IF k.op = "Dismiss" THEN dismissed \cup {k.report} ELSE dismissed
        /\ links' = IF k.op = "Link" THEN links \cup {k.report} ELSE links
        /\ reviews' = IF k.op = "Review"
                      THEN [reviews EXCEPT ![k.report] = Append(reviews[k.report], k.action)]
                      ELSE reviews
        /\ events' = [l \in Reports |-> events[l] + (IF l \in k.notify THEN 1 ELSE 0)]
        /\ tx' = [tx EXCEPT ![t] = NoTx] /\ fence' = Nobody
    BY Zenon, <1>2, <1>3 DEF Commit, Leave
  <1>6. NoTx \in TransactionRecords /\ NoTx.pc = "idle"
    BY DEF TransactionRecords, NoTx
  <1>7. tx' \in [Transactions -> TransactionRecords] /\ tx'[t] = NoTx /\ \A u \in Transactions \ {t} : tx'[u] = tx[u]
    BY Zenon, <1>1, <1>5, <1>6
  <1>8. reports \subseteq reports' /\ reports' \subseteq Reports
    BY Zenon, <1>3, <1>5 DEF TypeOK
  <1>9. \A u \in Transactions : Checked(u)'
    <2>1. Checked(t)'
      BY Zenon, <1>6, <1>7 DEF Checked
    <2>2. ASSUME NEW u \in Transactions \ {t} PROVE Checked(u)'
      <3>1. Checked(u) /\ tx[u].pc \notin {"fenced", "written"}
        BY Zenon, <1>3 DEF Checked
      <3>. QED
        BY Zenon, <3>1, <1>7, <1>8 DEF Checked
    <2>. QED
      BY Zenon, <2>1, <2>2
  <1>10. dismissed' \subseteq reports' /\ links' \subseteq reports'
    BY Zenon, <1>4, <1>5, <1>8 DEF TypeOK, MayLink
  <1>11. reviews' \in [Reports -> {<<>>, <<"CONFIRM_FAILURE">>, <<"WITHDRAW">>,
                                   <<"CONFIRM_FAILURE", "WITHDRAW">>}]
    <2>1. CASE k.op = "Review"
      <3>1. Append(reviews[k.report], k.action) \in {<<"CONFIRM_FAILURE">>, <<"WITHDRAW">>,
                                                     <<"CONFIRM_FAILURE", "WITHDRAW">>}
        BY Zenon, <1>3, <1>4, <2>1, ReviewAppends
      <3>. QED
        BY Zenon, <1>3, <1>5, <2>1, <3>1 DEF TypeOK
    <2>. QED
      BY Zenon, <1>5, <2>1 DEF TypeOK
  <1>12. /\ events' \in [Reports -> Nat]
         /\ \A l \in k.notify : l \in Reports /\ events'[l] > events[l]
    <2>1. events \in [Reports -> Nat]
      BY Zenon DEF TypeOK
    <2>. QED
      BY <1>3, <1>5, <2>1
  <1>13. TypeOK'
    BY Zenon, <1>5, <1>7, <1>8, <1>10, <1>11, <1>12 DEF TypeOK, TransactionRecords
  <1>14. Announced
    <2> SUFFICES ASSUME NEW r \in links', r \notin k.notify
                 PROVE  r \in links /\ Projection(r)' = Projection(r)
      BY Zenon, <1>12 DEF Announced
    <2>1. r \in links
      BY Zenon, <1>4, <1>5
    <2>2. r # k.report \/ k.op = "Import"
      BY Zenon, <1>3, <1>4, <2>1, <1>5 DEF Invalidated, MayLink
    <2>3. Conflicting(r)' <=> Conflicting(r)
      BY Zenon, <1>4, <1>5, <2>1 DEF Invalidated, Conflicting
    <2>4. r \in dismissed' <=> r \in dismissed
      BY Zenon, <1>5, <2>2
    <2>5. reviews'[r] = reviews[r]
      BY Zenon, <1>3, <1>5, <2>1, <2>2 DEF TypeOK
    <2>. QED
      BY Zenon, <2>1, <2>3, <2>4, <2>5 DEF Projection, Reviewed
  <1>15. Informed
    <2> SUFFICES ASSUME NEW r \in Reports, reviews'[r] # reviews[r]
                 PROVE  /\ tx[t].report = r /\ tx[t].expected = Len(reviews[r])
                        /\ tx[t].action = "CONFIRM_FAILURE" =>
                             Projection(r) = "PENDING_REVIEW" /\ Content[r] # "other"
      BY Zenon DEF Informed
    <2>1. k.op = "Review" /\ k.report = r
      BY Zenon, <1>3, <1>5 DEF TypeOK
    <2>. QED
      BY Zenon, <1>2, <1>4, <2>1 DEF MayReview
  <1>. QED
    BY Zenon, <1>9, <1>13, <1>14, <1>15

\* Every step keeps the invariant and is a step of the two properties.
LEMMA PublicationStep ==
    PublicationInv /\ [Next]_vars => PublicationInv' /\ (vars' = vars \/ (Announced /\ Informed))
  <1> SUFFICES ASSUME PublicationInv, [Next]_vars
               PROVE  PublicationInv' /\ (vars' = vars \/ (Announced /\ Informed))
    BY Zenon
  <1>1. UNCHANGED tables => Announced /\ Informed
    BY Zenon DEF tables, Announced, Informed, Projection, Conflicting, Reviewed
  <1>2. CASE UNCHANGED vars
    <2>1. TypeOK'
      BY Zenon, <1>2 DEF vars, tables, PublicationInv, TypeOK
    <2>2. \A u \in Transactions : Checked(u)'
      BY Zenon, <1>2, CheckedStays DEF vars
    <2>. QED
      BY Zenon, <1>2, <2>1, <2>2 DEF PublicationInv
  <1>3. ASSUME Next PROVE PublicationInv' /\ Announced /\ Informed
    BY Zenon, <1>1, <1>3, QuietPublication, WriteKeeps, CommitKeeps DEF Next
  <1>. QED
    BY Zenon, <1>2, <1>3

\* No change of what a link says goes without its event, for any number of reports,
\* operators and collectors at once: the fence orders them (feedback_publication_fence,
\* invalidate_feedback_publication).
THEOREM ChangesReachTheSite == Spec => ChangesAreAnnounced
  <1>1. PublicationInv /\ [Next]_vars =>
            [\A r \in links' :
                r \notin links \/ Projection(r)' # Projection(r) => events'[r] > events[r]]_vars
    BY Zenon, PublicationStep DEF Announced
  <1>2. PublicationInv /\ [Next]_vars => PublicationInv'
    BY Zenon, PublicationStep
  <1>. QED
    BY <1>1, <1>2, PublicationInitially, PTL DEF Spec, ChangesAreAnnounced

\* Of any number of operators who saw one revision only one decides, and confirms a
\* failure only on uncontested evidence, whatever is imported meanwhile (Review).
THEOREM OperatorsDecideInformed == Spec => DecisionsAreInformed
  <1>1. PublicationInv /\ [Next]_vars =>
            [\A r \in Reports : reviews'[r] # reviews[r] =>
                \E t \in Transactions :
                    /\ tx[t].report = r /\ tx[t].expected = Len(reviews[r])
                    /\ tx[t].action = "CONFIRM_FAILURE" =>
                        Projection(r) = "PENDING_REVIEW" /\ Content[r] # "other"]_vars
    BY Zenon, PublicationStep DEF Informed
  <1>2. PublicationInv /\ [Next]_vars => PublicationInv'
    BY Zenon, PublicationStep
  <1>. QED
    BY <1>1, <1>2, PublicationInitially, PTL DEF Spec, DecisionsAreInformed
===============================================================================
