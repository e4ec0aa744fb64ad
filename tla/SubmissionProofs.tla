--------------------------- MODULE SubmissionProofs ---------------------------
(***************************************************************************)
(* Submission implements SubmissionPromise, and three more of its          *)
(* properties, for any number of requests, keys, messages and units.       *)
(*                                                                         *)
(* The argument does not use the key lock, which lives on a connection of  *)
(* its own and may be lost: the ledger's row and the identity's row, held  *)
(* by a transaction that outlives its program, decide alone.               *)
(***************************************************************************)
EXTENDS Submission, FiniteSetTheorems, TLAPS

Replies == [kind : {"none", "accepted", "replayed", "conflict", "busy", "refused", "error"},
            id : Ids \cup {Nobody}]

Types ==
    /\ req \in [Requests -> Asks]
    /\ pc \in [Requests -> {"start", "locked", "looked", "ledger", "cancelling",
                            "reserved", "linked", "published", "committing", "done"}]
    /\ reply \in [Requests -> Replies]
    /\ tx \in [Requests -> {"none", "open", "committing", "committed", "aborted"}]
    /\ ledger \in [Keys -> Requests \cup {Nobody}]
    /\ messages \subseteq Ids
    /\ delivery \in [Ids -> {"queued", "claimed", "sent", "suppressed"}]

\* How far the program can be when its transaction is where it is.
Progress(r) ==
    /\ pc[r] \in {"locked", "looked", "ledger", "cancelling", "reserved"} => r \in Keyed
    /\ pc[r] \in {"start", "locked", "looked"} => tx[r] = "none"
    /\ tx[r] \in {"committing", "committed"} => pc[r] \in {"committing", "done"}
    /\ reply[r] = NoReply <=> pc[r] # "done"

\* The row of a key belongs to the transaction that committed it, and no other has
\* one open; a client that was told anything definite has no open transaction.
KeyIsOwned(r) ==
    r \in Keyed =>
        /\ tx[r] = "committed" <=> ledger[Key(r)] = r
        /\ Live(r) => ledger[Key(r)] = Nobody /\ reply[r].kind \in {"none", "error"}
        /\ \A q \in Keyed : Key(q) = Key(r) /\ Live(q) /\ Live(r) => q = r

LedgerFits == \A k \in Keys : ledger[k] # Nobody => ledger[k] \in Keyed /\ Key(ledger[k]) = k

PromiseInv ==
    /\ Types /\ LedgerFits
    /\ \A r \in Requests : Progress(r)
    /\ \A r \in Requests : KeyIsOwned(r)

\* Before the first request.
LEMMA PromiseInitially == Init => PromiseInv
  BY SubmissionAssumption
     DEF Init, PromiseInv, Types, LedgerFits, Progress, KeyIsOwned, Keyed, Key, Live, Replies,
         NoReply, Ids

\* The keys of requests that have one.
LEMMA KeyedHaveKeys == Types => \A r \in Keyed : r \in Requests /\ Key(r) \in Keys
  BY Zenon, SubmissionAssumption DEF Types, Keyed, Key

(***************************************************************************)
(* The steps of the promise.                                               *)
(***************************************************************************)
Told == [r \in Requests |-> IF r \in Keyed THEN reply[r] ELSE NoReply]
Refines == Promise!Next \/ UNCHANGED <<req, ledger, Told>>

\* The requests with a key are those of the promise.
LEMMA SameKeyed == Types => Promise!Keyed = Keyed
  BY Zenon, SubmissionAssumption DEF Types, Keyed, Promise!Keyed, Promise!KeyOf

\* Who is told nothing new, and of which no key is accepted.
LEMMA QuietStep == UNCHANGED <<req, reply, ledger>> => Refines
  BY Zenon DEF Refines, Told, Keyed

\* An answer to a request without a key is none of the promise's business.
LEMMA UnkeyedStep ==
    ASSUME Types, UNCHANGED <<req, ledger>>, NEW r \in Requests, r \notin Keyed, NEW a,
           reply' = [reply EXCEPT ![r] = a]
    PROVE  Refines
  <1>1. \A q \in Keyed : reply'[q] = reply[q]
    BY Zenon DEF Types, Keyed
  <1>2. Told' = Told
    BY Zenon, <1>1 DEF Told, Keyed
  <1> QED BY Zenon, <1>2 DEF Refines

\* An answer is told to a client that had none.
LEMMA TellStep ==
    ASSUME PromiseInv, UNCHANGED <<req, ledger>>, NEW r \in Keyed, pc[r] # "done", NEW kind, NEW id,
           reply' = [reply EXCEPT ![r] = [kind |-> kind, id |-> id]]
    PROVE  Promise!Tell(r, kind, id)
  <1>1. r \in Requests /\ reply[r] = NoReply
    BY Zenon DEF PromiseInv, Progress, Keyed
  <1>2. Told[r] = NoReply /\ Told' = [Told EXCEPT ![r] = [kind |-> kind, id |-> id]]
    BY Zenon, <1>1 DEF PromiseInv, Types, Told, Keyed
  <1> QED BY Zenon, <1>2 DEF Promise!Tell, Promise!Silence, Told, NoReply

\* Turning a request away leaves it without a row of the ledger.
LEMMA RefusalStep ==
    ASSUME PromiseInv, UNCHANGED <<req, ledger>>, NEW r \in Keyed, pc[r] # "done",
           NEW why \in {"busy", "refused"}, Answer(r, Refused(why)), ledger[Key(r)] # r
    PROVE  Refines
  <1>1. Promise!Tell(r, why, Nobody)
    BY Zenon, TellStep DEF Answer, Refused
  <1>2. Promise!TurnAway(r)
    BY <1>1, Zenon DEF Promise!TurnAway, Promise!KeyOf, Key
  <1>3. r \in Promise!Keyed /\ req' = req
    BY Zenon, SameKeyed DEF PromiseInv
  <1> QED BY <1>2, <1>3, Zenon DEF Refines, Promise!Next

\* The ledger's answer: the message of the key, or a conflict.
LEMMA OriginalStep ==
    ASSUME PromiseInv, UNCHANGED <<req, ledger>>, NEW r \in Keyed, pc[r] \in {"locked", "looked"},
           ledger[Key(r)] # Nobody, Answer(r, Original(r))
    PROVE  Refines
  <1>1. r \in Promise!Keyed /\ req' = req /\ pc[r] # "done"
    BY Zenon, SameKeyed DEF PromiseInv
  <1>2. ledger[Key(r)] # r
    BY Zenon, KeyedHaveKeys DEF PromiseInv, Progress, KeyIsOwned
  <1>3. CASE req[ledger[Key(r)]].print = req[r].print
    <2>0. PICK m : m = ledger[Key(r)]
      BY Zenon
    <2>1. Promise!Tell(r, "replayed", m)
      BY Zenon, <1>1, <1>3, <2>0, TellStep DEF Answer, Original, Replayed
    <2>2. Promise!Replay(r)
      BY Zenon, <1>2, <1>3, <2>0, <2>1 DEF Promise!Tell, Promise!Replay, Promise!KeyOf,
                                               Promise!PrintOf, Key
    <2> QED BY <1>1, <2>2, Zenon DEF Refines, Promise!Next
  <1>4. CASE req[ledger[Key(r)]].print # req[r].print
    <2>1. Promise!Tell(r, "conflict", Nobody)
      BY Zenon, <1>1, <1>4, TellStep DEF Answer, Original, Refused
    <2>2. Promise!Conflict(r)
      BY <1>4, <2>1, Zenon DEF Promise!Conflict, Promise!KeyOf, Promise!PrintOf, Key
    <2> QED BY <1>1, <2>2, Zenon DEF Refines, Promise!Next
  <1> QED BY Zenon, <1>3, <1>4

\* Errors to the clients of S tell them nothing.
LEMMA ErrorStep ==
    ASSUME PromiseInv, UNCHANGED <<req, ledger>>, NEW S \in SUBSET Requests,
           \A r \in S : pc[r] # "done",
           reply' = [r \in Requests |-> IF r \in S THEN Refused("error") ELSE reply[r]]
    PROVE  Refines
  <1>0. PICK K : K = S \cap Keyed
    BY Zenon
  <1>1. K \in SUBSET Promise!Keyed /\ K \subseteq Requests /\ req' = req
    BY Zenon, <1>0, SameKeyed DEF PromiseInv, Keyed
  <1>2. \A r \in K : Told[r] = NoReply
    BY Zenon, <1>0 DEF PromiseInv, Progress, Keyed, Told
  <1>3. Told' = [r \in Requests |->
                    IF r \in K THEN [kind |-> "error", id |-> Nobody] ELSE Told[r]]
    BY Zenon, <1>0 DEF Told, Keyed, Refused
  <1>4. Promise!GiveUp(K)
    BY <1>2, <1>3, Zenon DEF Promise!GiveUp, Promise!Silence, Told, NoReply
  <1>5. \E T \in SUBSET Promise!Keyed : Promise!GiveUp(T)
    BY <1>1, <1>4, Zenon
  <1> QED BY <1>1, <1>5, Zenon DEF Refines, Promise!Next

\* A commit that lands makes its request the key's, and no client was refused.
LEMMA CommitStep ==
    ASSUME PromiseInv, UNCHANGED req, NEW r \in Requests, CommitLands(r)
    PROVE  Refines
  <1>1. CASE r \notin Keyed
    BY Zenon, <1>1, QuietStep DEF CommitLands
  <1>2. CASE r \in Keyed
    <2>1. ledger[Key(r)] = Nobody /\ reply[r].kind \in {"none", "error"}
      BY Zenon, <1>2 DEF PromiseInv, KeyIsOwned, Live, CommitLands
    <2>2. Told' = Told /\ Told[r] = reply[r]
      BY Zenon, <1>2 DEF CommitLands, Told, Keyed
    <2>3. Promise!MayAccept(r)
      BY Zenon, <2>1, <2>2 DEF Promise!MayAccept, Told
    <2>4. Promise!Accept(r)
      BY Zenon, <1>2, <2>1, <2>2 DEF Promise!Accept, Promise!KeyOf, Key, CommitLands, Told
    <2>5. r \in Promise!Keyed /\ req' = req
      BY Zenon, <1>2, SameKeyed DEF PromiseInv
    <2> QED BY <2>3, <2>4, <2>5, Zenon DEF Refines, Promise!Next
  <1> QED BY Zenon, <1>1, <1>2

\* Success is told by the reply to the commit, of the message that has the key.
LEMMA ConfirmStep ==
    ASSUME PromiseInv, UNCHANGED req, NEW r \in Requests, Confirm(r)
    PROVE  Refines
  <1>1. UNCHANGED <<req, ledger>> /\ pc[r] # "done"
        /\ reply' = [reply EXCEPT ![r] = [kind |-> "accepted", id |-> r]]
    BY Zenon DEF Confirm, database, Answer, Accepted
  <1>2. CASE r \notin Keyed
    BY Zenon, <1>1, <1>2, UnkeyedStep DEF PromiseInv
  <1>3. CASE r \in Keyed
    <2>1. ledger[Key(r)] = r
      BY Zenon, <1>3 DEF PromiseInv, KeyIsOwned, Confirm
    <2>2. Promise!Tell(r, "accepted", r)
      BY Zenon, <1>1, <1>3, TellStep
    <2>3. Promise!Succeed(r)
      BY <2>1, <2>2, Zenon DEF Promise!Succeed, Promise!KeyOf, Key
    <2>4. r \in Promise!Keyed /\ req' = req
      BY Zenon, <1>3, SameKeyed DEF PromiseInv
    <2> QED BY <2>3, <2>4, Zenon DEF Refines, Promise!Next
  <1> QED BY Zenon, <1>2, <1>3

(***************************************************************************)
(* The invariant, one step after another.                                  *)
(***************************************************************************)
\* An answer that is not a success ends a request that has no transaction any more.
LEMMA AnswerSafe ==
    ASSUME PromiseInv, UNCHANGED <<req, ledger, messages, delivery>>, NEW r \in Requests,
           pc[r] # "done", tx[r] # "committing", NEW a \in Replies, a.kind # "none", Answer(r, a),
           tx' = [tx EXCEPT ![r] = IF Live(r) THEN "aborted" ELSE @]
    PROVE  PromiseInv'
  BY SubmissionAssumption, KeyedHaveKeys
     DEF PromiseInv, Types, LedgerFits, Progress, KeyIsOwned, Keyed, Key, Live, Replies, NoReply,
         Answer

\* Going on, with the transaction as it is.
LEMMA GotoSafe ==
    ASSUME PromiseInv, UNCHANGED <<req, tx, ledger, messages, delivery>>, NEW r \in Requests,
           NEW where \in {"locked", "looked", "cancelling", "reserved", "linked", "published"},
           Goto(r, where), pc[r] # "done",
           tx[r] \notin {"committing", "committed"},
           where \in {"locked", "looked", "cancelling", "reserved"} => r \in Keyed,
           where \in {"locked", "looked"} => tx[r] = "none"
    PROVE  PromiseInv'
  <1>1. Types' /\ LedgerFits'
    BY Zenon DEF PromiseInv, Types, LedgerFits, Goto, Keyed, Key
  <1>2. \A q \in Requests : KeyIsOwned(q)'
    BY DEF PromiseInv, KeyIsOwned, Live, Goto, Keyed, Key
  <1>3. ASSUME NEW q \in Requests PROVE Progress(q)'
    BY Zenon DEF PromiseInv, Types, Progress, Goto, Keyed
  <1> QED BY <1>1, <1>2, <1>3 DEF PromiseInv

\* Steps that concern neither a program nor its transaction.
LEMMA RestSafe ==
    ASSUME PromiseInv, UNCHANGED <<req, pc, reply, tx, ledger>>, messages' \subseteq Ids,
           delivery' \in [Ids -> {"queued", "claimed", "sent", "suppressed"}]
    PROVE  PromiseInv'
  BY DEF PromiseInv, Types, LedgerFits, Progress, KeyIsOwned, Keyed, Key, Live

\* What the ledger answers is a reply.
LEMMA OriginalReply ==
    ASSUME Types, LedgerFits, NEW r \in Keyed, ledger[Key(r)] # Nobody
    PROVE  Original(r) \in Replies /\ Original(r).kind # "none"
  <1>1. ledger[Key(r)] \in Ids
    BY Zenon, KeyedHaveKeys DEF Types, LedgerFits, Ids
  <1> QED BY Zenon, <1>1 DEF Original, Replayed, Refused, Replies

\* Every step keeps the invariant.
LEMMA PromiseKept == PromiseInv /\ [Next]_vars => PromiseInv'
  <1> SUFFICES ASSUME PromiseInv, [Next]_vars PROVE PromiseInv'
    BY Zenon
  <1>a. \A why \in {"busy", "refused", "error"} :
            Refused(why) \in Replies /\ Refused(why).kind # "none"
    BY Zenon DEF Refused, Replies
  <1>b. Types /\ LedgerFits /\ \A r \in Requests : Progress(r)
    BY Zenon DEF PromiseInv
  <1>1. ASSUME NEW r \in Requests, UNCHANGED req, LockKey(r) PROVE PromiseInv'
    <2> USE <1>1
    <2>1. r \in Keyed /\ tx[r] = "none" /\ tx' = tx
      BY Zenon, <1>b DEF LockKey, Progress
    <2>2. CASE keyLock[Key(r)] = Nobody
      BY Zenon, <2>1, <2>2, GotoSafe DEF LockKey, database, world
    <2>3. CASE keyLock[Key(r)] # Nobody
      <3>1. tx' = [tx EXCEPT ![r] = IF Live(r) THEN "aborted" ELSE @]
        BY Zenon, <1>b, <2>1 DEF Live, Types
      <3> QED BY Zenon, <1>a, <2>1, <2>3, <3>1, AnswerSafe DEF LockKey, database, world
    <2> QED BY Zenon, <2>2, <2>3
  <1>2. ASSUME NEW r \in Requests, UNCHANGED req, Lookup(r) PROVE PromiseInv'
    <2> USE <1>2
    <2>1. r \in Keyed /\ tx[r] = "none"
      BY Zenon, <1>b DEF Lookup, Progress
    <2>2. CASE ledger[Key(r)] = Nobody
      BY Zenon, <2>1, <2>2, GotoSafe DEF Lookup, database, world
    <2>3. CASE ledger[Key(r)] # Nobody
      <3>1. PICK a : a = Original(r)
        BY Zenon
      <3>2. tx' = [tx EXCEPT ![r] = IF Live(r) THEN "aborted" ELSE @]
        BY Zenon, <1>b, <2>1, <2>3 DEF Lookup, Live, Types
      <3> QED BY Zenon, <1>b, <2>1, <2>3, <3>1, <3>2, OriginalReply, AnswerSafe
              DEF Lookup, database, world
    <2> QED BY Zenon, <2>2, <2>3
  <1>3. ASSUME NEW r \in Requests, UNCHANGED req, InsertLedger(r) PROVE PromiseInv'
    <2> USE <1>3
    <2>1. r \in Keyed /\ tx[r] = "none"
      BY Zenon, <1>b DEF InsertLedger, Progress
    <2>2. CASE ledger[Key(r)] = Nobody
      <3> USE <2>1, <2>2
      <3>1. Types' /\ LedgerFits'
        BY Zenon DEF PromiseInv, Types, LedgerFits, InsertLedger, Goto, Keyed, Key, database, world
      <3>2. ASSUME NEW q \in Requests PROVE Progress(q)'
        BY DEF PromiseInv, Types, Progress, InsertLedger, Goto, Keyed
      <3>3. tx'[r] = "open" /\ reply' = reply /\ reply[r].kind = "none"
            /\ \A q \in Requests \ {r} : tx'[q] = tx[q]
        BY DEF PromiseInv, Types, Progress, InsertLedger, Goto, NoReply
      <3>4. ASSUME NEW q \in Requests PROVE KeyIsOwned(q)'
        BY <3>3, SubmissionAssumption
           DEF PromiseInv, KeyIsOwned, InsertLedger, Keyed, Key, database, Live, Ids
      <3> QED BY Zenon, <3>1, <3>2, <3>4 DEF PromiseInv
    <2>3. CASE ledger[Key(r)] # Nobody
      <3>1. PICK a : a = Original(r)
        BY Zenon
      <3>2. tx' = [tx EXCEPT ![r] = IF Live(r) THEN "aborted" ELSE @]
        BY Zenon, <1>b, <2>1, <2>3 DEF InsertLedger, Live, Types
      <3> QED BY Zenon, <1>b, <2>1, <2>3, <3>1, <3>2, OriginalReply, AnswerSafe
              DEF InsertLedger, database, world
    <2> QED BY Zenon, <2>2, <2>3
  <1>4. ASSUME NEW r \in Requests, UNCHANGED req, CancelTarget(r) PROVE PromiseInv'
    <2> USE <1>4
    <2>1. CASE Cancellable(req[r].replaces)
      BY Zenon, <1>b, <2>1, GotoSafe DEF CancelTarget, MayReserve, Progress, database, world
    <2>2. CASE ~Cancellable(req[r].replaces)
      BY Zenon, <1>a, <2>2, AnswerSafe DEF CancelTarget, MayReserve, Rollback, world
    <2> QED BY Zenon, <2>1, <2>2
  <1>5. ASSUME NEW r \in Requests, UNCHANGED req, Denied(r) PROVE PromiseInv'
    BY Zenon, <1>5, <1>a, AnswerSafe DEF Denied, Rollback, world
  <1>6. ASSUME NEW r \in Requests, UNCHANGED req, Reserve(r) PROVE PromiseInv'
    <2> USE <1>6
    <2>1. CASE Admits(r)
      BY Zenon, <1>b, <2>1, GotoSafe DEF Reserve, MayReserve, Progress, database, world
    <2>2. CASE ~Admits(r)
      BY Zenon, <1>a, <2>2, AnswerSafe DEF Reserve, MayReserve, Rollback, world
    <2> QED BY Zenon, <2>1, <2>2
  <1>7. ASSUME NEW r \in Requests, UNCHANGED req, Link(r) \/ SyncDirectory(r) PROVE PromiseInv'
    <2>1. tx[r] \notin {"committing", "committed"}
      BY Zenon, <1>7, <1>b DEF Link, SyncDirectory, Progress
    <2>2. Goto(r, "linked") \/ Goto(r, "published")
      BY Zenon, <1>7 DEF Link, SyncDirectory
    <2> QED BY <1>7, <2>1, <2>2, GotoSafe DEF Link, SyncDirectory, database, world
  <1>8. ASSUME NEW r \in Requests, UNCHANGED req, Enqueue(r) PROVE PromiseInv'
    <2> USE <1>8
    <2>1. Types' /\ LedgerFits'
      BY Zenon DEF PromiseInv, Types, LedgerFits, Enqueue, Goto, Keyed, Key, database, world
    <2>2. ASSUME NEW q \in Requests PROVE Progress(q)'
      BY Zenon DEF PromiseInv, Types, Progress, Enqueue, Goto, Keyed
    <2>3. \A q \in Keyed : Live(q)' <=> Live(q)
      BY Zenon DEF PromiseInv, Types, Enqueue, Live, Keyed
    <2>4. ASSUME NEW q \in Requests PROVE KeyIsOwned(q)'
      BY <2>3 DEF PromiseInv, Types, KeyIsOwned, Enqueue, Goto, Keyed, Key, database, Live
    <2> QED BY Zenon, <2>1, <2>2, <2>4 DEF PromiseInv
  <1>9. ASSUME NEW r \in Requests, UNCHANGED req, CommitLands(r) PROVE PromiseInv'
    BY <1>9, SubmissionAssumption, KeyedHaveKeys
       DEF PromiseInv, Types, LedgerFits, Progress, KeyIsOwned, Keyed, Key, Live, Ids, CommitLands
  <1>10. ASSUME NEW r \in Requests, UNCHANGED req, Confirm(r) PROVE PromiseInv'
    BY <1>10, SubmissionAssumption, KeyedHaveKeys
       DEF PromiseInv, Types, LedgerFits, Progress, KeyIsOwned, Keyed, Key, Live, Replies, NoReply,
           Ids, Answer, Accepted, database, world, Confirm
  <1>11. ASSUME NEW r \in Requests, UNCHANGED req, TransactionEnds(r) PROVE PromiseInv'
    BY <1>11, SubmissionAssumption, KeyedHaveKeys
       DEF PromiseInv, Types, LedgerFits, Progress, KeyIsOwned, Keyed, Key, Live, Rollback, world,
           TransactionEnds
  <1>12. ASSUME NEW r \in Requests, UNCHANGED req, Fails(r) PROVE PromiseInv'
    BY <1>12, SubmissionAssumption, KeyedHaveKeys
       DEF PromiseInv, Types, LedgerFits, Progress, KeyIsOwned, Keyed, Key, Live, Replies, NoReply,
           Answer, Refused, database, world, Fails
  <1>13. ASSUME NEW kept, UNCHANGED req, PowerLoss(kept) PROVE PromiseInv'
    BY <1>13, SubmissionAssumption, KeyedHaveKeys
       DEF PromiseInv, Types, LedgerFits, Progress, KeyIsOwned, Keyed, Key, Live, Replies, NoReply,
           Refused, database, world, PowerLoss
  <1>14. ASSUME NEW r \in Requests, UNCHANGED req, UnlockKey(r) \/ ScheduleFallsDue(r)
         PROVE  PromiseInv'
    BY Zenon, <1>14, <1>b, RestSafe DEF UnlockKey, ScheduleFallsDue, database, world, Types
  <1>15. ASSUME NEW m \in Ids, UNCHANGED req, CancelPending(m) \/ Deliver(m) PROVE PromiseInv'
    BY <1>15, <1>b, RestSafe DEF CancelPending, Deliver, database, world, Types
  <1>16. CASE (UNCHANGED req /\ TimePasses) \/ UNCHANGED vars
    BY Zenon, <1>16, <1>b, RestSafe DEF TimePasses, vars, world, Types
  <1> QED BY Zenon, <1>1, <1>2, <1>3, <1>4, <1>5, <1>6, <1>7, <1>8, <1>9, <1>10, <1>11,
             <1>12, <1>13, <1>14, <1>15, <1>16 DEF Next, Step

(***************************************************************************)
(* The refinement.                                                         *)
(***************************************************************************)
\* Every step is one of the promise's, or changes nothing of it.
LEMMA PromiseStep == PromiseInv /\ [Next]_vars => Refines
  <1> SUFFICES ASSUME PromiseInv, [Next]_vars PROVE Refines
    BY Zenon
  <1>a. \A r \in Requests : Progress(r)
    BY Zenon DEF PromiseInv
  <1>b. \A r \in Keyed : tx[r] # "committed" => ledger[Key(r)] # r
    BY Zenon, KeyedHaveKeys DEF PromiseInv, KeyIsOwned
  <1>1. ASSUME NEW r \in Requests, UNCHANGED req, LockKey(r) PROVE Refines
    <2>1. r \in Keyed /\ tx[r] = "none" /\ pc[r] # "done" /\ UNCHANGED <<req, ledger>>
      BY Zenon, <1>1, <1>a DEF LockKey, Progress, database
    <2>2. CASE keyLock[Key(r)] = Nobody
      BY Zenon, <1>1, <2>1, <2>2, QuietStep DEF LockKey, Goto
    <2>3. CASE keyLock[Key(r)] # Nobody
      BY Zenon, <1>1, <1>b, <2>1, <2>3, RefusalStep DEF LockKey
    <2> QED BY Zenon, <2>2, <2>3
  <1>2. ASSUME NEW r \in Requests, UNCHANGED req, Lookup(r) \/ InsertLedger(r) PROVE Refines
    <2>1. r \in Keyed /\ UNCHANGED <<req, ledger>> /\ pc[r] \in {"locked", "looked"}
      BY Zenon, <1>2, <1>a DEF Lookup, InsertLedger, Progress, database
    <2>2. CASE ledger[Key(r)] = Nobody
      BY Zenon, <1>2, <2>1, <2>2, QuietStep DEF Lookup, InsertLedger, Goto
    <2>3. CASE ledger[Key(r)] # Nobody
      BY Zenon, <1>2, <2>1, <2>3, OriginalStep DEF Lookup, InsertLedger
    <2> QED BY Zenon, <2>2, <2>3
  <1>3. ASSUME NEW r \in Requests, UNCHANGED req,
               CancelTarget(r) \/ Denied(r) \/ Reserve(r)
        PROVE  Refines
    <2>1. r \in Keyed /\ tx[r] = "open" /\ pc[r] # "done" /\ UNCHANGED <<req, ledger>>
      BY Zenon, <1>3, <1>a DEF CancelTarget, Denied, Reserve, MayReserve, Progress, Rollback, database
    <2>2. Goto(r, "cancelling") \/ Goto(r, "reserved") \/ Answer(r, Refused("refused"))
      BY Zenon, <1>3 DEF CancelTarget, Denied, Reserve
    <2>3. CASE UNCHANGED reply
      BY Zenon, <2>1, <2>3, QuietStep
    <2>4. CASE Answer(r, Refused("refused"))
      BY Zenon, <1>b, <2>1, <2>4, RefusalStep
    <2> QED BY Zenon, <2>2, <2>3, <2>4 DEF Goto
  <1>4. ASSUME NEW r \in Requests, UNCHANGED req,
               \/ Link(r) \/ SyncDirectory(r) \/ Enqueue(r) \/ UnlockKey(r)
               \/ TransactionEnds(r) \/ ScheduleFallsDue(r)
        PROVE  Refines
    BY Zenon, <1>4, QuietStep DEF Link, SyncDirectory, Enqueue, UnlockKey, TransactionEnds,
                           ScheduleFallsDue, Goto, Rollback, database
  <1>5. ASSUME NEW r \in Requests, UNCHANGED req, Fails(r) PROVE Refines
    <2>1. reply' = [q \in Requests |-> IF q \in {r} THEN Refused("error") ELSE reply[q]]
      BY Zenon, <1>5 DEF Fails, Answer, PromiseInv, Types
    <2> QED BY Zenon, <1>5, <2>1, ErrorStep DEF Fails, database
  <1>6. ASSUME NEW kept, UNCHANGED req, PowerLoss(kept) PROVE Refines
    <2>0. PICK S : S = {r \in Requests : pc[r] \notin {"start", "done"}}
      BY Zenon
    <2>1. reply' = [q \in Requests |-> IF q \in S THEN Refused("error") ELSE reply[q]]
      BY Zenon, <1>6, <2>0 DEF PowerLoss
    <2> QED BY Zenon, <1>6, <2>0, <2>1, ErrorStep DEF PowerLoss, database
  <1>7. ASSUME NEW m \in Ids, UNCHANGED req, CancelPending(m) \/ Deliver(m) PROVE Refines
    BY Zenon, <1>7, QuietStep DEF CancelPending, Deliver, database
  <1>8. CASE (UNCHANGED req /\ TimePasses) \/ UNCHANGED vars
    BY Zenon, <1>8, QuietStep DEF TimePasses, vars
  <1> QED BY Zenon, <1>1, <1>2, <1>3, <1>4, <1>5, <1>6, <1>7, <1>8, CommitStep,
             ConfirmStep DEF Next, Step

\* The HTTP entry keeps its promise about keys (ReceiveReplacing, enqueueIdempotent):
\* Submission implements SubmissionPromise.
THEOREM SubmissionKeepsPromise == Spec => KeepsPromise
  <1>1. Init => PromiseInv
    BY Zenon, PromiseInitially
  <1>2. PromiseInv /\ [Next]_vars => PromiseInv'
    BY Zenon, PromiseKept
  <1>3. Init => Promise!Init
    BY Zenon DEF Init, Promise!Init, Promise!Silence, NoReply, Keyed
  <1>4. PromiseInv /\ [Next]_vars => [Promise!Next]_<<req, ledger, Told>>
    BY Zenon, PromiseStep DEF Refines
  <1> QED BY <1>1, <1>2, <1>3, <1>4, PTL DEF Spec, KeepsPromise, Promise!Spec, Told

(***************************************************************************)
(* The archive.                                                            *)
(***************************************************************************)
\* A program that goes on to its transaction has seen the directory synced.
ArchiveInv ==
    /\ messages \subseteq durable /\ durable \subseteq linked
    /\ \A r \in Requests : pc[r] = "linked" => r \in linked
    /\ \A r \in Requests :
        pc[r] = "published" \/ tx[r] \in {"committing", "committed"} => r \in durable

\* Every step keeps the order of archive and queue.
LEMMA ArchiveKept == PromiseInv /\ ArchiveInv /\ [Next]_vars => ArchiveInv'
  <1> SUFFICES ASSUME Types, ArchiveInv, [Next]_vars PROVE ArchiveInv'
    BY Zenon DEF PromiseInv
  <1> USE DEF Types, ArchiveInv, database, world, disk
  <1>1. ASSUME NEW r \in Requests, UNCHANGED req, LockKey(r) PROVE ArchiveInv'
    BY Zenon, <1>1 DEF LockKey, Answer, Goto
  <1>2. ASSUME NEW r \in Requests, UNCHANGED req, Lookup(r) PROVE ArchiveInv'
    BY Zenon, <1>2 DEF Lookup, Answer, Goto
  <1>3. ASSUME NEW r \in Requests, UNCHANGED req, InsertLedger(r) PROVE ArchiveInv'
    BY Zenon, <1>3 DEF InsertLedger, Answer, Goto
  <1>4. ASSUME NEW r \in Requests, UNCHANGED req, CancelTarget(r) PROVE ArchiveInv'
    BY Zenon, <1>4 DEF CancelTarget, Answer, Goto, Rollback, Live
  <1>5. ASSUME NEW r \in Requests, UNCHANGED req, Denied(r) PROVE ArchiveInv'
    BY Zenon, <1>5 DEF Denied, Answer, Rollback, Live
  <1>6. ASSUME NEW r \in Requests, UNCHANGED req, Reserve(r) PROVE ArchiveInv'
    BY <1>6 DEF Reserve, Answer, Goto, Rollback, Live, MayReserve
  <1>7. ASSUME NEW r \in Requests, UNCHANGED req, Link(r) PROVE ArchiveInv'
    BY Zenon, <1>7 DEF Link, Goto
  <1>8. ASSUME NEW r \in Requests, UNCHANGED req, SyncDirectory(r) PROVE ArchiveInv'
    BY Zenon, <1>8 DEF SyncDirectory, Goto
  <1>9. ASSUME NEW r \in Requests, UNCHANGED req, Enqueue(r) PROVE ArchiveInv'
    BY Zenon, <1>9 DEF Enqueue, Goto
  <1>10. ASSUME NEW r \in Requests, UNCHANGED req, CommitLands(r) PROVE ArchiveInv'
    BY Zenon, <1>10 DEF CommitLands
  <1>11. ASSUME NEW r \in Requests, UNCHANGED req, Confirm(r) PROVE ArchiveInv'
    BY Zenon, <1>11 DEF Confirm, Answer
  <1>12. ASSUME NEW r \in Requests, UNCHANGED req, UnlockKey(r) PROVE ArchiveInv'
    BY Zenon, <1>12 DEF UnlockKey
  <1>13. ASSUME NEW r \in Requests, UNCHANGED req, TransactionEnds(r) PROVE ArchiveInv'
    BY Zenon, <1>13 DEF TransactionEnds, Rollback, Live
  <1>14. ASSUME NEW r \in Requests, UNCHANGED req, Fails(r) PROVE ArchiveInv'
    BY Zenon, <1>14 DEF Fails, Answer
  <1>15. ASSUME NEW r \in Requests, UNCHANGED req, ScheduleFallsDue(r) PROVE ArchiveInv'
    BY Zenon, <1>15 DEF ScheduleFallsDue
  <1>16. ASSUME NEW m \in Ids, UNCHANGED req, CancelPending(m) PROVE ArchiveInv'
    BY Zenon, <1>16 DEF CancelPending
  <1>17. ASSUME NEW m \in Ids, UNCHANGED req, Deliver(m) PROVE ArchiveInv'
    BY Zenon, <1>17 DEF Deliver
  <1>18. ASSUME NEW kept, UNCHANGED req, PowerLoss(kept) PROVE ArchiveInv'
    BY Zenon, <1>18 DEF PowerLoss
  <1>19. CASE (UNCHANGED req /\ TimePasses) \/ UNCHANGED vars
    BY Zenon, <1>19 DEF TimePasses, vars
  <1> QED BY Zenon, <1>1, <1>2, <1>3, <1>4, <1>5, <1>6, <1>7, <1>8, <1>9, <1>10, <1>11,
             <1>12, <1>13, <1>14, <1>15, <1>16, <1>17, <1>18, <1>19 DEF Next, Step

\* A message in the queue has its archive, also after a power failure.
THEOREM ArchiveIsThere == Spec => []MessageHasArchive
  <1>1. Init => PromiseInv /\ ArchiveInv
    BY Zenon, PromiseInitially DEF Init, ArchiveInv
  <1>2. PromiseInv /\ ArchiveInv /\ [Next]_vars => (PromiseInv /\ ArchiveInv)'
    BY Zenon, PromiseKept, ArchiveKept
  <1>3. PromiseInv /\ ArchiveInv => MessageHasArchive
    BY Zenon DEF ArchiveInv, MessageHasArchive
  <1> QED BY <1>1, <1>2, <1>3, PTL DEF Spec

(***************************************************************************)
(* Replacement.                                                            *)
(***************************************************************************)
\* From cancelPendingTx or reserveSubmission on, until its transaction is over.
Holding(r) ==
    /\ r \in Keyed
    /\ \/ tx[r] = "committing"
       \/ tx[r] = "open" /\ pc[r] \in {"cancelling", "reserved", "linked", "published"}

Replacing(r) == r \in Keyed /\ req[r].replaces # Nobody

\* Who holds the identity row has its target as cancelPendingTx found it, and who
\* has committed has it cancelled.
ReplaceInv ==
    /\ \A r \in Requests : Holding(r) =>
        identity = r /\ (req[r].replaces # Nobody => Cancellable(req[r].replaces))
    /\ \A r \in Requests : r \in messages <=> tx[r] = "committed"
    /\ \A r \in Requests : Replacing(r) /\ tx[r] = "committed" =>
        req[r].replaces \in cancelled /\ delivery[req[r].replaces] = "queued"
    /\ \A r, q \in Requests :
        Replacing(r) /\ Replacing(q) /\ tx[r] = "committed" /\ tx[q] = "committed"
            /\ req[r].replaces = req[q].replaces => r = q

\* What requests replace is older than they are.
LEMMA TargetsExist ==
    Types => \A r \in Requests : /\ req[r].replaces # Nobody => req[r].replaces \in Existing
                                 /\ r \notin Existing /\ r # Nobody
                                 /\ r \notin Keyed => req[r].replaces = Nobody
  BY Zenon, SubmissionAssumption DEF Types, Keyed, Ids

\* Every step keeps it.
LEMMA ReplaceKept == PromiseInv /\ ReplaceInv /\ [Next]_vars => ReplaceInv'
  <1> SUFFICES ASSUME Types, \A r \in Requests : Progress(r), ReplaceInv, [Next]_vars
               PROVE  ReplaceInv'
    BY Zenon DEF PromiseInv
  <1> USE TargetsExist DEF Types, Progress, ReplaceInv, Holding, Replacing, Cancellable, Keyed, Ids,
                           database, world
  <1>1. ASSUME NEW r \in Requests, UNCHANGED req, LockKey(r) PROVE ReplaceInv'
    BY <1>1 DEF LockKey, Answer, Goto
  <1>2. ASSUME NEW r \in Requests, UNCHANGED req, Lookup(r) PROVE ReplaceInv'
    BY <1>2 DEF Lookup, Answer, Goto
  <1>3. ASSUME NEW r \in Requests, UNCHANGED req, InsertLedger(r) PROVE ReplaceInv'
    BY <1>3 DEF InsertLedger, Answer, Goto
  <1>4. ASSUME NEW r \in Requests, UNCHANGED req, CancelTarget(r) PROVE ReplaceInv'
    BY <1>4 DEF CancelTarget, Answer, Goto, Rollback, Live
  <1>5. ASSUME NEW r \in Requests, UNCHANGED req, Denied(r) PROVE ReplaceInv'
    BY <1>5 DEF Denied, Answer, Rollback, Live
  <1>6. ASSUME NEW r \in Requests, UNCHANGED req, Reserve(r) PROVE ReplaceInv'
    BY <1>6 DEF Reserve, Answer, Goto, Rollback, Live, MayReserve
  <1>7. ASSUME NEW r \in Requests, UNCHANGED req, Link(r) PROVE ReplaceInv'
    BY <1>7 DEF Link, Goto
  <1>8. ASSUME NEW r \in Requests, UNCHANGED req, SyncDirectory(r) PROVE ReplaceInv'
    BY <1>8 DEF SyncDirectory, Goto
  <1>9. ASSUME NEW r \in Requests, UNCHANGED req, Enqueue(r) PROVE ReplaceInv'
    BY <1>9 DEF Enqueue, Goto
  <1>10. ASSUME NEW r \in Requests, UNCHANGED req, CommitLands(r) PROVE ReplaceInv'
    BY <1>10 DEF CommitLands
  <1>11. ASSUME NEW r \in Requests, UNCHANGED req, Confirm(r) PROVE ReplaceInv'
    BY <1>11 DEF Confirm, Answer
  <1>12. ASSUME NEW r \in Requests, UNCHANGED req, UnlockKey(r) PROVE ReplaceInv'
    BY Zenon, <1>12 DEF UnlockKey
  <1>13. ASSUME NEW r \in Requests, UNCHANGED req, TransactionEnds(r) PROVE ReplaceInv'
    BY <1>13 DEF TransactionEnds, Rollback, Live
  <1>14. ASSUME NEW r \in Requests, UNCHANGED req, Fails(r) PROVE ReplaceInv'
    BY <1>14 DEF Fails, Answer
  <1>15. ASSUME NEW r \in Requests, UNCHANGED req, ScheduleFallsDue(r) PROVE ReplaceInv'
    BY Zenon, <1>15 DEF ScheduleFallsDue
  <1>16. ASSUME NEW m \in Ids, UNCHANGED req, CancelPending(m) PROVE ReplaceInv'
    BY Zenon, <1>16 DEF CancelPending
  <1>17. ASSUME NEW m \in Ids, UNCHANGED req, Deliver(m) PROVE ReplaceInv'
    BY <1>17 DEF Deliver, RowLocked
  <1>18. ASSUME NEW kept, UNCHANGED req, PowerLoss(kept) PROVE ReplaceInv'
    BY Zenon, <1>18 DEF PowerLoss
  <1>19. CASE (UNCHANGED req /\ TimePasses) \/ UNCHANGED vars
    BY <1>19 DEF TimePasses, vars
  <1> QED BY Zenon, <1>1, <1>2, <1>3, <1>4, <1>5, <1>6, <1>7, <1>8, <1>9, <1>10, <1>11,
             <1>12, <1>13, <1>14, <1>15, <1>16, <1>17, <1>18, <1>19 DEF Next, Step

\* A replacement and what it replaces are never both sent, and one at most is accepted
\* (cancelPendingTx in the transaction that makes the replacement).
THEOREM ReplacementsExclude == Spec => []ReplacementIsExclusive
  <1>1. Init => PromiseInv /\ ReplaceInv
    BY Zenon, PromiseInitially, SubmissionAssumption
       DEF Init, ReplaceInv, Holding, Replacing, Ids
  <1>2. PromiseInv /\ ReplaceInv /\ [Next]_vars => (PromiseInv /\ ReplaceInv)'
    BY Zenon, PromiseKept, ReplaceKept
  <1>3. PromiseInv /\ ReplaceInv => ReplacementIsExclusive
    BY Zenon DEF ReplaceInv, ReplacementIsExclusive, Replacing, Keyed
  <1> QED BY <1>1, <1>2, <1>3, PTL DEF Spec

(***************************************************************************)
(* The limits.  The website's is one over all streams, a stream's one over *)
(* itself: Spent is the use of a set of streams in a window.               *)
(***************************************************************************)
Ages == {"none", "minute", "hour", "day", "old"}
Charged(Z, w) == {m \in Reserved : req[m].stream \in Z /\ InWindow(m, w)}
Spent(Z, w) == Cardinality(UnitsOf(Charged(Z, w)))
Limits(Z, w) ==
    {n \in {Budget[w]} : Z = Streams} \cup {StreamBudget[s][w] : s \in {t \in DOMAIN StreamBudget : Z = {t}}}

\* From reserveSubmission on, until its transaction is over.
Admitted(r) ==
    /\ r \in Keyed
    /\ \/ tx[r] = "committing"
       \/ tx[r] = "open" /\ pc[r] \in {"reserved", "linked", "published"}

\* What reserveSubmission found is still so for the transaction that holds the
\* identity row: there is room for it in every window it is in.
Room(r) ==
    /\ req[r].scheduled => Cardinality(Future) < ScheduleCap
    /\ \A w \in Windows, Z \in SUBSET Streams : \A n \in Limits(Z, w) :
        n > 0 /\ req[r].stream \in Z /\ InWindow(r, w) => Spent(Z, w) + req[r].units <= n

WithinLimits ==
    /\ Cardinality(Future) <= ScheduleCap
    /\ \A w \in Windows, Z \in SUBSET Streams : \A n \in Limits(Z, w) : n > 0 => Spent(Z, w) <= n

LimitsInv ==
    /\ IsFiniteSet(messages \cap Requests)
    /\ \A r \in Requests : r \in due \/ req[r].scheduled
    /\ age \in [Requests -> Ages]
    /\ WithinLimits
    /\ \A r \in Requests : Admitted(r) => Room(r)

\* The units of one request.
LEMMA UnitsOfOne ==
    ASSUME Types, NEW r \in Requests, NEW A, A = {r} \X (1 .. req[r].units)
    PROVE  IsFiniteSet(A) /\ Cardinality(A) = req[r].units /\ req[r].units \in Nat
  <1>1. req[r].units \in Nat
    BY Zenon, SubmissionAssumption DEF Types
  <1>2. PICK n \in Nat : n = req[r].units
    BY Zenon, <1>1
  <1>3. IsFiniteSet(1 .. n) /\ Cardinality(1 .. n) = n
    BY FS_Interval
  <1>4. IsFiniteSet({r}) /\ Cardinality({r}) = 1
    BY Zenon, FS_Singleton
  <1>5. IsFiniteSet(A) /\ Cardinality(A) = Cardinality({r}) * Cardinality(1 .. n)
    BY <1>2, <1>3, <1>4, FS_Product, Zenon
  <1>. QED
    BY <1>2, <1>3, <1>4, <1>5

\* The units of finitely many requests are finitely many.
LEMMA UnitsFinite ==
    ASSUME Types, NEW S, S \subseteq Requests, IsFiniteSet(S)
    PROVE  IsFiniteSet(UnitsOf(S)) /\ Cardinality(UnitsOf(S)) \in Nat
  <1> DEFINE Of(m) == {m} \X (1 .. req[m].units)
  <1>1. ASSUME NEW m \in S PROVE IsFiniteSet(Of(m))
    BY Zenon, UnitsOfOne
  <1>2. PICK F : F = {Of(m) : m \in S}
    BY Zenon
  <1>3. IsFiniteSet(F)
    <2> DEFINE f == [m \in S |-> Of(m)]
    <2>1. f \in Surjection(S, F)
      BY <1>2, Zenon DEF Surjection
    <2>. HIDE DEF f
    <2>. QED
      BY Zenon, <2>1, FS_Surjection
  <1>4. \A X \in F : IsFiniteSet(X)
    BY Zenon, <1>1, <1>2
  <1>5. IsFiniteSet(UNION F)
    BY Zenon, <1>3, <1>4, FS_UNION
  <1>6. UnitsOf(S) = UNION F
    BY Zenon, <1>2 DEF UnitsOf
  <1>. QED
    BY Zenon, <1>5, <1>6, FS_CardinalityType

\* Fewer requests have no more units.
LEMMA UnitsShrink ==
    ASSUME Types, NEW S, S \subseteq Requests, IsFiniteSet(S), NEW T, T \subseteq S, req' = req
    PROVE  Cardinality(UnitsOf(T)') \in Nat /\ Cardinality(UnitsOf(T)') <= Cardinality(UnitsOf(S))
  <1>1. IsFiniteSet(UnitsOf(S))
    BY Zenon, UnitsFinite
  <1>2. PICK V : V = UnitsOf(T)'
    BY Zenon
  <1>3. V \subseteq UnitsOf(S)
    BY <1>2, Zenon DEF UnitsOf
  <1>. QED
    BY Zenon, <1>1, <1>2, <1>3, FS_Subset, FS_CardinalityType

\* One more request adds its own units at most.
LEMMA UnitsGrow ==
    ASSUME Types, NEW S, S \subseteq Requests, IsFiniteSet(S), NEW r \in Requests, NEW T,
           T \subseteq S \cup {r}, req' = req
    PROVE  /\ Cardinality(UnitsOf(T)') \in Nat
           /\ Cardinality(UnitsOf(T)') <= Cardinality(UnitsOf(S)) + req[r].units
  <1>1. IsFiniteSet(UnitsOf(S)) /\ Cardinality(UnitsOf(S)) \in Nat
    BY Zenon, UnitsFinite
  <1>2. PICK A : A = {r} \X (1 .. req[r].units)
    BY Zenon
  <1>3. IsFiniteSet(A) /\ Cardinality(A) = req[r].units /\ req[r].units \in Nat
    BY Zenon, <1>2, UnitsOfOne
  <1>4. PICK U : U = UnitsOf(S)
    BY Zenon
  <1>5. PICK V : V = UnitsOf(T)'
    BY Zenon
  <1>6. V \subseteq U \cup A
    BY <1>2, <1>4, <1>5, Zenon DEF UnitsOf
  <1>7. /\ IsFiniteSet(U \cup A)
        /\ Cardinality(U \cup A) = Cardinality(U) + Cardinality(A) - Cardinality(U \cap A)
        /\ IsFiniteSet(U \cap A)
    BY Zenon, <1>1, <1>3, <1>4, FS_Union, FS_Intersection
  <1>8. Cardinality(V) <= Cardinality(U \cup A) /\ IsFiniteSet(V)
    BY Zenon, <1>6, <1>7, FS_Subset
  <1>9. Cardinality(V) \in Nat /\ Cardinality(U \cap A) \in Nat /\ Cardinality(U \cup A) \in Nat
    BY Zenon, <1>7, <1>8, FS_CardinalityType
  <1>10. Cardinality(V) <= Cardinality(U) + req[r].units
    BY <1>1, <1>3, <1>4, <1>7, <1>8, <1>9
  <1>. QED
    BY Zenon, <1>4, <1>5, <1>9, <1>10

\* What is reserved is finite, and so is what is scheduled.
LEMMA ChargedFinite ==
    ASSUME LimitsInv, NEW Z, NEW w
    PROVE  /\ Charged(Z, w) \subseteq Requests /\ IsFiniteSet(Charged(Z, w))
           /\ IsFiniteSet(Future) /\ Cardinality(Future) \in Nat
  <1>1. /\ Charged(Z, w) \subseteq messages \cap Requests /\ Future \subseteq messages \cap Requests
        /\ IsFiniteSet(messages \cap Requests)
    BY Zenon DEF Charged, Reserved, Future, Keyed, LimitsInv
  <1>. QED
    BY Zenon, <1>1, FS_Subset, FS_CardinalityType

\* A limit is a natural number.
LEMMA LimitNumbers ==
    ASSUME Types, NEW w \in Windows, NEW Z, NEW n \in Limits(Z, w)
    PROVE  n \in Nat
  BY SubmissionAssumption DEF Limits

\* A step by which nobody reserves or commits anything.
LEMMA LimitsEase ==
    ASSUME PromiseInv, LimitsInv, req' = req, IsFiniteSet(messages' \cap Requests),
           messages' \cap Keyed \subseteq messages, Future' \subseteq Future, due \subseteq due',
           age' \in [Requests -> Ages],
           \A m \in Requests, w \in Windows : InWindow(m, w)' => InWindow(m, w),
           \A r \in Requests : Admitted(r)' => Admitted(r)
    PROVE  LimitsInv'
  <1>1. Types /\ Keyed' = Keyed
    BY Zenon DEF PromiseInv, Keyed
  <1>2. Cardinality(Future') <= Cardinality(Future) /\ Cardinality(Future') \in Nat
        /\ Cardinality(Future) \in Nat
    <2>1. IsFiniteSet(Future) /\ Cardinality(Future) \in Nat
      BY Zenon, ChargedFinite
    <2>. QED
      BY Zenon, <2>1, FS_Subset, FS_CardinalityType
  <1>3. ASSUME NEW w \in Windows, NEW Z
        PROVE  /\ Spent(Z, w) \in Nat /\ Spent(Z, w)' \in Nat /\ Spent(Z, w)' <= Spent(Z, w)
    <2>1. PICK S : S = Charged(Z, w)
      BY Zenon
    <2>2. PICK T : T = Charged(Z, w)'
      BY Zenon
    <2>3. S \subseteq Requests /\ IsFiniteSet(S)
      BY Zenon, <2>1, ChargedFinite
    <2>4. T \subseteq S
      BY <1>1, <2>1, <2>2, Zenon DEF Charged, Reserved, Keyed
    <2>5. Spent(Z, w) = Cardinality(UnitsOf(S)) /\ Spent(Z, w)' = Cardinality(UnitsOf(T)')
      BY <2>1, <2>2, Zenon DEF Spent, UnitsOf
    <2>. QED
      BY Zenon, <1>1, <2>3, <2>4, <2>5, UnitsFinite, UnitsShrink
  <1>4. WithinLimits'
    <2>1. Cardinality(Future') <= ScheduleCap
      BY <1>2, SubmissionAssumption DEF LimitsInv, WithinLimits
    <2>2. ASSUME NEW w \in Windows, NEW Z \in SUBSET Streams, NEW n \in Limits(Z, w), n > 0
          PROVE  Spent(Z, w)' <= n
      <3>1. Spent(Z, w) <= n
        BY <2>2, Zenon DEF LimitsInv, WithinLimits
      <3>. QED
        BY <1>1, <1>3, <3>1, LimitNumbers
    <2>. QED
      BY <2>1, <2>2, Zenon DEF WithinLimits, Limits
  <1>5. ASSUME NEW r \in Requests, Admitted(r)' PROVE Room(r)'
    <2>1. Room(r) /\ req'[r] = req[r]
      BY <1>5, Zenon DEF LimitsInv
    <2>2. req[r].scheduled => Cardinality(Future') < ScheduleCap
      BY <1>2, <2>1, SubmissionAssumption DEF Room
    <2>3. ASSUME NEW w \in Windows, NEW Z \in SUBSET Streams, NEW n \in Limits(Z, w), n > 0,
                 req[r].stream \in Z, InWindow(r, w)'
          PROVE  Spent(Z, w)' + req[r].units <= n
      <3>1. Spent(Z, w) + req[r].units <= n
        BY <2>1, <2>3, Zenon DEF Room
      <3>2. req[r].units \in Nat
        BY Zenon, <1>1, UnitsOfOne
      <3>. QED
        BY <1>1, <1>3, <3>1, <3>2, LimitNumbers
    <2>. QED
      BY <2>1, <2>2, <2>3, Zenon DEF Room, Limits
  <1>. QED
    BY <1>4, <1>5, Zenon DEF LimitsInv

\* A commit adds its own units and its own schedule, for which there was room.
LEMMA LimitsCommit ==
    ASSUME PromiseInv, ReplaceInv, LimitsInv, UNCHANGED req, NEW r \in Keyed, CommitLands(r)
    PROVE  LimitsInv'
  <1>1. /\ Types /\ Keyed' = Keyed /\ r \in Requests /\ Admitted(r) /\ Room(r)
        /\ messages' = messages \cup {r} /\ cancelled \subseteq cancelled' /\ due' = due /\ age' = age
        /\ tx' = [tx EXCEPT ![r] = "committed"] /\ pc' = pc
    BY Zenon DEF PromiseInv, Keyed, Admitted, CommitLands, LimitsInv
  <1>2. IsFiniteSet(messages' \cap Requests)
    <2>1. messages' \cap Requests = (messages \cap Requests) \cup {r}
      BY <1>1, Zenon
    <2>. QED
      BY Zenon, <2>1, FS_AddElement DEF LimitsInv
  <1>3. /\ Future' \subseteq Future \cup {r}
        /\ ~req[r].scheduled => Future' \subseteq Future
    <2>1. \A m \in Ids : m # r => delivery'[m] = delivery[m]
      BY <1>1, Zenon DEF CommitLands, Types
    <2>2. Future' \subseteq Future \cup {r}
      BY <1>1, <2>1, Zenon DEF Future, Keyed, Ids
    <2>3. ~req[r].scheduled => r \notin Future'
      BY <1>1, Zenon DEF Future, LimitsInv
    <2>. QED
      BY <2>2, <2>3, Zenon
  <1>4. Cardinality(Future') <= ScheduleCap
    <2>1. IsFiniteSet(Future) /\ Cardinality(Future) \in Nat
      BY Zenon, ChargedFinite
    <2>2. CASE ~req[r].scheduled
      <3>1. Cardinality(Future') <= Cardinality(Future) /\ Cardinality(Future') \in Nat
        BY Zenon, <1>3, <2>1, <2>2, FS_Subset, FS_CardinalityType
      <3>. QED
        BY <2>1, <3>1, SubmissionAssumption DEF LimitsInv, WithinLimits
    <2>3. CASE req[r].scheduled
      <3>1. PICK F : F = Future \cup {r}
        BY Zenon
      <3>2. IsFiniteSet(F) /\ (Cardinality(F) = Cardinality(Future) \/ Cardinality(F) = Cardinality(Future) + 1)
        BY Zenon, <2>1, <3>1, FS_AddElement
      <3>3. Cardinality(Future') <= Cardinality(F) /\ Cardinality(Future') \in Nat
        BY Zenon, <1>3, <3>1, <3>2, FS_Subset, FS_CardinalityType
      <3>4. Cardinality(Future) < ScheduleCap
        BY Zenon, <1>1, <2>3 DEF Room
      <3>. QED
        BY <2>1, <3>2, <3>3, <3>4, SubmissionAssumption
    <2>. QED
      BY Zenon, <2>2, <2>3
  <1>5. ASSUME NEW w \in Windows, NEW Z \in SUBSET Streams, NEW n \in Limits(Z, w), n > 0
        PROVE  Spent(Z, w)' <= n
    <2>1. PICK S : S = Charged(Z, w)
      BY Zenon
    <2>2. PICK T : T = Charged(Z, w)'
      BY Zenon
    <2>3. S \subseteq Requests /\ IsFiniteSet(S)
      BY Zenon, <2>1, ChargedFinite
    <2>4. \A m : InWindow(m, w)' = InWindow(m, w)
      BY <1>1, Zenon DEF InWindow
    <2>5. /\ T \subseteq S \cup {r}
          /\ ~(req[r].stream \in Z /\ InWindow(r, w)) => T \subseteq S
      BY <1>1, <2>1, <2>2, <2>4, Zenon DEF Charged, Reserved
    <2>6. Spent(Z, w) = Cardinality(UnitsOf(S)) /\ Spent(Z, w)' = Cardinality(UnitsOf(T)')
      BY <2>1, <2>2, Zenon DEF Spent, UnitsOf
    <2>7. Spent(Z, w) \in Nat /\ n \in Nat /\ req[r].units \in Nat
      BY Zenon, <1>1, <2>3, <2>6, UnitsFinite, UnitsOfOne, LimitNumbers
    <2>8. CASE req[r].stream \in Z /\ InWindow(r, w)
      <3>1. Spent(Z, w) + req[r].units <= n
        BY <1>1, <1>5, <2>8, Zenon DEF Room
      <3>2. Spent(Z, w)' \in Nat /\ Spent(Z, w)' <= Spent(Z, w) + req[r].units
        BY Zenon, <1>1, <2>3, <2>5, <2>6, UnitsGrow
      <3>. QED
        BY <2>7, <3>1, <3>2
    <2>9. CASE ~(req[r].stream \in Z /\ InWindow(r, w))
      <3>1. Spent(Z, w) <= n
        BY <1>5, Zenon DEF LimitsInv, WithinLimits
      <3>2. Spent(Z, w)' \in Nat /\ Spent(Z, w)' <= Spent(Z, w)
        BY Zenon, <1>1, <2>3, <2>5, <2>6, <2>9, UnitsShrink
      <3>. QED
        BY <2>7, <3>1, <3>2
    <2>. QED
      BY Zenon, <2>8, <2>9
  <1>6. ASSUME NEW q \in Requests PROVE ~Admitted(q)'
    <2>1. CASE q = r
      BY Zenon, <1>1, <2>1 DEF Admitted, Types
    <2>2. CASE q # r
      <3>1. Admitted(q)' => Admitted(q)
        BY Zenon, <1>1, <2>2 DEF Admitted, Types
      <3>2. Admitted(q) => Holding(q)
        BY Zenon DEF Admitted, Holding
      <3>3. Holding(r) /\ (Holding(q) => identity = q) /\ identity = r
        BY <1>1, Zenon DEF Holding, Admitted, ReplaceInv
      <3>. QED
        BY <2>2, <3>1, <3>2, <3>3, Zenon
    <2>. QED
      BY Zenon, <2>1, <2>2
  <1>7. WithinLimits'
    BY <1>4, <1>5, Zenon DEF WithinLimits, Limits
  <1>. QED
    BY <1>1, <1>2, <1>6, <1>7, Zenon DEF LimitsInv

\* reserveSubmission, under the identity's lock, makes sure that there is room.
LEMMA LimitsReserve ==
    ASSUME PromiseInv, ReplaceInv, LimitsInv, UNCHANGED req, NEW r \in Requests, Reserve(r), Admits(r)
    PROVE  LimitsInv'
  <1>1. /\ Types /\ Keyed' = Keyed /\ r \in Keyed /\ tx[r] = "open" /\ identity \in {Nobody, r}
        /\ age' = [age EXCEPT ![r] = "minute"] /\ pc' = [pc EXCEPT ![r] = "reserved"]
        /\ UNCHANGED <<tx, messages, cancelled, delivery, due>>
    BY Zenon DEF PromiseInv, Keyed, Reserve, MayReserve, Goto, world
  <1>2. r \notin messages
    BY Zenon, <1>1 DEF ReplaceInv
  <1>3. Future' = Future /\ Reserved' = Reserved
    BY <1>1, Zenon DEF Future, Reserved
  <1>4. ASSUME NEW w, NEW Z PROVE Spent(Z, w)' = Spent(Z, w)
    <2>1. \A m \in Reserved : age'[m] = age[m]
      BY Zenon, <1>1, <1>2 DEF LimitsInv, Reserved, Keyed
    <2>2. \A m \in Reserved : InWindow(m, w)' = InWindow(m, w)
      BY <2>1, Zenon DEF InWindow
    <2>3. Charged(Z, w)' = Charged(Z, w)
      BY <1>3, <2>2, Zenon DEF Charged
    <2>. QED
      BY <2>3, Zenon DEF Spent, UnitsOf
  <1>5. WithinLimits'
    BY <1>3, <1>4, Zenon DEF LimitsInv, WithinLimits, Limits
  <1>6. ASSUME NEW w \in Windows, NEW Z \in SUBSET Streams, NEW n \in Limits(Z, w), n > 0,
               req[r].stream \in Z
        PROVE  Spent(Z, w) + req[r].units <= n
    <2>1. CASE Z = Streams /\ n = Budget[w]
      <3>1. \A m \in Reserved : req[m].stream \in Streams
        BY Zenon, <1>1, SubmissionAssumption DEF Types, Reserved, Keyed
      <3>2. Charged(Z, w) = {m \in Reserved : InWindow(m, w)}
        BY <2>1, <3>1, Zenon DEF Charged
      <3>3. Spent(Z, w) = Used(Reserved, w)
        BY <3>2, Zenon DEF Spent, Used
      <3>. QED
        BY <1>6, <2>1, <3>3, Zenon DEF Admits, Fits
    <2>2. CASE \E s \in DOMAIN StreamBudget : Z = {s} /\ n = StreamBudget[s][w]
      <3>1. Z = {req[r].stream} /\ n = StreamBudget[req[r].stream][w]
        BY <1>6, <2>2, Zenon
      <3>2. Charged(Z, w) = {m \in OfStream(req[r].stream) : InWindow(m, w)}
        BY <3>1, Zenon DEF Charged, OfStream
      <3>3. Spent(Z, w) = Used(OfStream(req[r].stream), w)
        BY <3>2, Zenon DEF Spent, Used
      <3>. QED
        BY <1>6, <3>1, <3>3, Zenon DEF Admits, Fits
    <2>. QED
      BY <2>1, <2>2, Zenon DEF Limits
  <1>7. ASSUME NEW q \in Requests, Admitted(q)' PROVE Room(q)'
    <2>1. CASE q = r
      <3>1. req[r].scheduled => Cardinality(Future) < ScheduleCap
        BY Zenon DEF Admits, AdmitSchedule
      <3>. QED
        BY <1>3, <1>4, <1>6, <2>1, <3>1, Zenon DEF Room, Limits
    <2>2. CASE q # r
      <3>1. Admitted(q)
        BY Zenon, <1>1, <1>7, <2>2 DEF Admitted, Types
      <3>2. identity = q /\ q # Nobody
        BY <1>1, <3>1, TargetsExist, Zenon DEF Admitted, Holding, ReplaceInv
      <3>. QED
        BY <1>1, <2>2, <3>2, Zenon
    <2>. QED
      BY Zenon, <2>1, <2>2
  <1>8. age' \in [Requests -> Ages]
    BY Zenon, <1>1 DEF LimitsInv, Ages
  <1>. QED
    BY <1>1, <1>5, <1>7, <1>8, Zenon DEF LimitsInv

\* Reservations only grow older.
LEMMA OlderAges ==
    ASSUME LimitsInv, NEW r \in Requests
    PROVE  Older(age[r]) \in Ages /\ \A w \in Windows :
             /\ w = "minute" /\ Older(age[r]) = "minute" => age[r] = "minute"
             /\ w = "hour" /\ Older(age[r]) \in {"minute", "hour"} => age[r] \in {"minute", "hour"}
             /\ w = "day" /\ Older(age[r]) \in {"minute", "hour", "day"} =>
                  age[r] \in {"minute", "hour", "day"}
  BY Zenon DEF LimitsInv, Ages, Older, Windows

\* Every step keeps the limits.
LEMMA LimitsKept == PromiseInv /\ ReplaceInv /\ LimitsInv /\ [Next]_vars => LimitsInv'
  <1> SUFFICES ASSUME PromiseInv, ReplaceInv, LimitsInv, [Next]_vars PROVE LimitsInv'
    BY Zenon
  <1>0. /\ Types /\ IsFiniteSet(messages \cap Requests) /\ age \in [Requests -> Ages] /\ "none" \in Ages
    BY Zenon DEF PromiseInv, LimitsInv, Ages
  \* What a step that leaves the stored messages alone has to show.
  <1>1. ASSUME UNCHANGED <<req, messages, cancelled, delivery, due, age>>,
               \A q \in Requests : Admitted(q)' => Admitted(q)
        PROVE  LimitsInv'
    <2>1. Future' = Future /\ \A m, w : InWindow(m, w)' = InWindow(m, w)
      BY <1>1, Zenon DEF Future, InWindow, Keyed
    <2>. QED
      BY <1>0, <1>1, <2>1, LimitsEase, Zenon
  <1>2. ASSUME NEW r \in Requests, UNCHANGED <<req, messages, cancelled, delivery, due>>, Rollback(r),
               \A q \in Requests : Admitted(q)' => Admitted(q)
        PROVE  LimitsInv'
    <2>1. age' = [age EXCEPT ![r] = IF Live(r) THEN "none" ELSE age[r]]
      BY <1>2, Zenon DEF Rollback
    <2>2. age' \in [Requests -> Ages] /\ \A m \in Requests : age'[m] \in {"none", age[m]}
      BY Zenon, <1>0, <2>1
    <2>3. \A m \in Requests, w \in Windows : InWindow(m, w)' => InWindow(m, w)
      BY Zenon, <2>2 DEF InWindow, Windows
    <2>4. Future' = Future
      BY <1>2, Zenon DEF Future, Keyed
    <2>. QED
      BY <1>0, <1>2, <2>2, <2>3, <2>4, LimitsEase, Zenon
  <1>3. ASSUME NEW r \in Requests, UNCHANGED req,
               LockKey(r) \/ Lookup(r) \/ InsertLedger(r) \/ Link(r) \/ SyncDirectory(r)
               \/ Enqueue(r) \/ Confirm(r) \/ UnlockKey(r) \/ Fails(r)
        PROVE  LimitsInv'
    <2>1. UNCHANGED <<req, messages, cancelled, delivery, due, age>>
      BY <1>3, Zenon DEF LockKey, Lookup, InsertLedger, Link, SyncDirectory, Enqueue, Confirm,
                         UnlockKey, Fails, database, world
    <2>2. \A q \in Requests : Admitted(q)' => Admitted(q)
      <3>1. CASE LockKey(r) \/ Lookup(r)
        BY Zenon, <1>0, <1>3, <3>1 DEF LockKey, Lookup, Answer, Goto, Admitted, Types, Keyed
      <3>2. CASE InsertLedger(r) \/ Fails(r)
        BY <1>0, <1>3, <3>2 DEF InsertLedger, Fails, Answer, Goto, Admitted, Types, Keyed
      <3>3. CASE Link(r) \/ SyncDirectory(r)
        BY Zenon, <1>0, <1>3, <3>3 DEF Link, SyncDirectory, Goto, Admitted, Types, Keyed
      <3>4. CASE Enqueue(r)
        BY Zenon, <1>0, <1>3, <3>4 DEF Enqueue, Goto, Admitted, Types, Keyed
      <3>5. CASE Confirm(r) \/ UnlockKey(r)
        BY Zenon, <1>0, <1>3, <3>5 DEF Confirm, UnlockKey, Answer, Admitted, Types, Keyed
      <3>. QED
        BY Zenon, <1>3, <3>1, <3>2, <3>3, <3>4, <3>5
    <2>. QED
      BY Zenon, <1>1, <2>1, <2>2
  <1>4. ASSUME NEW r \in Requests, UNCHANGED req, CancelTarget(r) PROVE LimitsInv'
    <2>1. CASE Cancellable(req[r].replaces)
      <3>1. UNCHANGED <<req, messages, cancelled, delivery, due, age>>
        BY <1>4, <2>1, Zenon DEF CancelTarget, database, world
      <3>2. \A q \in Requests : Admitted(q)' => Admitted(q)
        BY Zenon, <1>0, <1>4, <2>1 DEF CancelTarget, Goto, Admitted, Types, Keyed
      <3>. QED
        BY Zenon, <1>1, <3>1, <3>2
    <2>2. CASE ~Cancellable(req[r].replaces)
      <3>1. Rollback(r) /\ UNCHANGED <<req, messages, cancelled, delivery, due>>
        BY <1>4, <2>2, Zenon DEF CancelTarget, Rollback, world
      <3>2. \A q \in Requests : Admitted(q)' => Admitted(q)
        BY <1>0, <1>4, <2>2 DEF CancelTarget, Answer, Rollback, Live, Admitted, Types, Keyed
      <3>. QED
        BY Zenon, <1>2, <3>1, <3>2
    <2>. QED
      BY Zenon, <2>1, <2>2
  <1>5. ASSUME NEW r \in Requests, UNCHANGED req, Denied(r) \/ TransactionEnds(r) PROVE LimitsInv'
    <2>1. Rollback(r) /\ UNCHANGED <<req, messages, cancelled, delivery, due>>
      BY <1>5, Zenon DEF Denied, TransactionEnds, Rollback, world
    <2>2. \A q \in Requests : Admitted(q)' => Admitted(q)
      BY <1>0, <1>5 DEF Denied, TransactionEnds, Answer, Rollback, Live, Admitted, Types, Keyed
    <2>. QED
      BY Zenon, <1>2, <2>1, <2>2
  <1>6. ASSUME NEW r \in Requests, UNCHANGED req, Reserve(r) PROVE LimitsInv'
    <2>1. CASE Admits(r)
      BY Zenon, <1>6, <2>1, LimitsReserve
    <2>2. CASE ~Admits(r)
      <3>1. Rollback(r) /\ UNCHANGED <<req, messages, cancelled, delivery, due>> /\ Answer(r, Refused("refused"))
        BY <1>6, <2>2, Zenon DEF Reserve, Rollback, world
      <3>2. \A q \in Requests : Admitted(q)' => Admitted(q)
        BY Zenon, <1>0, <3>1 DEF Answer, Rollback, Live, Admitted, Types, Keyed
      <3>. QED
        BY Zenon, <1>2, <3>1, <3>2
    <2>. QED
      BY Zenon, <2>1, <2>2
  <1>7. ASSUME NEW r \in Requests, UNCHANGED req, CommitLands(r) PROVE LimitsInv'
    <2>1. CASE r \in Keyed
      BY Zenon, <1>7, <2>1, LimitsCommit
    <2>2. CASE r \notin Keyed
      <3>1. /\ messages' = messages \cup {r} /\ cancelled' = cancelled /\ UNCHANGED <<due, age, pc>>
            /\ tx' = [tx EXCEPT ![r] = "committed"]
            /\ \A m \in Ids : m # r => delivery'[m] = delivery[m]
        BY <1>0, <1>7, <2>2, TargetsExist, Zenon DEF CommitLands, Types
      <3>2. messages' \cap Keyed \subseteq messages /\ messages' \cap Requests = (messages \cap Requests) \cup {r}
        BY <2>2, <3>1, Zenon
      <3>3. IsFiniteSet(messages' \cap Requests)
        BY <1>0, <3>2, FS_AddElement
      <3>4. Future' \subseteq Future
        BY <1>7, <2>2, <3>1, Zenon DEF Future, Keyed, Ids
      <3>5. \A q \in Requests : Admitted(q)' => Admitted(q)
        BY Zenon, <1>0, <1>7, <3>1 DEF Admitted, Types, Keyed
      <3>6. \A m, w : InWindow(m, w)' = InWindow(m, w)
        BY <3>1, Zenon DEF InWindow
      <3>. QED
        BY <1>0, <1>7, <3>1, <3>2, <3>3, <3>4, <3>5, <3>6, LimitsEase, Zenon
    <2>. QED
      BY Zenon, <2>1, <2>2
  <1>8. ASSUME UNCHANGED req,
               \/ \E r \in Requests : ScheduleFallsDue(r)
               \/ \E m \in Ids : CancelPending(m) \/ Deliver(m)
        PROVE  LimitsInv'
    <2>1. /\ UNCHANGED <<req, messages, age, pc, tx>> /\ due \subseteq due' /\ cancelled \subseteq cancelled'
      BY <1>8, Zenon DEF ScheduleFallsDue, CancelPending, Deliver, database, world
    <2>2. \A m \in Ids : delivery'[m] \in {"queued", "claimed"} => delivery[m] \in {"queued", "claimed"}
      BY <1>0, <1>8 DEF ScheduleFallsDue, CancelPending, Deliver, world, Types
    <2>3. Future' \subseteq Future
      BY <1>0, <2>1, <2>2, Zenon DEF Future, Keyed, Types
    <2>4. /\ \A q \in Requests : Admitted(q)' => Admitted(q)
          /\ \A m, w : InWindow(m, w)' = InWindow(m, w)
      BY <2>1, Zenon DEF Admitted, Keyed, InWindow
    <2>. QED
      BY <1>0, <2>1, <2>3, <2>4, LimitsEase, Zenon
  <1>9. ASSUME UNCHANGED req, NEW kept, PowerLoss(kept) PROVE LimitsInv'
    <2>1. UNCHANGED <<req, messages, cancelled, delivery, due, age>>
      BY <1>9, Zenon DEF PowerLoss, database, world
    <2>2. \A q \in Requests : Admitted(q)' => Admitted(q)
      BY Zenon, <1>9 DEF PowerLoss, Admitted, Keyed
    <2>. QED
      BY Zenon, <1>1, <2>1, <2>2
  <1>10. ASSUME UNCHANGED req, TimePasses PROVE LimitsInv'
    <2>1. /\ UNCHANGED <<req, messages, cancelled, delivery, due, pc, tx>>
          /\ age' = [r \in Requests |-> Older(age[r])]
      BY <1>10, Zenon DEF TimePasses, world
    <2>2. age' \in [Requests -> Ages] /\ \A m \in Requests : age'[m] = Older(age[m])
      BY Zenon, <2>1, OlderAges
    <2>3. \A m \in Requests, w \in Windows : InWindow(m, w)' => InWindow(m, w)
      BY Zenon, <2>2, OlderAges DEF InWindow, Windows
    <2>4. Future' = Future /\ \A q \in Requests : Admitted(q)' => Admitted(q)
      BY <2>1, Zenon DEF Future, Admitted, Keyed
    <2>. QED
      BY <1>0, <2>1, <2>2, <2>3, <2>4, LimitsEase, Zenon
  <1>11. ASSUME UNCHANGED vars PROVE LimitsInv'
    <2>1. UNCHANGED <<req, messages, cancelled, delivery, due, age, pc, tx>>
      BY <1>11, Zenon DEF vars
    <2>2. \A q \in Requests : Admitted(q)' => Admitted(q)
      BY <2>1, Zenon DEF Admitted, Keyed
    <2>. QED
      BY Zenon, <1>1, <2>1, <2>2
  <1>. QED
    BY <1>3, <1>4, <1>5, <1>6, <1>7, <1>8, <1>9, <1>10, <1>11, Zenon DEF Next, Step

\* Before the first request nothing is charged.
LEMMA LimitsInitially == Init => LimitsInv
  <1> SUFFICES ASSUME Init PROVE LimitsInv
    BY Zenon
  <1>1. messages \cap Requests = {} /\ Reserved = {} /\ Future = {}
    BY SubmissionAssumption, Zenon DEF Init, Reserved, Future, Keyed
  <1>2. ASSUME NEW w, NEW Z PROVE Spent(Z, w) = 0
    <2>1. UnitsOf(Charged(Z, w)) = {}
      BY <1>1, Zenon DEF Charged, UnitsOf
    <2>. QED
      BY Zenon, <2>1, FS_EmptySet DEF Spent
  <1>3. \A w \in Windows : \A Z : \A n \in Limits(Z, w) : n > 0 => Spent(Z, w) <= n
    BY <1>2, SubmissionAssumption DEF Limits
  <1>4. IsFiniteSet(messages \cap Requests) /\ Cardinality(Future) <= ScheduleCap
    BY <1>1, FS_EmptySet, SubmissionAssumption
  <1>5. \A r \in Requests : ~Admitted(r)
    BY Zenon DEF Init, Admitted
  <1>6. age \in [Requests -> Ages] /\ \A r \in Requests : r \in due \/ req[r].scheduled
    BY Zenon DEF Init, Ages
  <1>. QED
    BY <1>3, <1>4, <1>5, <1>6, Zenon DEF LimitsInv, WithinLimits

\* The committed reservations stay within every limit of the website and its streams,
\* and the schedule within its cap, whatever requests run at once.
THEOREM LimitsAreHonoured == Spec => []LimitsHonoured
  <1>1. Init => PromiseInv /\ ReplaceInv /\ LimitsInv
    BY LimitsInitially, PromiseInitially, SubmissionAssumption, Zenon
       DEF Init, ReplaceInv, Holding, Replacing, Ids
  <1>2. PromiseInv /\ ReplaceInv /\ LimitsInv /\ [Next]_vars => (PromiseInv /\ ReplaceInv /\ LimitsInv)'
    BY PromiseKept, ReplaceKept, LimitsKept, Zenon
  <1>3. PromiseInv /\ LimitsInv => LimitsHonoured
    <2> SUFFICES ASSUME PromiseInv, LimitsInv PROVE LimitsHonoured
      BY Zenon
    <2>1. \A m \in Reserved : req[m].stream \in Streams
      BY Zenon, SubmissionAssumption DEF PromiseInv, Types, Reserved, Keyed
    <2>2. ASSUME NEW w \in Windows, Budget[w] > 0 PROVE Used(Reserved, w) <= Budget[w]
      <3>1. Charged(Streams, w) = {m \in Reserved : InWindow(m, w)}
        BY <2>1, Zenon DEF Charged
      <3>2. Budget[w] \in Limits(Streams, w)
        BY Zenon DEF Limits
      <3>. QED
        BY <2>2, <3>1, <3>2, Zenon DEF LimitsInv, WithinLimits, Spent, Used
    <2>3. ASSUME NEW w \in Windows, NEW s \in DOMAIN StreamBudget, StreamBudget[s][w] > 0
          PROVE  Used(OfStream(s), w) <= StreamBudget[s][w]
      <3>1. Charged({s}, w) = {m \in OfStream(s) : InWindow(m, w)}
        BY Zenon DEF Charged, OfStream
      <3>2. StreamBudget[s][w] \in Limits({s}, w) /\ {s} \in SUBSET Streams
        BY SubmissionAssumption, Zenon DEF Limits
      <3>. QED
        BY <2>3, <3>1, <3>2, Zenon DEF LimitsInv, WithinLimits, Spent, Used
    <2>. QED
      BY <2>2, <2>3, Zenon DEF LimitsInv, WithinLimits, LimitsHonoured
  <1>. QED
    BY <1>1, <1>2, <1>3, PTL DEF Spec
=============================================================================
