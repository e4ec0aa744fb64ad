-------------------------------- MODULE Ingress --------------------------------
(***************************************************************************)
(* What a gateway's handlers hold while they wait: the slots of the HTTP   *)
(* API and the places of each key (internal/api/send.go), the limiter      *)
(* (ResourceLimiter), and the connections of the database pool             *)
(* (database/sql, SetMaxOpenConns).  A submission over HTTP needs two      *)
(* connections at once: one has the advisory lock of its idempotency key,  *)
(* the other the transaction.                                              *)
(*                                                                         *)
(* A handler is the sequence of what it takes and gives back; what it does *)
(* between is in Submission and DeliveryQueue.  Any call between may fail; *)
(* then the deferred calls give everything back.  A request that is        *)
(* refused for want of a slot, of a place or of a token of its key's       *)
(* bucket leaves nothing behind.                                           *)
(***************************************************************************)
EXTENDS ResourceLimiter

CONSTANTS
    Posts, Inspections, Sessions, Workers,  \* the kinds of Callers
    Key,            \* the API key of a request
    Slots,          \* submissions at a time: 4
    ReadSlots,      \* reads at a time: 4
    PerKey,         \* requests of a key at a time: 2
    Pool            \* connections: 10, one of them the ownership guard's

ASSUME IngressAssumption ==
    /\ Callers = Posts \cup Inspections \cup Sessions \cup Workers
    /\ Slots \in Nat /\ Pool \in Nat /\ Slots < Pool
    /\ DOMAIN Key = Posts \cup Inspections

VARIABLES
    at,         \* steps of its path a handler has taken; NotIn when there is none
    held        \* the pool's connections each has

ingressVars == <<vars, at, held>>

NotIn == -1

\* POST /v1/messages: is the key enabled; ReceiveReplacing; enqueueIdempotent.
SubmitPath == <<"connect", "return", "acquire", "connect", "connect", "return", "return", "release">>

\* The inspection of a sandbox message: its transaction is committed first.
InspectPath == <<"connect", "return", "acquire", "release">>

\* Receiver.Receive, of SMTP DATA.
DataPath == <<"acquire", "connect", "return", "release">>

\* runOne: the claim, the delivery, and its record.
WorkPath == <<"acquire", "connect", "return", "connect", "return", "release">>

Path(c) ==
    CASE c \in Posts -> SubmitPath
      [] c \in Inspections -> InspectPath
      [] c \in Sessions -> DataPath
      [] c \in Workers -> WorkPath

Busy(c) == at[c] # NotIn
Upcoming(c) == IF Busy(c) /\ at[c] < Len(Path(c)) THEN Path(c)[at[c] + 1] ELSE "end"

IngressInit ==
    /\ Init
    /\ at = [c \in Callers |-> NotIn]
    /\ held = [c \in Callers |-> 0]

(***************************************************************************)
(* Admission.  Submissions and reads have slots and places of their own.   *)
(***************************************************************************)
Among(S) == Cardinality({d \in S : Busy(d)})

\* Slip: submissions are bounded by the places of their keys alone.
SlotFreeForReads(c) == c \in Inspections => Among(Inspections) < ReadSlots
SlotFree(c) ==
    /\ c \in Posts => Among(Posts) < Slots
    /\ c \in Inspections => Among(Inspections) < ReadSlots

PlaceFree(c) ==
    /\ c \in Posts => Among({d \in Posts : Key[d] = Key[c]}) < PerKey
    /\ c \in Inspections => Among({d \in Inspections : Key[d] = Key[c]}) < PerKey

Enter(c) ==
    /\ ~Busy(c) /\ c \notin gone
    /\ SlotFree(c) /\ PlaceFree(c)
    /\ at' = [at EXCEPT ![c] = 0]
    /\ UNCHANGED <<vars, held>>

Advance(c) == at' = [at EXCEPT ![c] = @ + 1]

(***************************************************************************)
(* The pool hands a free connection to any of those who wait for one.      *)
(***************************************************************************)
FreeConnections == Pool - MapThenSumSet(LAMBDA d : held[d], Callers)

TakeConnection(c) ==
    /\ Upcoming(c) = "connect" /\ FreeConnections > 0 /\ c \notin gone
    /\ held' = [held EXCEPT ![c] = @ + 1]
    /\ Advance(c) /\ UNCHANGED vars

\* A transaction ends, or the connection with the advisory lock is closed.
Return(c) ==
    /\ Upcoming(c) = "return"
    /\ held' = [held EXCEPT ![c] = @ - 1]
    /\ Advance(c) /\ UNCHANGED vars

\* Acquire of the limiter, and its later passes.
Reserve(c) ==
    /\ Upcoming(c) = "acquire"
    /\ Acquire(c) \/ Wake(c)
    /\ IF pc'[c] = "holding" THEN Advance(c)
       ELSE IF pc'[c] = "waiting" THEN UNCHANGED at
       ELSE at' = [at EXCEPT ![c] = NotIn]
    /\ held' = IF pc'[c] = "idle" THEN [held EXCEPT ![c] = 0] ELSE held

GiveBack(c) ==
    /\ Upcoming(c) = "release"
    /\ Release(c)
    /\ at' = [at EXCEPT ![c] = NotIn]
    /\ UNCHANGED held

\* The request is refused or answered early (its form, a busy or a known idempotency
\* key), a call fails, or the context ends: the deferred calls run.
Fails(c) ==
    /\ Busy(c) /\ pc[c] # "waiting"
    /\ at' = [at EXCEPT ![c] = NotIn]
    /\ held' = [held EXCEPT ![c] = 0]
    /\ IF pc[c] = "holding" THEN Release(c) ELSE UNCHANGED vars

\* Contexts: a request's timeout or its client; a later request has a new one.
Expires(c) == Busy(c) /\ ContextEnds(c) /\ UNCHANGED <<at, held>>
Renews(c) == ~Busy(c) /\ NewContext(c) /\ UNCHANGED <<at, held>>

Step(c) == Return(c) \/ Reserve(c) \/ GiveBack(c)

IngressNext ==
    \E c \in Callers : Enter(c) \/ TakeConnection(c) \/ Step(c) \/ Fails(c) \/ Expires(c) \/ Renews(c)

\* Goroutines that can run do, also when their context has ended.  The pool picks
\* one of those who wait at random, so nobody is passed over for ever.
IngressFairness ==
    \A c \in Callers :
        /\ WF_ingressVars(Step(c) \/ (c \in gone /\ Fails(c)))
        /\ SF_ingressVars(TakeConnection(c))

IngressSpec == IngressInit /\ [][IngressNext]_ingressVars /\ IngressFairness

(***************************************************************************)
(* Properties.                                                             *)
(***************************************************************************)
\* Every handler that has been admitted ends, and not by its timeout alone: nobody
\* waits for a connection or for the limiter for ever, although submissions wait
\* for a second connection with the first in hand and all of them hold memory while
\* they wait (the slots of NewSendHandler, the order of Acquire and Conn).
EveryoneFinishes == \A c \in Callers : Busy(c) ~> ~Busy(c)
================================================================================
