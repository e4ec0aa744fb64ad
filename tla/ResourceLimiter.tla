--------------------------- MODULE ResourceLimiter ---------------------------
(***************************************************************************)
(* internal/resource.Limiter: the memory and spool budget that receivers   *)
(* and delivery workers of a process share, with a queue in arrival order. *)
(*                                                                         *)
(* The mutex makes each pass through the loop of Acquire one step.  A      *)
(* waiter keeps the channel `changed' it read under the mutex; closing the *)
(* channel wakes all who hold it, so what is left of the channel is one    *)
(* flag per waiter.  Peaks are reporting and are left out.                 *)
(***************************************************************************)
EXTENDS Integers, Sequences, FiniteSets, FiniteSetsExt

CONSTANTS
    Callers,
    Need,           \* what each caller asks for: memory and spool
    Limit           \* memoryLimit and spoolLimit

ASSUME LimiterAssumption ==
    /\ Limit \in [memory : Nat, spool : Nat]
    /\ Need \in [Callers -> [memory : Nat, spool : Nat]]
    /\ IsFiniteSet(Callers)

VARIABLES
    pc,             \* idle, waiting in Acquire's select, or holding
    queue,          \* Limiter.queue
    used,           \* Limiter.memory and Limiter.spool
    waiting,        \* Limiter.waiting
    woken,          \* whose channel has been closed
    gone            \* whose context is done

vars == <<pc, queue, used, waiting, woken, gone>>

InQueue == {queue[i] : i \in 1 .. Len(queue)}

TypeOK ==
    /\ pc \in [Callers -> {"idle", "waiting", "holding"}]
    /\ queue \in Seq(Callers) /\ Len(queue) = Cardinality(InQueue)
    /\ InQueue = {c \in Callers : pc[c] = "waiting"}
    /\ used \in [memory : Int, spool : Int]
    /\ waiting = Len(queue)
    /\ woken \subseteq InQueue /\ gone \subseteq Callers

Init ==
    /\ pc = [c \in Callers |-> "idle"]
    /\ queue = <<>> /\ used = [memory |-> 0, spool |-> 0] /\ waiting = 0
    /\ woken = {} /\ gone = {}

\* Slip: only the spool is compared.
FitsSpool(c) == Need[c].spool <= Limit.spool - used.spool
Fits(c) ==
    /\ Need[c].memory <= Limit.memory - used.memory
    /\ Need[c].spool <= Limit.spool - used.spool

MayTake(c, q) == Head(q) = c /\ Fits(c)

Without(q, c) == SelectSeq(q, LAMBDA d : d # c)

\* close(changed): everyone else in the queue looks again.
Broadcast(q) == {q[i] : i \in 1 .. Len(q)}

(***************************************************************************)
(* One pass through the loop of Acquire; q is the queue, n the waiters.    *)
(***************************************************************************)
GiveUp(c, q, n) ==
    /\ c \in gone
    /\ pc' = [pc EXCEPT ![c] = "idle"] /\ queue' = Without(q, c) /\ waiting' = n - 1
    /\ woken' = Broadcast(Without(q, c)) /\ UNCHANGED used

Plus(a, b) == [memory |-> a.memory + b.memory, spool |-> a.spool + b.spool]
Minus(a, b) == [memory |-> a.memory - b.memory, spool |-> a.spool - b.spool]

Grant(c, q, n) ==
    /\ c \notin gone /\ MayTake(c, q)
    /\ pc' = [pc EXCEPT ![c] = "holding"] /\ queue' = Without(q, c) /\ waiting' = n - 1
    /\ woken' = Broadcast(Without(q, c)) /\ used' = Plus(used, Need[c])

Sleep(c, q, n) ==
    /\ c \notin gone /\ ~MayTake(c, q)
    /\ pc' = [pc EXCEPT ![c] = "waiting"] /\ queue' = q /\ waiting' = n
    /\ woken' = woken \ {c} /\ UNCHANGED used

Pass(c, q, n) == GiveUp(c, q, n) \/ Grant(c, q, n) \/ Sleep(c, q, n)

\* A request beyond the whole budget is refused at once and leaves no trace.
Acquire(c) ==
    /\ pc[c] = "idle"
    /\ Need[c].memory <= Limit.memory /\ Need[c].spool <= Limit.spool
    /\ Pass(c, Append(queue, c), waiting + 1)
    /\ UNCHANGED gone

\* The select returns: the channel is closed or the context is done.
Wake(c) ==
    /\ pc[c] = "waiting" /\ (c \in woken \/ c \in gone)
    /\ Pass(c, queue, waiting)
    /\ UNCHANGED gone

\* The function Acquire returned; its Once makes further calls no steps.
Release(c) ==
    /\ pc[c] = "holding"
    /\ pc' = [pc EXCEPT ![c] = "idle"]
    /\ used' = Minus(used, Need[c])
    /\ woken' = Broadcast(queue)
    /\ UNCHANGED <<queue, waiting, gone>>

\* The caller's context ends; a later call comes with a new one.
ContextEnds(c) ==
    /\ c \notin gone /\ gone' = gone \cup {c}
    /\ UNCHANGED <<pc, queue, used, waiting, woken>>
NewContext(c) ==
    /\ pc[c] = "idle" /\ c \in gone /\ gone' = gone \ {c}
    /\ UNCHANGED <<pc, queue, used, waiting, woken>>

Next == \E c \in Callers :
    Acquire(c) \/ Wake(c) \/ Release(c) \/ ContextEnds(c) \/ NewContext(c)

\* Goroutines that can run do, and every holder defers its release.
Fairness == \A c \in Callers : WF_vars(Wake(c)) /\ WF_vars(Release(c))

Spec == Init /\ [][Next]_vars /\ Fairness

(***************************************************************************)
(* Properties.                                                             *)
(***************************************************************************)
Holders == {c \in Callers : pc[c] = "holding"}

\* The units the holders took, unit by unit: as many as the sum of their needs.
Taken(what) == UNION {{c} \X (1 .. Need[c][what]) : c \in Holders}

\* The counters are what the holders took, and never beyond the limits: no grant is
\* lost or given back twice, whoever gives up in the queue.
WithinBudget ==
    \A what \in {"memory", "spool"} :
        used[what] = Cardinality(Taken(what)) /\ used[what] <= Limit[what]

==============================================================================
