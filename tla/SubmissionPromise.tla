-------------------------- MODULE SubmissionPromise --------------------------
(***************************************************************************)
(* What the HTTP entry promises its clients about idempotency keys: a key  *)
(* stands for the first request that was accepted with it, for ever.  Who  *)
(* is told of success is told of that request, and only when it asked for  *)
(* the same thing; an error promises nothing in either direction.  Of a    *)
(* request without a key nothing is said here.                             *)
(***************************************************************************)
CONSTANTS Requests, Keys, Asks, Nobody

VARIABLES asked,        \* what each request asks for, with which key
          accepted,     \* the request a key stands for
          told          \* what each client was told

KeyOf(r) == asked[r].key
PrintOf(r) == asked[r].print
Keyed == {r \in Requests : KeyOf(r) \in Keys}

Silence == [kind |-> "none", id |-> Nobody]

Init ==
    /\ asked \in [Requests -> Asks]
    /\ accepted = [k \in Keys |-> Nobody]
    /\ told = [r \in Requests |-> Silence]

\* A request is accepted, before anyone is told.
Accept(r) ==
    /\ accepted[KeyOf(r)] = Nobody
    /\ accepted' = [accepted EXCEPT ![KeyOf(r)] = r]
    /\ UNCHANGED told

Tell(r, kind, id) ==
    /\ told[r] = Silence
    /\ told' = [told EXCEPT ![r] = [kind |-> kind, id |-> id]]
    /\ UNCHANGED accepted

Succeed(r) == accepted[KeyOf(r)] = r /\ Tell(r, "accepted", r)

Replay(r) ==
    LET m == accepted[KeyOf(r)] IN
    m # Nobody /\ m # r /\ PrintOf(m) = PrintOf(r) /\ Tell(r, "replayed", m)

Conflict(r) ==
    LET m == accepted[KeyOf(r)] IN
    m # Nobody /\ PrintOf(m) # PrintOf(r) /\ Tell(r, "conflict", Nobody)

\* Turned away before it could be accepted: never accepted afterwards, since the
\* client has been told nothing was done.
TurnAway(r) == accepted[KeyOf(r)] # r /\ \E why \in {"busy", "refused"} : Tell(r, why, Nobody)

\* Errors, to any number of clients at once.
GiveUp(S) ==
    /\ \A r \in S : told[r] = Silence
    /\ told' = [r \in Requests |->
                    IF r \in S THEN [kind |-> "error", id |-> Nobody] ELSE told[r]]
    /\ UNCHANGED accepted

\* A request that was turned away, told of a conflict or of another's message is
\* not accepted later; one whose client got an error may be.
MayAccept(r) == told[r].kind \in {"none", "error"}

Next ==
    /\ \/ \E r \in Keyed : \/ MayAccept(r) /\ Accept(r)
                           \/ Succeed(r) \/ Replay(r) \/ Conflict(r) \/ TurnAway(r)
       \/ \E S \in SUBSET Keyed : GiveUp(S)
    /\ UNCHANGED asked

Spec == Init /\ [][Next]_<<asked, accepted, told>>
==============================================================================
