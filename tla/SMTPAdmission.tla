----------------------------- MODULE SMTPAdmission -----------------------------
(***************************************************************************)
(* Who may speak SMTP to the gateway (internal/smtpserver): the limits on  *)
(* connections and on password checks, per process and per source, and     *)
(* what a session must have done before its mail is received.              *)
(*                                                                         *)
(* The limits are kept in sourceState objects that a sweep deletes when    *)
(* they are idle, while connections and password checks keep pointers to   *)
(* them and give back later.  A connection can be closed under a session   *)
(* that is still running (Server.Close at the end of a shutdown), and a    *)
(* session goes on with what it has read already.                          *)
(*                                                                         *)
(* Token buckets refuse a call as the time wills: any call that they are   *)
(* asked about may be refused.                                             *)
(***************************************************************************)
EXTENDS Integers, FiniteSets

CONSTANTS
    Sources,
    Connections,    \* connections that are made, one after the other or at once
    From,           \* the source of a connection
    Total,          \* Limits.Connections
    PerSource,      \* Limits.PerSource
    MaxSources,     \* maxSources
    Tries,          \* AUTH commands of a session: 5
    Accounts, Addresses,
    Allows,         \* the addresses an account may send from
    ObjectBound,    \* bound: sourceState objects that are made
    Nothing

ASSUME AdmissionAssumption ==
    /\ From \in [Connections -> Sources] /\ IsFiniteSet(Connections)
    /\ Total \in Nat /\ PerSource \in Nat /\ Tries \in Nat /\ ObjectBound \in Nat

VARIABLES
    object,     \* admission.sources: the number of the source's object, 0 for none
    made,       \* objects made so far
    counted,    \* the counters of an object: connections, auth
    total,      \* admission.total
    conn,       \* a connection: fresh, open, or closed; and its object
    session     \* what the session of a connection has

smtpVars == <<object, made, counted, total, conn, session>>

NewSession == [tls |-> FALSE, tries |-> 0, checking |-> 0, account |-> Nothing,
               from |-> Nothing, recipients |-> FALSE]

Objects == 1 .. ObjectBound

SMTPTypeOK ==
    /\ object \in [Sources -> 0 .. made] /\ made \in 0 .. ObjectBound
    /\ counted \in [Objects -> [connections : Nat, auth : Nat]]
    /\ total \in Nat
    /\ conn \in [Connections -> [is : {"fresh", "open", "closed"}, object : 0 .. made]]
    /\ session \in [Connections ->
            [tls : BOOLEAN, tries : 0 .. Tries, checking : 0 .. made,
             account : Accounts \cup {Nothing}, from : Addresses \cup {Nothing},
             recipients : BOOLEAN]]

SMTPInit ==
    /\ object = [s \in Sources |-> 0] /\ made = 0
    /\ counted = [o \in Objects |-> [connections |-> 0, auth |-> 0]]
    /\ total = 0
    /\ conn = [c \in Connections |-> [is |-> "fresh", object |-> 0]]
    /\ session = [c \in Connections |-> NewSession]

(***************************************************************************)
(* admission.connect and the release it returns.                           *)
(***************************************************************************)
\* Slip: a source without connections is swept although it checks a password.
SweepableUnlessConnected(s) == object[s] # 0 /\ counted[object[s]].connections = 0
\* Idle; whether for long enough is up to the clock.
Sweepable(s) ==
    /\ object[s] # 0
    /\ counted[object[s]].connections = 0 /\ counted[object[s]].auth = 0

Sweep(S) == [s \in Sources |-> IF s \in S THEN 0 ELSE object[s]]

\* The source's object, made when there is none.
With(map, s) == IF map[s] = 0 THEN [map EXCEPT ![s] = made + 1] ELSE map

Connect(c, S, refused) ==
    LET s == From[c]
        swept == Sweep(S)
        now == With(swept, s)
        o == now[s]
    IN
    /\ conn[c].is = "fresh"
    /\ \A t \in S : Sweepable(t)
    /\ total < Total
    /\ \/ swept[s] # 0
       \/ /\ Cardinality({t \in Sources : swept[t] # 0}) < MaxSources
          /\ made < ObjectBound
    /\ object' = now
    /\ made' = IF swept[s] = 0 THEN made + 1 ELSE made
    /\ \/ /\ refused \/ counted[o].connections >= PerSource
          /\ conn' = [conn EXCEPT ![c].is = "closed"]
          /\ UNCHANGED <<counted, total>>
       \/ /\ ~refused /\ counted[o].connections < PerSource
          /\ conn' = [conn EXCEPT ![c] = [is |-> "open", object |-> o]]
          /\ counted' = [counted EXCEPT ![o].connections = @ + 1]
          /\ total' = total + 1
    /\ UNCHANGED session

\* No place, or too many sources.
Refuse(c, S) ==
    /\ conn[c].is = "fresh"
    /\ \A t \in S : Sweepable(t)
    /\ \/ total >= Total
       \/ /\ Sweep(S)[From[c]] = 0
          /\ Cardinality({t \in Sources : Sweep(S)[t] # 0}) >= MaxSources
    /\ object' = Sweep(S)
    /\ conn' = [conn EXCEPT ![c].is = "closed"]
    /\ UNCHANGED <<made, counted, total, session>>

\* trackedConn.Close, by either side or by Server.Close; only the first call counts.
Close(c) ==
    /\ conn[c].is = "open"
    /\ conn' = [conn EXCEPT ![c].is = "closed"]
    /\ counted' = [counted EXCEPT ![conn[c].object].connections = @ - 1]
    /\ total' = total - 1
    /\ UNCHANGED <<object, made, session>>

(***************************************************************************)
(* The session.                                                            *)
(***************************************************************************)
\* A connection was accepted, and no password is being checked.  After its close
\* the commands that were read already are still carried out.
Speaking(c) == conn[c].object # 0 /\ session[c].checking = 0
SessionFrame == UNCHANGED <<object, made, total, conn>>

StartTLS(c) ==
    /\ Speaking(c) /\ ~session[c].tls
    /\ session' = [session EXCEPT ![c] = [NewSession EXCEPT !.tls = TRUE]]
    /\ UNCHANGED counted /\ SessionFrame

\* AUTH, which the library refuses after a successful one: authenticate finds the
\* source's object and takes its one place, or the try was in vain.
AuthBegins(c, refused) ==
    LET o == object[From[c]] IN
    /\ Speaking(c) /\ session[c].tls /\ session[c].account = Nothing
    /\ session[c].tries < Tries
    /\ IF o = 0 \/ refused \/ counted[o].auth >= 1
       THEN session' = [session EXCEPT ![c].tries = @ + 1] /\ UNCHANGED counted
       ELSE /\ session' = [session EXCEPT ![c].tries = @ + 1, ![c].checking = o]
            /\ counted' = [counted EXCEPT ![o].auth = @ + 1]
    /\ SessionFrame

\* The password is right for an account, or it is not and account is Nothing.
AuthEnds(c, account) ==
    LET o == session[c].checking IN
    /\ o # 0
    /\ session' = [session EXCEPT ![c].checking = 0, ![c].account = account]
    /\ counted' = [counted EXCEPT ![o].auth = @ - 1]
    /\ SessionFrame

\* Reset, and then the sender if the account may use it.
Mailed(c, a) ==
    [session[c] EXCEPT !.recipients = FALSE,
                       !.from = IF a \in Allows[session[c].account] THEN a ELSE Nothing]

Mail(c, a) ==
    /\ Speaking(c) /\ session[c].account # Nothing
    /\ session' = [session EXCEPT ![c] = Mailed(c, a)]
    /\ UNCHANGED counted /\ SessionFrame

Rcpt(c) ==
    /\ Speaking(c) /\ session[c].account # Nothing /\ session[c].from # Nothing
    /\ session' = [session EXCEPT ![c].recipients = TRUE]
    /\ UNCHANGED counted /\ SessionFrame

\* Data hands the envelope to Receive, and resets; RSET only resets.
Data(c) ==
    /\ Speaking(c) /\ session[c].account # Nothing /\ session[c].from # Nothing
    /\ session[c].recipients
    /\ session' = [session EXCEPT ![c].from = Nothing, ![c].recipients = FALSE]
    /\ UNCHANGED counted /\ SessionFrame

SMTPNext ==
    \E c \in Connections :
        \/ \E S \in SUBSET Sources : (\E refused \in BOOLEAN : Connect(c, S, refused)) \/ Refuse(c, S)
        \/ Close(c) \/ StartTLS(c)
        \/ \E refused \in BOOLEAN : AuthBegins(c, refused)
        \/ \E account \in Accounts \cup {Nothing} : AuthEnds(c, account)
        \/ \E a \in Addresses : Mail(c, a)
        \/ Rcpt(c) \/ Data(c)

SMTPSpec == SMTPInit /\ [][SMTPNext]_smtpVars

(***************************************************************************)
(* Properties.                                                             *)
(***************************************************************************)
Live(s) == {c \in Connections : conn[c].is = "open" /\ From[c] = s}
Checking(s) == {c \in Connections : session[c].checking # 0 /\ From[c] = s}

\* The limits hold of what is really open and running, however sweeps, closes under
\* running sessions and late releases interleave: connections in all and per source,
\* and one password check per source (admission.connect, authenticate, the sweep).
SourceLimitsHold ==
    /\ Cardinality({c \in Connections : conn[c].is = "open"}) = total /\ total <= Total
    /\ \A s \in Sources :
        Cardinality(Live(s)) <= PerSource /\ Cardinality(Checking(s)) <= 1
================================================================================
