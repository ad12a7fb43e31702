---- MODULE MCRegistrations ----
(* Who may call and over what: the router's accounts and grants, a call    *)
(* that rings an account's phones, and the IMS registration of a module on  *)
(* Wi-Fi.                                                                   *)
EXTENDS Integers, Router, TLC

CONSTANTS
    a1, m1, Phones, Nobody, Securities, Candidates, Fallback, MaxChallenges, MaxFaults, MaxRefresh

VARIABLES
    part,  \* the part whose behaviour this is
    main, leg, line, router, rung, callStopped, stopped, peerClosed, selected, finished,
    incResponses, winner, won, connected, moduleClosed, done, outcome, record, finalizer, phone,
    acked, byes, ended, security, start, reg, answer, offered, secure, kernel, conn, readers,
    inbound, evidence, loop, failure, close, result, bound, faults, refreshes

\* Everything with or without incoming calls.
ReceiveChoices == {[modules |-> Modules, receive |-> TRUE], [modules |-> Modules, receive |-> FALSE]}

\* The phones belong to one account and share its record.
OneAccount == [l \in Phones |-> a1]

Inc == INSTANCE IncomingCall WITH
    Owner <- OneAccount, responses <- incResponses
Ims == INSTANCE ImsSession

ASSUME ImsBounds == Ims!ImsSessionConstants

varsInc == <<main, leg, line, router, rung, callStopped, stopped, peerClosed, selected,
        finished, incResponses, winner, won, connected, moduleClosed, done, outcome, record,
        finalizer, phone, acked, byes, ended>>
varsIms == <<security, start, reg, answer, offered, secure, kernel, conn, readers, inbound,
        evidence, loop, failure, close, result, bound, faults, refreshes>>
all == <<part, vars, varsInc, varsIms>>

\* Every part is as the program finds it, and one of them goes on.
InitAll ==
    /\ part \in {"router", "incoming", "ims"}
    /\ Init
    /\ Inc!Init
    /\ Ims!Init /\ (part # "ims" => security = "required")

NextAll ==
    \/ part = "router" /\ Next /\ UNCHANGED <<part, varsInc, varsIms>>
    \/ part = "incoming" /\ Inc!Next /\ UNCHANGED <<part, vars, varsIms>>
    \/ part = "ims" /\ Ims!Next /\ UNCHANGED <<part, vars, varsInc>>

\* The part that goes on is scheduled as its module says.
Fair ==
    \/ part = "router" /\ Fairness
    \/ part = "incoming" /\ Inc!Fairness
    \/ part = "ims" /\ Ims!Fairness

Behaviour == InitAll /\ [][NextAll]_all /\ Fair

-----------------------------------------------------------------------------
\* An IMS session that says it is registered is, and a failed or closed one leaves nothing
\* behind (ImsSession).
RegistrationSound == Ims!SessionSound /\ Ims!CleanClose

\* A revocation is complete in its step (Router.revoke), and an IMS challenge or rejection is
\* never retried over another transport (ImsSession).
AnswersBind == RevocationIsImmediate /\ Ims!Authoritative

\* Every call set up connects or is forgotten, every stopped one is released (Router,
\* IncomingCall); an IMS session being closed waits for nothing but its P-CSCF (ImsSession).
EverythingEnds == CallsSettle /\ Inc!EveryCallEnds /\ Ims!CloseOrPeer
=============================================================================
