----------------------------- MODULE ImsSession -----------------------------
(***************************************************************************)
(* One IMS registration (internal/vocat/vowifi/ims/provider.go and         *)
(* security.go): Start tries P-CSCF addresses and transports, REGISTER is  *)
(* answered with challenges, a security agreement is installed in the      *)
(* kernel, a loop refreshes the binding, and Close deregisters, closes     *)
(* every socket, waits for the readers and takes the policies out.         *)
(*                                                                         *)
(* session.mu is held for a whole REGISTER; "reg" is that REGISTER.  The   *)
(* registrar and the network choose their answers; everything unusual      *)
(* spends one of MaxFaults.                                                *)
(***************************************************************************)
EXTENDS Naturals, Sequences, FiniteSets

CONSTANTS
    Securities,    \* configured security modes: of "disabled", "optional", "required"
    Candidates,    \* P-CSCF addresses
    Fallback,      \* the other transport is tried as well
    MaxChallenges, \* maxAuthenticationChallenges
    MaxFaults,     \* bound: refusals, losses, local errors
    MaxRefresh     \* bound: refreshes

ImsSessionConstants ==
    /\ Securities \subseteq {"disabled", "optional", "required"} /\ Candidates \in Nat \ {0} /\ Fallback \in BOOLEAN
    /\ MaxChallenges \in Nat /\ MaxFaults \in Nat /\ MaxRefresh \in Nat

Clients == {"start", "refresh", "close"}

VARIABLES
    security,  \* the configured mode
    start,     \* Start: where it is, and which address and transport it tries
    reg,       \* the REGISTER that holds session.mu
    answer,    \* what the registrar answered
    offered,   \* securityOffered: a proposal and its ports are there
    secure,    \* securityActive
    kernel,    \* policies are installed
    conn,      \* the SIP connection is open
    readers,   \* runtime receivers that run
    inbound,   \* a connection of the P-CSCF: accepted, read (in inboundConnections), closed by Close
    evidence,  \* evidence.Registered, and a SIP response was seen
    loop,      \* refreshLoop
    failure,   \* publishFailure was called
    close,     \* Close
    result,    \* what Close returned
    bound,     \* the registrar holds the binding
    faults, refreshes \* of MaxFaults and MaxRefresh, what is left

local == <<offered, secure, kernel, conn, readers, inbound>>
vars == <<security, start, reg, answer, local, evidence, loop, failure, close, result, bound, faults, refreshes>>

NoReg == [who |-> "none"]
Reg(w) == [who |-> w, pc |-> "send", challenges |-> 0, interval |-> FALSE]
Answers == {"none", "ok", "zero", "challenge", "interval", "refused", "lost"}

TypeOK ==
    /\ security \in Securities
    /\ start \in [pc : {"next", "dial", "register", "abort", "up", "failed"}, at : 1 .. Candidates + 1, alt : BOOLEAN]
    /\ reg = NoReg \/ reg \in [who : Clients, pc : {"send", "wait", "secure"}, challenges : 0 .. MaxChallenges, interval : BOOLEAN]
    /\ answer \in Answers /\ {offered, secure, kernel, conn} \subseteq BOOLEAN
    /\ readers \subseteq {"main", "accept", "datagram"} /\ inbound \in {"none", "accepted", "read", "closed"}
    /\ evidence \in [registered : BOOLEAN, seen : BOOLEAN]
    /\ loop \in {"off", "sleep", "refresh", "failing", "done"} /\ failure \in BOOLEAN
    /\ close \in {"no", "wait", "lock", "deregister", "sockets", "inbound", "receivers", "kernel", "done"}
    /\ result \in {"none", "ok", "warned", "error"} /\ bound \in BOOLEAN
    /\ faults \in 0 .. MaxFaults /\ refreshes \in 0 .. MaxRefresh

Init ==
    /\ security \in Securities
    /\ start = [pc |-> "next", at |-> 1, alt |-> FALSE] /\ reg = NoReg /\ answer = "none"
    /\ offered = FALSE /\ secure = FALSE /\ kernel = FALSE /\ conn = FALSE /\ readers = {} /\ inbound = "none"
    /\ evidence = [registered |-> FALSE, seen |-> FALSE] /\ loop = "off" /\ failure = FALSE
    /\ close = "no" /\ result = "none" /\ bound = FALSE /\ faults = MaxFaults /\ refreshes = MaxRefresh

Fault == faults > 0 /\ faults' = faults - 1
Usual == UNCHANGED faults

-----------------------------------------------------------------------------
(* Start.                                                                  *)

GoesTo(pc) == start' = [start EXCEPT !.pc = pc]

\* The next transport of this address after an attempt without any SIP response, else the
\* next address.
NextTryAlways ==
    IF Fallback /\ ~ start.alt
    THEN [start EXCEPT !.pc = "dial", !.alt = TRUE]
    ELSE [pc |-> "next", at |-> start.at + 1, alt |-> FALSE]
NextTry ==
    IF Fallback /\ ~ start.alt /\ ~ evidence.seen
    THEN [start EXCEPT !.pc = "dial", !.alt = TRUE]
    ELSE [pc |-> "next", at |-> start.at + 1, alt |-> FALSE]

NextAddress ==
    /\ start.pc = "next" /\ GoesTo(IF start.at > Candidates THEN "failed" ELSE "dial")
    /\ evidence' = [evidence EXCEPT !.seen = FALSE]
    /\ UNCHANGED <<security, reg, answer, local, loop, failure, close, result, bound, faults, refreshes>>

\* The protected ports are reserved unless the mode is disabled; nothing was registered yet.
NewSession ==
    /\ conn' = TRUE /\ offered' = (security # "disabled")
    /\ reg' = Reg("start") /\ evidence' = [registered |-> FALSE, seen |-> FALSE]

Dial ==
    /\ start.pc = "dial"
    /\ \/ Usual /\ GoesTo("register") /\ NewSession
       \/ Fault /\ start' = NextTry /\ UNCHANGED <<reg, conn, offered, evidence>>
    /\ UNCHANGED <<security, answer, secure, kernel, readers, inbound, loop, failure, close, result, bound, refreshes>>

\* A failed attempt closes what it opened; policies it fails to take out are nobody's any more.
Abort ==
    /\ start.pc = "abort" /\ start' = NextTry
    /\ conn' = FALSE /\ offered' = FALSE /\ secure' = FALSE /\ kernel' = FALSE
    /\ UNCHANGED <<security, reg, answer, readers, inbound, evidence, loop, failure, close, result, bound, faults, refreshes>>

-----------------------------------------------------------------------------
(* REGISTER.                                                               *)

\* After the receivers have started only they can deliver an answer.
Deliverable == conn /\ (reg.who = "start" \/ "main" \in readers)
Expires == reg.who # "close"

RegistrarAnswers ==
    \/ Usual /\ bound' = Expires /\ answer' = "ok"
    \/ Usual /\ reg.who = "start" /\ reg.challenges = 0 /\ answer' = "challenge" /\ UNCHANGED bound
    \/ /\ Fault
       /\ \/ Expires /\ answer' = "zero" /\ bound' = FALSE
          \/ answer' \in {"challenge", "refused"} /\ UNCHANGED bound
          \/ Expires /\ answer' = "interval" /\ UNCHANGED bound
          \/ answer' = "lost" /\ bound' \in {bound, Expires}

SendREGISTER ==
    /\ reg.who # "none" /\ reg.pc = "send" /\ reg' = [reg EXCEPT !.pc = "wait"]
    /\ IF Deliverable THEN RegistrarAnswers ELSE answer' = "lost" /\ UNCHANGED <<bound, faults>>
    /\ UNCHANGED <<security, start, local, evidence, loop, failure, close, result, refreshes>>

Waits(a) == reg.who # "none" /\ reg.pc = "wait" /\ answer = a
Answered == answer' = "none" /\ evidence' = [evidence EXCEPT !.seen = TRUE]

\* One retry with the registrar's longer interval, never for a deregistration.
Interval ==
    /\ Waits("interval") /\ Expires /\ ~ reg.interval
    /\ reg' = [reg EXCEPT !.pc = "send", !.interval = TRUE] /\ Answered
    /\ UNCHANGED <<security, start, local, loop, failure, close, result, bound, faults, refreshes>>

\* Challenges are answered at most MaxChallenges times, and only before IPsec is active.
MayAuthenticate == reg.challenges < MaxChallenges /\ ~ secure

\* The registrar names security mechanisms of the proposal, or none: then it is withdrawn.
Agrees == offered /\ reg' = [reg EXCEPT !.pc = "secure", !.challenges = @ + 1] /\ UNCHANGED offered
Declines == security # "required" /\ offered' = FALSE /\ reg' = [reg EXCEPT !.pc = "send", !.challenges = @ + 1]
\* The SIM asks to synchronise: there are no keys yet.
Synchronises == reg' = [reg EXCEPT !.pc = "send", !.challenges = @ + 1] /\ UNCHANGED offered

\* With an agreement the policies are installed before the challenge is answered.
Challenge ==
    /\ Waits("challenge") /\ MayAuthenticate /\ Answered
    /\ \/ Agrees /\ Usual
       \/ Declines /\ Usual
       \/ Synchronises /\ Fault /\ offered
    /\ UNCHANGED <<security, start, secure, kernel, conn, readers, inbound, loop, failure, close, result, bound, refreshes>>

\* The caller's part when register returns an error or a response that is not 200.
Fails ==
    /\ reg' = NoReg
    /\ CASE reg.who = "start" -> GoesTo("abort") /\ UNCHANGED <<loop, close>>
         [] reg.who = "refresh" -> loop' = "failing" /\ UNCHANGED <<start, close>>
         [] reg.who = "close" -> close' = "sockets" /\ UNCHANGED <<start, loop>>
\* failRefresh; a failed deregistration closes the session all the same.
Lost == IF reg.who = "start" THEN evidence.registered ELSE FALSE
Noted == IF reg.who = "close" THEN "warned" ELSE result

\* The protected connection replaces the connection; a receiver that reads the old one fails.
ActivateIPSec ==
    /\ reg.who # "none" /\ reg.pc = "secure"
    /\ \/ /\ Usual /\ secure' = TRUE /\ kernel' = TRUE /\ reg' = [reg EXCEPT !.pc = "send"]
          /\ UNCHANGED <<start, conn, loop, close, result, evidence>>
          /\ readers' = readers \ {"main"} /\ failure' = (failure \/ "main" \in readers)
       \/ /\ Fault /\ Fails  \* installing fails, or the protected connection
          /\ conn' \in {conn, FALSE} /\ result' = Noted /\ evidence' = [evidence EXCEPT !.registered = Lost]
          /\ UNCHANGED <<secure, kernel, readers, failure>>
    /\ UNCHANGED <<security, answer, offered, inbound, bound, refreshes>>

RegisterFails ==
    /\ \/ Waits("refused") \/ Waits("lost") \/ (Waits("interval") /\ (reg.interval \/ ~ Expires))
       \/ (Waits("challenge") /\ (~ MayAuthenticate \/ (~ offered /\ security = "required")))
    /\ Fails /\ answer' = "none" /\ result' = Noted
    /\ evidence' = [registered |-> Lost, seen |-> evidence.seen \/ answer # "lost"]
    /\ UNCHANGED <<security, local, failure, bound, faults, refreshes>>

\* A cancelled context ends the wait of the refresh at once.
RefreshCancelled ==
    /\ reg.who = "refresh" /\ reg.pc = "wait" /\ close # "no"
    /\ Fails /\ answer' = "none" /\ evidence' = [evidence EXCEPT !.registered = FALSE]
    /\ UNCHANGED <<security, local, failure, result, bound, faults, refreshes>>

\* applyRegistrationEvidence; the variant overlooks that protection is required.
AcceptsUnprotected == answer = "ok"
Accepts == answer = "ok" /\ (security = "required" => secure)
ReceiversFor(s) == {"main"} \cup (IF s THEN {"accept", "datagram"} ELSE {})

Registered ==
    /\ Waits("ok") \/ Waits("zero")
    /\ IF reg.who # "close" /\ ~ Accepts
       THEN /\ Fails /\ evidence' = [registered |-> FALSE, seen |-> TRUE] /\ UNCHANGED <<readers, result>>
       ELSE /\ reg' = NoReg /\ UNCHANGED result
            /\ CASE reg.who = "start" ->
                      /\ GoesTo("up") /\ readers' = ReceiversFor(secure) /\ loop' = "sleep"
                      /\ evidence' = [registered |-> TRUE, seen |-> TRUE] /\ UNCHANGED close
                 [] reg.who = "refresh" ->
                      /\ loop' = "sleep" /\ evidence' = [registered |-> TRUE, seen |-> TRUE]
                      /\ UNCHANGED <<start, readers, close>>
                 [] reg.who = "close" ->
                      close' = "sockets" /\ evidence' = [registered |-> FALSE, seen |-> TRUE]
                      /\ UNCHANGED <<start, readers, loop>>
    /\ answer' = "none"
    /\ UNCHANGED <<security, offered, secure, kernel, conn, inbound, failure, bound, faults, refreshes>>

-----------------------------------------------------------------------------
(* The registered session.                                                 *)

RefreshDue ==
    /\ loop = "sleep" /\ close = "no" /\ reg = NoReg /\ refreshes > 0
    /\ loop' = "refresh" /\ reg' = Reg("refresh") /\ refreshes' = refreshes - 1
    /\ UNCHANGED <<security, start, answer, local, evidence, failure, close, result, bound, faults>>

PublishFailure ==
    /\ loop = "failing" /\ loop' = "done" /\ failure' = TRUE
    /\ UNCHANGED <<security, start, reg, answer, local, evidence, close, result, bound, faults, refreshes>>

ReceiverFails ==
    /\ "main" \in readers /\ conn /\ Fault
    /\ readers' = readers \ {"main"} /\ failure' = TRUE
    /\ UNCHANGED <<security, start, reg, answer, offered, secure, kernel, conn, inbound, evidence, loop, close, result, bound, refreshes>>

\* acceptProtectedTCP: the connection is entered into inboundConnections after it was accepted.
Accept ==
    /\ "accept" \in readers /\ offered /\ inbound = "none" /\ inbound' = "accepted"
    /\ UNCHANGED <<security, start, reg, answer, offered, secure, kernel, conn, readers, evidence, loop, failure, close, result, bound, faults, refreshes>>

Enter ==
    /\ inbound = "accepted" /\ inbound' = "read"
    /\ UNCHANGED <<security, start, reg, answer, offered, secure, kernel, conn, readers, evidence, loop, failure, close, result, bound, faults, refreshes>>

\* readInboundTCP ends with its connection: the P-CSCF's choice, or Close's.
PeerCloses ==
    /\ inbound = "read" /\ inbound' = "none"
    /\ UNCHANGED <<security, start, reg, answer, offered, secure, kernel, conn, readers, evidence, loop, failure, close, result, bound, faults, refreshes>>

InboundEnds ==
    /\ inbound = "closed" /\ inbound' = "none"
    /\ UNCHANGED <<security, start, reg, answer, offered, secure, kernel, conn, readers, evidence, loop, failure, close, result, bound, faults, refreshes>>

-----------------------------------------------------------------------------
(* Close.                                                                  *)

CloseStep(from, to) == close = from /\ close' = to

CloseBegins ==
    /\ start.pc = "up" /\ CloseStep("no", "wait")
    /\ UNCHANGED <<security, start, reg, answer, local, evidence, loop, failure, result, bound, faults, refreshes>>

LoopStops ==
    /\ close # "no" /\ loop = "sleep" /\ loop' = "done"
    /\ UNCHANGED <<security, start, reg, answer, local, evidence, failure, close, result, bound, faults, refreshes>>

\* A caller out of time closes the connection to end a refresh.
CloseImpatient ==
    /\ close = "wait" /\ loop # "done" /\ conn /\ Fault /\ conn' = FALSE
    /\ UNCHANGED <<security, start, reg, answer, offered, secure, kernel, readers, inbound, evidence, loop, failure, close, result, bound, refreshes>>

\* Without time there is no deregistration, and no error either.
Deregister ==
    /\ close = "wait" /\ loop = "done" /\ reg = NoReg
    /\ \/ /\ evidence.registered /\ conn /\ Usual /\ close' = "deregister" /\ reg' = Reg("close")
          /\ UNCHANGED evidence
       \/ /\ ~ evidence.registered \/ ~ conn
          /\ close' = "sockets" /\ Usual /\ UNCHANGED reg /\ evidence' = [evidence EXCEPT !.registered = FALSE]
       \/ /\ evidence.registered /\ conn /\ Fault
          /\ close' = "sockets" /\ UNCHANGED reg /\ evidence' = [evidence EXCEPT !.registered = FALSE]
    /\ UNCHANGED <<security, start, answer, local, loop, failure, result, bound, refreshes>>

\* Every socket is closed, then the inbound connections that are entered by now.
CloseSockets ==
    /\ CloseStep("sockets", "inbound") /\ conn' = FALSE /\ offered' = FALSE
    /\ UNCHANGED <<security, start, reg, answer, secure, kernel, readers, inbound, evidence, loop, failure, result, bound, faults, refreshes>>

CloseInbound ==
    /\ CloseStep("inbound", "receivers")
    /\ inbound' = IF inbound = "read" THEN "closed" ELSE inbound
    /\ UNCHANGED <<security, start, reg, answer, offered, secure, kernel, conn, readers, evidence, loop, failure, result, bound, faults, refreshes>>

\* A receiver ends when its socket is closed; the acceptor has entered its last connection.
Ends(r) ==
    CASE r = "main" -> ~ conn
      [] r = "accept" -> ~ offered /\ inbound # "accepted"
      [] r = "datagram" -> ~ offered

ReceiverEnds(r) ==
    /\ r \in readers /\ Ends(r) /\ readers' = readers \ {r}
    /\ failure' = (failure \/ (r = "main" /\ close \in {"no", "wait"}))
    /\ UNCHANGED <<security, start, reg, answer, offered, secure, kernel, conn, inbound, evidence, loop, close, result, bound, faults, refreshes>>

WaitReceivers ==
    /\ CloseStep("receivers", "kernel") /\ readers = {} /\ inbound = "none"
    /\ UNCHANGED <<security, start, reg, answer, local, evidence, loop, failure, result, bound, faults, refreshes>>

\* closeResult.
Verdict(localError) == IF localError THEN "error" ELSE IF result = "warned" THEN "warned" ELSE "ok"

\* The policies have time of their own; a failed deregistration is only a warning
\* when everything local was released.
CloseKernel ==
    /\ CloseStep("kernel", "done")
    /\ \/ Usual /\ kernel' = FALSE /\ result' = Verdict(FALSE)
       \/ Fault /\ kernel /\ UNCHANGED kernel /\ result' = Verdict(TRUE)
    /\ UNCHANGED <<security, start, reg, answer, offered, secure, conn, readers, inbound, evidence, loop, failure, bound, refreshes>>

-----------------------------------------------------------------------------
Establish == NextAddress \/ Dial \/ Abort
Register ==
    \/ SendREGISTER \/ Interval \/ Challenge \/ ActivateIPSec \/ RegisterFails \/ RefreshCancelled \/ Registered
Refresh == LoopStops \/ PublishFailure
Closing == Deregister \/ CloseSockets \/ CloseInbound \/ WaitReceivers \/ CloseKernel
Receiver == Enter \/ InboundEnds \/ \E r \in {"main", "accept", "datagram"} : ReceiverEnds(r)

Next ==
    \/ Establish \/ Register \/ Refresh \/ RefreshDue \/ ReceiverFails \/ Accept \/ Receiver \/ PeerCloses
    \/ CloseBegins \/ Closing \/ CloseImpatient

\* Every goroutine goes on: timers end each wait of a REGISTER.  The caller's Close, the
\* P-CSCF and the network are not obliged to anything.
Fairness ==
    /\ WF_vars(Establish) /\ WF_vars(Register) /\ WF_vars(Refresh) /\ WF_vars(Closing)
    /\ WF_vars(Enter) /\ WF_vars(InboundEnds)
    /\ \A r \in {"main", "accept", "datagram"} : WF_vars(ReceiverEnds(r))

FairSpec == Init /\ [][Next]_vars /\ Fairness

-----------------------------------------------------------------------------
(* Properties.                                                             *)

\* A session that says it is registered is: the registrar holds its binding (outside a
\* running REGISTER), and with SecurityRequired the policies protect it.
RegisteredMeansBound ==
    /\ evidence.registered /\ reg = NoReg => bound
    /\ evidence.registered /\ security = "required" => secure /\ kernel

\* A session in use that lost its registration or its SIP receiver tells its supervisor.
LossIsPublished ==
    start.pc = "up" /\ close = "no" =>
        /\ ~ evidence.registered => failure \/ loop = "failing"
        /\ "main" \notin readers => failure

\* Only one session of an attempt is left: a failed Start leaves no socket, no policy and no reader.
FailedIsClean ==
    start.pc \in {"next", "failed"} => ~ conn /\ ~ offered /\ ~ kernel /\ readers = {}

SessionSound == TypeOK /\ RegisteredMeansBound /\ LossIsPublished /\ FailedIsClean

\* "A challenge or rejection is authoritative and is never retried as another transport"
\* (provider.go, AutoTransportFallback); an address is not tried twice with one transport.
Authoritative ==
    [][/\ start'.at >= start.at /\ (start.alt /\ ~ start'.alt => start'.at > start.at)
       /\ ~ start.alt /\ start'.alt => ~ evidence.seen]_vars

\* A Close that returns without a local error has released everything local: the hook that
\* reports an unconfirmed deregistration is called in no other state.
CleanClose ==
    close = "done" /\ result \in {"ok", "warned"} =>
        ~ conn /\ ~ offered /\ ~ kernel /\ readers = {} /\ inbound = "none" /\ reg = NoReg

\* Close ends, or waits for nothing but a connection the P-CSCF holds.
CloseOrPeer == (close # "no") ~> (close = "done" \/ (close = "receivers" /\ readers = {} /\ inbound = "read"))

\* "Close every socket before waiting for those goroutines; waiting first deadlocks VoWiFi
\* shutdown" (provider.go, Close).  A connection that was accepted but not yet entered is
\* not closed, and Close waits until the P-CSCF ends it.
CloseEnds == (close # "no") ~> (close = "done")

=============================================================================
