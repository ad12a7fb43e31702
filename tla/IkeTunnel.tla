----------------------------- MODULE IkeTunnel ------------------------------
(* The worker opens an IKEv2 tunnel to the operator's gateway (vowifi/ike:    *)
(* provider.go, transport.go, eap.go): IKE_SA_INIT with cookies, several      *)
(* gateway addresses behind a proxy and one legacy fallback; EAP-AKA rounds   *)
(* with the SIM; the last IKE_AUTH; and the DELETE that gives the tunnel up.  *)
(* Datagrams are lost, delayed and repeated: what was sent stays on the wire  *)
(* and is read, late or again, by whoever it still matches.  The gateway is   *)
(* external and follows the protocol.                                         *)
EXTENDS Integers, Sequences

CONSTANTS Configs,    \* of a Provider: addresses of the ePDG, AutoProposalFallback
          Rounds,     \* EAP rounds of a Start: 10
          Challenges  \* maxIKEInitCookieChallenges: 2

IkeConstants == /\ Configs \subseteq [gateways : Nat \ {0}, fallback : BOOLEAN]
                /\ Rounds \in Nat \ {0} /\ Challenges \in Nat \ {0}

VARIABLES
    config,     \* the addresses are tried in the order 1 .. config.gateways
    pc,         \* the goroutine in Start, or the session it returned
    stage,      \* the exchange it is in
    attempt,    \* 1: modern proposal, 2: legacy; each has SPIs of its own
    tries,      \* IKE_SA_INIT requests answered with a cookie
    remote,     \* the address it sends to
    held,       \* a cookie was kept while the other addresses are asked
    mid,        \* messageID
    deleteId,   \* cleanupMessageID, once there is an SA to clean up, or 0
    round,      \* EAP requests answered
    aka,        \* akaClient: challengeComplete, resultIndication, protectedSuccess
    requests,   \* datagrams sent to the gateways
    responses,  \* datagrams sent to the client
    peer        \* what each gateway knows of each attempt: [sa, next, ri]

vars == <<config, pc, stage, attempt, tries, remote, held, mid, deleteId, round, aka, requests, responses, peer>>

Attempts == 1..2
Hosts == 1..config.gateways
Fresh == [done |-> FALSE, indicated |-> FALSE, protected |-> FALSE]

Request(m, kind, g, a) == [spi |-> a, gw |-> g, mid |-> m, kind |-> kind]
Response(m, kind, g, a) == [spi |-> a, gw |-> g, mid |-> m, kind |-> kind]

Init == /\ config \in Configs
        /\ pc = "idle" /\ stage = "init" /\ attempt = 1 /\ tries = 0 /\ remote = 1 /\ held = FALSE
        /\ mid = 0 /\ deleteId = 0 /\ round = 0 /\ aka = Fresh
        /\ requests = {} /\ responses = {}
        /\ peer = [a \in Attempts, g \in Hosts |-> [sa |-> "none", next |-> 0, ri |-> FALSE]]

-----------------------------------------------------------------------------
(* The gateway (external).                                                    *)

\* It answers the request it expects; a repeated one gets the same answer, which the
\* wire still holds.  An answer for SPIs that were given up is read by nobody.
Answers(q, kind) ==
    responses' = responses \cup (IF q.spi = attempt THEN {Response(q.mid, kind, q.gw, q.spi)} ELSE {})
PeerAnswers(q, kind, sa, ri) ==
    /\ Answers(q, kind)
    /\ peer' = [peer EXCEPT ![q.spi, q.gw] = [sa |-> sa, next |-> q.mid + 1, ri |-> ri]]

InitKinds == {"init", "initCookie"}

Gateway(q) ==
    /\ q \in requests
    /\ LET p == peer[q.spi, q.gw]
       IN  \/ /\ q.kind = "init" /\ p.next = 0     \* no state is kept for a cookie
              /\ Answers(q, "cookie") /\ UNCHANGED peer
           \/ /\ q.kind \in InitKinds /\ p.next = 0
              /\ PeerAnswers(q, "ok", "half", FALSE)
           \/ /\ q.kind \in InitKinds /\ p.next = 0
              /\ PeerAnswers(q, "noProposal", "none", FALSE)
           \/ /\ q.kind \notin InitKinds /\ q.mid = p.next /\ p.sa \in {"half", "up"}
              /\ \/ /\ q.kind = "first" /\ PeerAnswers(q, "identity", "half", FALSE)
                 \/ /\ q.kind \in {"first", "identity", "auts"}
                    /\ \E ri \in BOOLEAN :
                          PeerAnswers(q, IF ri THEN "challengeRI" ELSE "challenge", "half", ri)
                 \/ /\ q.kind = "res"
                    /\ PeerAnswers(q, IF p.ri THEN "notify" ELSE "success", "half", p.ri)
                 \/ /\ q.kind = "ack" /\ PeerAnswers(q, "success", "half", p.ri)
                 \/ /\ q.kind \in {"first", "identity", "res", "reject", "clientError"}
                    /\ \E kind \in {"failure", "noProposal"} : PeerAnswers(q, kind, "none", FALSE)
                 \/ /\ q.kind = "final" /\ PeerAnswers(q, "auth", "up", FALSE)
                 \/ /\ q.kind = "final" /\ PeerAnswers(q, "fatal", "none", FALSE)
                 \* The proposal of the CHILD_SA alone is refused: the IKE SA stands.
                 \/ /\ q.kind = "final" /\ PeerAnswers(q, "noProposal", "up", FALSE)
                 \/ /\ q.kind = "delete" /\ PeerAnswers(q, "deleted", "none", FALSE)
    /\ UNCHANGED <<pc, stage, attempt, tries, remote, held, mid, deleteId, round, aka, requests, config>>

-----------------------------------------------------------------------------
(* The client.                                                                *)

Send(m, kind, g, a) == requests' = requests \cup {Request(m, kind, g, a)}

\* start: a new transport, new SPIs, an IKE_SA_INIT without a cookie.
Dial(a, left) ==
    /\ pc' = "wait" /\ stage' = "init" /\ attempt' = a /\ tries' = 0 /\ remote' = 1 /\ held' = FALSE
    /\ mid' = 0 /\ deleteId' = 0 /\ round' = 0 /\ aka' = Fresh
    /\ requests' = requests \cup left \cup {Request(0, "init", 1, a)}

Start == pc = "idle" /\ Dial(1, {}) /\ UNCHANGED <<config, responses, peer>>

\* NO_PROPOSAL_CHOSEN or INVALID_KE_PAYLOAD, of IKE_SA_INIT or inside an answer of IKE_AUTH.
FallsBack(kind) == config.fallback /\ kind = "noProposal" /\ attempt = 1

\* The deferred calls of start: one DELETE, sent once and not waited for, when
\* keys were agreed; then the transport is closed, and another start may follow.
Deferred == IF deleteId = 0 THEN {} ELSE {Request(deleteId, "delete", remote, attempt)}
GivesUp(kind) ==
    IF FallsBack(kind)
    THEN Dial(2, Deferred)
    ELSE /\ pc' = "failed" /\ requests' = requests \cup Deferred
         /\ UNCHANGED <<stage, attempt, tries, remote, held, mid, deleteId, round, aka>>

\* ikeResponseMatchesRequest behind the sender's address: the answer to the
\* exchange under way, from the address it went to.
Matches(r) == /\ r \in responses /\ r.spi = attempt /\ r.mid = mid
              /\ r.gw = remote
              /\ r.kind # "deleted"

\* IKE_SA_INIT is sent to the next address, or again from the first with the
\* cookie that was kept.
NextAddress(keep) ==
    /\ remote' = remote + 1 /\ held' = keep
    /\ Send(0, IF tries = 0 THEN "init" ELSE "initCookie", remote + 1, attempt)
    /\ UNCHANGED <<pc, stage, attempt, tries, mid, deleteId, round, aka>>

Again ==
    IF tries + 1 = Challenges
    THEN GivesUp("cookies")
    ELSE /\ tries' = tries + 1 /\ remote' = 1 /\ held' = FALSE
         /\ Send(0, "initCookie", 1, attempt)
         /\ UNCHANGED <<pc, stage, attempt, mid, deleteId, round, aka>>

Cookie == /\ stage = "init"
          /\ \E r \in responses : Matches(r) /\ r.kind = "cookie"
          /\ IF remote < config.gateways THEN NextAddress(TRUE) ELSE Again

\* No answer within the timeout of the exchange.
TimesOut == IF stage # "init" THEN GivesUp("timeout")
            ELSE IF remote < config.gateways THEN NextAddress(held)
            ELSE IF held THEN Again
            ELSE GivesUp("timeout")

DeleteIdAfter(m) == m + 1

\* The next IKE_AUTH request; from now on a failure sends a DELETE after it.
Exchange(m, kind, next) ==
    /\ mid' = m /\ stage' = next /\ deleteId' = DeleteIdAfter(m)
    /\ Send(m, kind, remote, attempt)
    /\ UNCHANGED <<pc, attempt, tries, remote, held>>

\* Keys are derived, the transport floats to port 4500, EAP begins.
Agreed == /\ stage = "init"
          /\ \E r \in responses : Matches(r) /\ r.kind = "ok"
          /\ Exchange(1, "first", "eap") /\ UNCHANGED <<round, aka>>

\* akaClient.handle answers; after the last round the reply is still sent, and
\* what it brings is not looked at.
Replies(kind, new) ==
    /\ round < Rounds
    /\ Exchange(mid + 1, kind, "eap")
    /\ round' = round + 1 /\ aka' = new

\* respondAKAChallenge, with what the SIM may say: a result, a counter to
\* synchronise, a wrong network, nothing usable - or the driver fails.
Challenged(ri) ==
    \/ Replies("res", [aka EXCEPT !.done = TRUE, !.indicated = ri])
    \/ Replies("auts", aka)
    \/ Replies("reject", aka)
    \/ Replies("clientError", aka)
    \/ GivesUp("sim")

\* EAP success counts after a challenge, and, where the network asked for a
\* protected result, after the protected notification.
Succeeds == aka.done /\ (aka.indicated => aka.protected)

Eap(r) ==
    /\ stage = "eap" /\ Matches(r)
    /\ IF round = Rounds THEN GivesUp("rounds")
       ELSE CASE r.kind = "identity" -> Replies("identity", aka)
              [] r.kind = "challenge" -> Challenged(FALSE)
              [] r.kind = "challengeRI" -> Challenged(TRUE)
              [] r.kind = "notify" /\ aka.done /\ aka.indicated -> Replies("ack", [aka EXCEPT !.protected = TRUE])
              [] r.kind = "success" /\ Succeeds ->
                    Exchange(mid + 1, "final", "final") /\ UNCHANGED <<round, aka>>
              [] OTHER -> GivesUp(r.kind)

\* The AUTH of the gateway is verified and the CHILD_SA installed; the relay
\* takes over the DELETE, with the same identifier.
Established ==
    /\ stage = "final"
    /\ \E r \in responses : Matches(r) /\ r.kind = "auth"
    /\ pc' = "up"
    /\ UNCHANGED <<stage, attempt, tries, remote, held, mid, deleteId, round, aka, requests>>

\* A refusal, an answer that does not parse, a selection that was not offered,
\* no inner address, an installer that fails; the answer after the last round is not read.
Refused == \E r \in responses :
              Matches(r) /\ ~ (stage = "eap" /\ round = Rounds) /\ GivesUp(r.kind)

\* The wire loses what no SPI is left for.
Follows == responses' = {r \in responses : r.spi = attempt'} /\ UNCHANGED <<config, peer>>

Receive == /\ pc = "wait"
           /\ Cookie \/ Agreed \/ Established \/ Refused \/ \E r \in responses : Eap(r)
           /\ Follows

Timeout == pc = "wait" /\ TimesOut /\ Follows

\* The caller's context ends: no other address is tried.
Cancelled == pc = "wait" /\ GivesUp("cancelled") /\ Follows

\* Session.Close: CloseWithDelete.
Close == /\ pc = "up" /\ pc' = "closed"
         /\ Send(deleteId, "delete", remote, attempt)
         /\ UNCHANGED <<stage, attempt, tries, remote, held, mid, deleteId, round, aka, config, responses, peer>>

Next == Start \/ Receive \/ Timeout \/ Cancelled \/ Close \/ \E q \in requests : Gateway(q)

Spec == Init /\ [][Next]_vars

-----------------------------------------------------------------------------
TypeOK ==
    /\ pc \in {"idle", "wait", "up", "failed", "closed"}
    /\ stage \in {"init", "eap", "final"}
    /\ attempt \in Attempts /\ tries \in 0..Challenges - 1 /\ remote \in Hosts /\ held \in BOOLEAN
    /\ round \in 0..Rounds /\ mid \in 0..Rounds + 2 /\ deleteId \in 0..Rounds + 3

\* The tunnel exists where the session believes it does: the gateway at this
\* address holds the SA of this attempt.
BothEnds == pc = "up" => peer[attempt, remote].sa = "up"

\* Nothing encrypted is sent to an address that did not answer IKE_SA_INIT.
OneGateway == \A q \in requests : q.mid > 0 => peer[q.spi, q.gw].next > 0

\* A gateway that holds a tunnel nobody uses any more has been sent the DELETE
\* it expects next: the right SPIs and the right message identifier.
NoOrphan ==
    \A a \in Attempts, g \in Hosts :
        \/ peer[a, g].sa # "up"
        \/ attempt = a /\ remote = g /\ pc \in {"wait", "up"}
        \/ Request(peer[a, g].next, "delete", g, a) \in requests

TunnelSound == TypeOK /\ BothEnds /\ OneGateway /\ NoOrphan

=============================================================================
