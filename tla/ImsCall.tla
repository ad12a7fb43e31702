------------------------------ MODULE ImsCall ------------------------------
(***************************************************************************)
(* The calls of one IMS session (internal/vocat/vowifi/ims/call_*.go):     *)
(* the dialog with the carrier seen from all the goroutines that touch it  *)
(* - the user's operations, the readers of the SIP sockets, the watcher of *)
(* the outgoing INVITE, the senders of PRACK and CANCEL, the repeater of   *)
(* the incoming answer and the timers.                                     *)
(*                                                                         *)
(* A request reaches the carrier at once or is lost; what the carrier      *)
(* sends stays in "down" until a reader takes it, in any order.  Without   *)
(* IPsec one reader serves requests and responses (Shared).  The carrier   *)
(* follows SIP.  A forked INVITE is not modelled: its second acceptance is *)
(* acknowledged and ended on a copy of the dialog.                         *)
(***************************************************************************)
EXTENDS Naturals, FiniteSets

CONSTANTS
    Out, In,     \* calls dialled here and calls of the carrier
    Killers,     \* HangupCall invocations at a time: of the router and of the call's timers
    Shared,      \* requests and responses arrive over one connection
    MaxCalls,    \* bound: calls the carrier or the user begins
    MaxLost,     \* bound: messages lost
    MaxRefresh   \* bound: refreshes of the registration

ImsCallConstants ==
    Out \cap In = {} /\ Shared \in BOOLEAN /\ MaxCalls \in Nat /\ MaxLost \in Nat /\ MaxRefresh \in Nat

Ids == Out \cup In

VARIABLES
    call,     \* session.calls
    oper,     \* call.operation: free, or who holds it
    killer,   \* a HangupCall in progress
    answer,   \* an AnswerCall in progress
    watcher,  \* watchOutgoingCall
    prack,    \* sendPRACK
    cancel,   \* the watcher's cancelPendingCall
    reader,   \* the request the reader is handling
    mu,       \* session.mu: free, or held by a refresh for its whole exchange
    session,  \* "up", "failed" once a failure is published, "closed"
    leg,      \* the carrier's side of each call
    down,     \* what the carrier sent
    lost, refreshes \* of MaxLost and MaxRefresh, what is left

user == <<killer, answer>>
vars == <<call, oper, user, watcher, prack, cancel, reader, mu, session, leg, down, lost, refreshes>>

NoCall == [st |-> "none", term |-> FALSE, accepted |-> FALSE, prov |-> FALSE, cancelled |-> FALSE,
           ack |-> FALSE, media |-> FALSE, timer |-> FALSE, gen |-> 0, final |-> "none"]
NoRequest == [k |-> "none"]
Idle == [pc |-> "idle"]

Live(c) == call[c].st \notin {"none", "ended", "failed"}
Ended(c) == call[c].st \in {"ended", "failed"}
Begins == Cardinality({c \in Ids : leg[c] # "idle" \/ call[c].st # "none"}) < MaxCalls

TypeOK ==
    /\ call \in [Ids -> [st : {"none", "dialing", "ringing", "early", "active", "ending", "ended", "failed"},
                           term : BOOLEAN, accepted : BOOLEAN, prov : BOOLEAN, cancelled : BOOLEAN, ack : BOOLEAN,
                           media : BOOLEAN, timer : BOOLEAN, gen : 0 .. 2, final : {"none", "180", "200", "486", "487"}]]
    /\ oper \in [Ids -> {"free", "answer"} \cup Killers]
    /\ \A k \in Killers : killer[k] = Idle \/
          killer[k] \in [pc : {"lock", "decide", "cancelling", "cancel", "ending", "bye"}, c : Ids, gen : 0 .. 2]
    /\ answer \in [In -> {"no", "lock", "sent"}]
    /\ watcher \in [Out -> {"off", "wait", "told", "told-early", "show", "show-early",
                              "ok", "okbad", "active", "ending", "bye", "final", "gone"}]
    /\ prack \in [Out -> {"off", "start", "wait"}] /\ cancel \in [Out -> {"off", "start", "wait"}]
    /\ mu \in {"free", "refresh"} /\ session \in {"up", "failed", "closed"}
    /\ leg \in [Ids -> {"idle", "invited", "proceeding", "answered", "answeredbad", "calling", "cancelling", "talking", "over"}]
    /\ lost \in 0 .. MaxLost /\ refreshes \in 0 .. MaxRefresh

Init ==
    /\ call = [c \in Ids |-> NoCall] /\ oper = [c \in Ids |-> "free"]
    /\ killer = [k \in Killers |-> Idle] /\ answer = [c \in In |-> "no"]
    /\ watcher = [c \in Out |-> "off"] /\ prack = [c \in Out |-> "off"] /\ cancel = [c \in Out |-> "off"]
    /\ reader = NoRequest /\ mu = "free" /\ session = "up"
    /\ leg = [c \in Ids |-> "idle"] /\ down = {} /\ lost = MaxLost /\ refreshes = MaxRefresh

-----------------------------------------------------------------------------
(* The carrier.                                                            *)

Msg(c, k) == [c |-> c, k |-> k]
Yes(c, to) == [c |-> c, k |-> "yes", to |-> to]

\* What a message of ours makes of the carrier's leg, and what the carrier answers.
LegAfter(l, m) ==
    CASE m = "INVITE" /\ l = "idle" -> "invited"
      [] m = "CANCEL" /\ l = "proceeding" -> "over"
      [] m = "ACK" /\ l \in {"answered", "answeredbad"} -> "talking"
      [] m = "BYE" -> "over"
      [] m = "200" /\ l = "calling" -> "talking"
      [] m = "200" /\ l = "cancelling" -> "over"
      [] m \in {"486", "487"} /\ l \in {"calling", "cancelling"} -> "over"
      [] OTHER -> l

Replies(c, l, m, who) ==
    (IF m \in {"BYE", "CANCEL", "PRACK"} THEN {Yes(c, who)} ELSE {}) \cup
    (IF m = "CANCEL" /\ l = "proceeding" THEN {Msg(c, "no")} ELSE {}) \cup
    (IF m = "200" /\ l = "calling" THEN {Msg(c, "ACK"), Msg(c, "ACKbad")} ELSE {}) \cup
    (IF m = "200" /\ l \in {"talking", "cancelling"} THEN {Msg(c, "ACK")} ELSE {}) \cup
    (IF m = "200" /\ l = "cancelling" THEN {Msg(c, "BYE")} ELSE {})

\* The carrier's first acknowledgement carries audio we can use, or audio we cannot.
OneAck(s) == {t \in SUBSET s : \E a \in {"ACK", "ACKbad"} :
                 t = {m \in s : m.k \notin {"ACK", "ACKbad"} \/ m.k = a}}

\* One message to the carrier; in is what is left of "down".
Send(c, m, who, in) ==
    \/ /\ leg' = [leg EXCEPT ![c] = LegAfter(@, m)]
       /\ \E r \in OneAck(Replies(c, leg[c], m, who)) : down' = in \cup r
       /\ UNCHANGED lost
    \/ /\ lost > 0 /\ lost' = lost - 1
       /\ down' = in /\ UNCHANGED leg

ours == <<call, oper, user, watcher, prack, cancel, reader, mu, session, refreshes>>
Runs == session # "closed"

CarrierRings(c) ==
    /\ leg[c] = "invited" /\ leg' = [leg EXCEPT ![c] = "proceeding"]
    /\ \E k \in {"try", "early"} : down' = down \cup {Msg(c, k)}
    /\ UNCHANGED <<ours, lost>>

CarrierAnswers(c) ==
    /\ leg[c] \in {"invited", "proceeding"}
    /\ \E q \in {"ok", "okbad"} :
          /\ leg' = [leg EXCEPT ![c] = IF q = "ok" THEN "answered" ELSE "answeredbad"]
          /\ down' = down \cup {Msg(c, q)}
    /\ UNCHANGED <<ours, lost>>

CarrierRejects(c) ==
    /\ leg[c] \in {"invited", "proceeding"}
    /\ leg' = [leg EXCEPT ![c] = "over"] /\ down' = down \cup {Msg(c, "no")}
    /\ UNCHANGED <<ours, lost>>

CarrierRepeats(c) ==
    /\ down' = down \cup CASE leg[c] = "answered" -> {Msg(c, "ok")}
                           [] leg[c] = "answeredbad" -> {Msg(c, "okbad")}
                           [] leg[c] = "calling" -> {Msg(c, "INVITE")}
                           [] OTHER -> {}
    /\ down' # down
    /\ UNCHANGED <<ours, leg, lost>>

CarrierCalls(c) ==
    /\ leg[c] = "idle" /\ session = "up" /\ Begins
    /\ leg' = [leg EXCEPT ![c] = "calling"] /\ down' = down \cup {Msg(c, "INVITE")}
    /\ UNCHANGED <<ours, lost>>

CarrierCancels(c) ==
    /\ leg[c] = "calling" /\ call[c].st # "none"  \* a provisional response was sent
    /\ leg' = [leg EXCEPT ![c] = "cancelling"] /\ down' = down \cup {Msg(c, "CANCEL")}
    /\ UNCHANGED <<ours, lost>>

CarrierHangsUp(c) ==
    /\ leg[c] \in {"talking", "answered", "answeredbad"}
    /\ leg' = [leg EXCEPT ![c] = "over"] /\ down' = down \cup {Msg(c, "BYE")}
    /\ UNCHANGED <<ours, lost>>

CarrierRefreshes(c) ==
    /\ leg[c] = "talking" /\ call[c].gen = 1 /\ Msg(c, "UPDATE") \notin down
    /\ down' = down \cup {Msg(c, "UPDATE")}
    /\ UNCHANGED <<ours, leg, lost>>

Lose(m) ==
    /\ m \in down /\ lost > 0 /\ lost' = lost - 1 /\ down' = down \ {m}
    /\ UNCHANGED <<ours, leg>>

-----------------------------------------------------------------------------
(* Changes of a call's record.                                             *)

\* setCallState and setCallMediaReady leave a terminated call alone.
Shows(r, st, media) == IF r.term THEN r ELSE [r EXCEPT !.st = st, !.media = media]

\* startSessionTimer: a new timer replaces the running one.  Bound: two timers per call.
Timed(r) == IF r.term \/ r.gen = 2 THEN r ELSE [r EXCEPT !.gen = @ + 1]

\* stopCallMedia: the call is closed here, and the carrier has a minute to confirm.
Stopped(r) ==
    IF r.st \in {"ended", "failed"} THEN [r EXCEPT !.term = TRUE, !.media = FALSE]
    ELSE [r EXCEPT !.term = TRUE, !.media = FALSE, !.st = "ending", !.timer = TRUE]

\* finishCall: it does not ask whether the call has ended before.
Finished(r, st) == [r EXCEPT !.term = TRUE, !.media = FALSE, !.st = st, !.timer = FALSE]

\* A response reaches whoever waits for it, unless the reader is stuck with a request.
Reads == session # "closed" /\ (Shared => reader = NoRequest)
Arrives(m) == m \in down /\ Reads

-----------------------------------------------------------------------------
(* Outgoing calls.                                                         *)

DialCall(c) ==
    /\ session = "up" /\ mu = "free" /\ call[c].st = "none" /\ Begins
    /\ \A d \in Ids : ~ Live(d)
    /\ call' = [call EXCEPT ![c].st = "dialing"]
    /\ watcher' = [watcher EXCEPT ![c] = "wait"]
    /\ Send(c, "INVITE", "watcher", down)
    /\ UNCHANGED <<oper, user, prack, cancel, reader, mu, session, refreshes>>

\* The watcher notes the code of a provisional response, then looks whether the call was ended.
TakeProvisional(c) ==
    \E k \in {"try", "early"} :
       /\ watcher[c] = "wait" /\ Arrives(Msg(c, k)) /\ down' = down \ {Msg(c, k)}
       /\ call' = [call EXCEPT ![c].prov = TRUE]
       /\ watcher' = [watcher EXCEPT ![c] = IF k = "early" THEN "told-early" ELSE "told"]
       /\ UNCHANGED <<oper, user, prack, cancel, reader, mu, session, leg, lost, refreshes>>

ActOnProvisional(c) ==
    /\ watcher[c] \in {"told", "told-early"} /\ Runs
    /\ IF call[c].term
       THEN cancel' = [cancel EXCEPT ![c] = "start"] /\ watcher' = [watcher EXCEPT ![c] = "wait"]
       ELSE watcher' = [watcher EXCEPT ![c] = IF @ = "told" THEN "show" ELSE "show-early"] /\ UNCHANGED cancel
    /\ UNCHANGED <<call, oper, user, prack, reader, mu, session, leg, down, lost, refreshes>>

ShowProvisional(c) ==
    LET early == watcher[c] = "show-early" IN
    /\ watcher[c] \in {"show", "show-early"} /\ Runs
    /\ watcher' = [watcher EXCEPT ![c] = "wait"]
    /\ call' = [call EXCEPT ![c] = Shows(@, IF early THEN "early" ELSE "ringing", early)]
    /\ prack' = IF early THEN [prack EXCEPT ![c] = "start"] ELSE prack
    /\ UNCHANGED <<oper, user, cancel, reader, mu, session, leg, down, lost, refreshes>>

TakeAcceptance(c) ==
    \E k \in {"ok", "okbad"} :
       /\ watcher[c] = "wait" /\ Arrives(Msg(c, k)) /\ down' = down \ {Msg(c, k)}
       /\ call' = [call EXCEPT ![c].accepted = TRUE]
       /\ watcher' = [watcher EXCEPT ![c] = k]
       /\ UNCHANGED <<oper, user, prack, cancel, reader, mu, session, leg, lost, refreshes>>

\* The acceptance is acknowledged in any case; one that comes too late, or without audio, is ended.
ActOnAcceptance(c) ==
    /\ watcher[c] \in {"ok", "okbad"} /\ mu = "free" /\ Runs
    /\ Send(c, "ACK", "watcher", down)
    /\ IF call[c].term
       THEN watcher' = [watcher EXCEPT ![c] = "ending"] /\ UNCHANGED call
       ELSE IF watcher[c] = "okbad"
            THEN watcher' = [watcher EXCEPT ![c] = "ending"] /\ call' = [call EXCEPT ![c] = Stopped(@)]
            ELSE watcher' = [watcher EXCEPT ![c] = "active"] /\ UNCHANGED call
    /\ UNCHANGED <<oper, user, prack, cancel, reader, mu, session, refreshes>>

ShowActive(c) ==
    /\ watcher[c] = "active" /\ Runs /\ watcher' = [watcher EXCEPT ![c] = "final"]
    /\ call' = [call EXCEPT ![c] = Timed(Shows(@, "active", TRUE))]
    /\ UNCHANGED <<oper, user, prack, cancel, reader, mu, session, leg, down, lost, refreshes>>

EndAccepted(c) ==
    /\ watcher[c] = "ending" /\ mu = "free" /\ Runs
    /\ watcher' = [watcher EXCEPT ![c] = "bye"]
    /\ Send(c, "BYE", "watcher", down)
    /\ UNCHANGED <<call, oper, user, prack, cancel, reader, mu, session, refreshes>>

\* The answer of the BYE, or its timeout, after which an answer is not looked at any more.
EndAnswered(c) ==
    LET yes == Yes(c, "watcher") IN
    /\ watcher[c] = "bye" /\ Runs /\ watcher' = [watcher EXCEPT ![c] = "final"]
    /\ down' = down \ {yes}
    /\ call' = IF Arrives(yes) THEN [call EXCEPT ![c] = Finished(@, "ended")] ELSE call
    /\ UNCHANGED <<oper, user, prack, cancel, reader, mu, session, leg, lost, refreshes>>

RepeatedAcceptance(c) ==
    \E k \in {"ok", "okbad"} :
       /\ watcher[c] = "final" /\ Arrives(Msg(c, k)) /\ mu = "free"
       /\ Send(c, "ACK", "watcher", down \ {Msg(c, k)})
       /\ UNCHANGED <<ours>>

\* A rejection ends the call; after a hang-up it is the expected answer.
TakeRejection(c) ==
    LET m == Msg(c, "no") IN
    /\ watcher[c] = "wait" /\ Arrives(m) /\ down' = down \ {m}
    /\ mu = "free"
    /\ call' = [call EXCEPT ![c] = Finished(@, IF @.term THEN "ended" ELSE "failed")]
    /\ watcher' = [watcher EXCEPT ![c] = "gone"]
    /\ UNCHANGED <<oper, user, prack, cancel, reader, mu, session, leg, lost, refreshes>>

\* Two minutes without a final response, or 32 seconds after one: the watcher leaves.
WatchEnds(c) ==
    /\ watcher[c] \in {"wait", "final"} /\ Runs
    /\ watcher' = [watcher EXCEPT ![c] = "gone"]
    /\ call' = IF watcher[c] = "wait" THEN [call EXCEPT ![c] = Stopped(@)] ELSE call
    /\ UNCHANGED <<oper, user, prack, cancel, reader, mu, session, leg, down, lost, refreshes>>

SendPRACK(c) ==
    /\ prack[c] = "start" /\ Runs
    /\ IF Ended(c)
       THEN prack' = [prack EXCEPT ![c] = "off"] /\ UNCHANGED <<leg, down, lost>>
       ELSE /\ mu = "free" /\ prack' = [prack EXCEPT ![c] = "wait"]
            /\ Send(c, "PRACK", "prack", down)
    /\ UNCHANGED <<call, oper, user, watcher, cancel, reader, mu, session, refreshes>>

PRACKAnswered(c) ==
    LET yes == Yes(c, "prack") IN
    /\ prack[c] = "wait" /\ Runs /\ prack' = [prack EXCEPT ![c] = "off"]
    /\ down' = down \ {yes}
    /\ call' = IF Arrives(yes) THEN call ELSE [call EXCEPT ![c] = Finished(@, "failed")]
    /\ UNCHANGED <<oper, user, watcher, cancel, reader, mu, session, leg, lost, refreshes>>

\* cancelPendingCall, in a goroutine of the watcher.
CancelPending(c) ==
    /\ cancel[c] = "start" /\ Runs
    /\ IF call[c].cancelled \/ Ended(c)
       THEN cancel' = [cancel EXCEPT ![c] = "off"] /\ UNCHANGED <<call, leg, down, lost>>
       ELSE /\ mu = "free" /\ call' = [call EXCEPT ![c].cancelled = TRUE]
            /\ cancel' = [cancel EXCEPT ![c] = "wait"]
            /\ Send(c, "CANCEL", "cancel", down)
    /\ UNCHANGED <<oper, user, watcher, prack, reader, mu, session, refreshes>>

CancelAnswered(c) ==
    /\ cancel[c] = "wait" /\ Runs /\ cancel' = [cancel EXCEPT ![c] = "off"]
    /\ down' = down \ {Yes(c, "cancel")}
    /\ UNCHANGED <<call, oper, user, watcher, prack, reader, mu, session, leg, lost, refreshes>>

-----------------------------------------------------------------------------
(* Hanging up.                                                             *)

HangupCall(k, c) ==
    /\ killer[k] = Idle /\ call[c].st # "none" /\ Runs
    /\ killer' = [killer EXCEPT ![k] = [pc |-> "lock", c |-> c, gen |-> 0]]
    /\ UNCHANGED <<call, oper, answer, watcher, prack, cancel, reader, mu, session, leg, down, lost, refreshes>>

\* The incoming answer is repeated until the carrier's ACK; its deadline and the session timer end the call.
Repeating(c) == c \in In /\ call[c].accepted /\ ~ call[c].ack /\ ~ call[c].term

TimerHangsUp(k, c) ==
    /\ killer[k] = Idle /\ Runs
    /\ \E g \in (IF Repeating(c) THEN {0} ELSE {}) \cup (IF call[c].term THEN {} ELSE {call[c].gen} \ {0}) :
          killer' = [killer EXCEPT ![k] = [pc |-> "lock", c |-> c, gen |-> g]]
    /\ UNCHANGED <<call, oper, answer, watcher, prack, cancel, reader, mu, session, leg, down, lost, refreshes>>

LeaveTo(k, pc) == killer' = [killer EXCEPT ![k] = IF pc = "idle" THEN Idle ELSE [@ EXCEPT !.pc = pc]]

\* Under the call's lock the call is marked terminated and its audio closed.
Hangup(k) ==
    LET c == killer[k].c
        g == killer[k].gen
        r == call[c] IN
    /\ killer[k] # Idle /\ killer[k].pc = "lock" /\ oper[c] = "free" /\ Runs
    /\ \/ /\ Ended(c) \/ (g # 0 /\ (g # r.gen \/ r.term))
          /\ LeaveTo(k, "idle") /\ UNCHANGED <<call, oper, leg, down, lost>>
       \/ /\ ~ Ended(c) /\ (g # 0 => g = r.gen /\ ~ r.term)
          /\ IF c \in In /\ r.st = "ringing"
             THEN /\ Send(c, "486", k, down) /\ LeaveTo(k, "idle")
                  /\ call' = [call EXCEPT ![c] = [Finished(@, "ended") EXCEPT !.final = "486"]]
                  /\ UNCHANGED oper
             ELSE /\ call' = [call EXCEPT ![c] = Stopped(@)] /\ oper' = [oper EXCEPT ![c] = k]
                  /\ LeaveTo(k, IF c \in Out /\ ~ r.accepted THEN "decide" ELSE "ending")
                  /\ UNCHANGED <<leg, down, lost>>
    /\ UNCHANGED <<answer, watcher, prack, cancel, reader, mu, session, refreshes>>

\* Before a provisional response nothing is sent: the watcher cancels when one comes.
HangupUnaccepted(k) ==
    LET c == killer[k].c IN
    /\ killer[k] # Idle /\ killer[k].pc = "decide" /\ Runs
    /\ IF call[c].prov
       THEN LeaveTo(k, "cancelling") /\ UNCHANGED oper
       ELSE LeaveTo(k, "idle") /\ oper' = [oper EXCEPT ![c] = "free"]
    /\ UNCHANGED <<call, answer, watcher, prack, cancel, reader, mu, session, leg, down, lost, refreshes>>

HangupCancels(k) ==
    LET c == killer[k].c IN
    /\ killer[k] # Idle /\ killer[k].pc = "cancelling" /\ Runs
    /\ IF call[c].cancelled \/ Ended(c)
       THEN LeaveTo(k, "idle") /\ oper' = [oper EXCEPT ![c] = "free"] /\ UNCHANGED <<call, leg, down, lost>>
       ELSE /\ mu = "free" /\ call' = [call EXCEPT ![c].cancelled = TRUE]
            /\ LeaveTo(k, "cancel") /\ UNCHANGED oper
            /\ Send(c, "CANCEL", k, down)
    /\ UNCHANGED <<answer, watcher, prack, cancel, reader, mu, session, refreshes>>

HangupEnds(k) ==
    LET c == killer[k].c IN
    /\ killer[k] # Idle /\ killer[k].pc = "ending" /\ mu = "free" /\ Runs
    /\ LeaveTo(k, "bye") /\ Send(c, "BYE", k, down)
    /\ UNCHANGED <<call, oper, answer, watcher, prack, cancel, reader, mu, session, refreshes>>

Confirms(pc) == pc = "bye"

\* The answer of the CANCEL or of the BYE, or the timeout; only a BYE's answer ends the call.
HangupAnswered(k) ==
    LET c == killer[k].c
        yes == Yes(c, k) IN
    /\ killer[k] # Idle /\ killer[k].pc \in {"cancel", "bye"} /\ Runs
    /\ down' = down \ {yes}
    /\ call' = IF Arrives(yes) /\ Confirms(killer[k].pc) THEN [call EXCEPT ![c] = Finished(@, "ended")] ELSE call
    /\ LeaveTo(k, "idle") /\ oper' = [oper EXCEPT ![c] = "free"]
    /\ UNCHANGED <<answer, watcher, prack, cancel, reader, mu, session, leg, lost, refreshes>>

\* recoverCallTermination, a minute after the call was closed here.
TerminationExpires(c) ==
    /\ call[c].timer /\ session = "up"
    /\ call' = [call EXCEPT ![c].timer = FALSE] /\ session' = "failed"
    /\ UNCHANGED <<oper, user, watcher, prack, cancel, reader, mu, leg, down, lost, refreshes>>

-----------------------------------------------------------------------------
(* Incoming calls.                                                         *)

AnswerCall(c) ==
    /\ answer[c] = "no" /\ Runs /\ call[c].st = "ringing"
    /\ answer' = [answer EXCEPT ![c] = "lock"]
    /\ UNCHANGED <<call, oper, killer, watcher, prack, cancel, reader, mu, session, leg, down, lost, refreshes>>

AnswerSends(c) ==
    /\ answer[c] = "lock" /\ oper[c] = "free" /\ Runs
    /\ IF call[c].st = "ringing"
       THEN /\ oper' = [oper EXCEPT ![c] = "answer"] /\ answer' = [answer EXCEPT ![c] = "sent"]
            /\ Send(c, "200", "answer", down)
       ELSE answer' = [answer EXCEPT ![c] = "no"] /\ UNCHANGED <<oper, leg, down, lost>>
    /\ UNCHANGED <<call, killer, watcher, prack, cancel, reader, mu, session, refreshes>>

\* Only now the call counts as accepted: an ACK that came before is not taken.
AnswerAccepts(c) ==
    /\ answer[c] = "sent" /\ Runs
    /\ call' = [call EXCEPT ![c] = Timed(Shows([@ EXCEPT !.accepted = TRUE, !.final = "200"], "active", FALSE))]
    /\ oper' = [oper EXCEPT ![c] = "free"] /\ answer' = [answer EXCEPT ![c] = "no"]
    /\ UNCHANGED <<killer, watcher, prack, cancel, reader, mu, session, leg, down, lost, refreshes>>

AnswerRepeats(c) ==
    /\ Repeating(c) /\ oper[c] = "free" /\ Runs
    /\ Send(c, "200", "answer", down)
    /\ <<leg, down>>' # <<leg, down>>
    /\ UNCHANGED <<ours>>

-----------------------------------------------------------------------------
(* The readers.                                                            *)

Requests == {"INVITE", "CANCEL", "BYE", "ACK", "ACKbad", "UPDATE"}

ReadRequest(m) ==
    /\ m \in down /\ m.k \in Requests /\ reader = NoRequest /\ Runs
    /\ reader' = m /\ down' = down \ {m}
    /\ UNCHANGED <<call, oper, user, watcher, prack, cancel, mu, session, leg, lost, refreshes>>

Handled == reader' = NoRequest /\ UNCHANGED <<oper, user, watcher, prack, cancel, mu, session, refreshes>>

\* A new call rings or is refused; a repeated INVITE is answered with the last response, under the call's lock.
OnINVITE ==
    LET c == reader.c IN
    /\ reader.k = "INVITE" /\ Runs
    /\ \/ /\ call[c].st = "none" /\ \A d \in Ids : ~ Live(d)
          /\ call' = [call EXCEPT ![c].st = "ringing", ![c].final = "180"]
          /\ UNCHANGED <<leg, down, lost>>
       \/ /\ call[c].st # "none" /\ oper[c] = "free"
          /\ Send(c, call[c].final, "reader", down) /\ UNCHANGED call
    /\ Handled

\* While a call is going on another one is refused and leaves no trace; the arrival of the
\* INVITE and the refusal are one step here.
OnSecondINVITE(c) ==
    /\ leg[c] = "idle" /\ call[c].st = "none" /\ reader = NoRequest /\ session = "up"
    /\ \E d \in Ids : Live(d)
    /\ leg' = [leg EXCEPT ![c] = "over"]
    /\ UNCHANGED <<ours, down, lost>>

OnUPDATE ==
    /\ reader.k = "UPDATE" /\ Runs
    /\ call' = [call EXCEPT ![reader.c] = Timed(@)]
    /\ UNCHANGED <<leg, down, lost>> /\ Handled

OnACK ==
    LET c == reader.c
        r == call[c] IN
    /\ reader.k \in {"ACK", "ACKbad"} /\ Runs
    /\ call' = IF ~ r.accepted \/ r.term THEN call
               ELSE IF reader.k = "ACKbad" /\ ~ r.ack THEN [call EXCEPT ![c] = Finished(@, "failed")]
               ELSE [call EXCEPT ![c] = Shows([@ EXCEPT !.ack = TRUE], "active", TRUE)]
    /\ UNCHANGED <<leg, down, lost>> /\ Handled

OnCANCEL ==
    LET c == reader.c IN
    /\ reader.k = "CANCEL" /\ oper[c] = "free" /\ Runs
    /\ IF call[c].accepted \/ call[c].st = "none"
       THEN UNCHANGED <<call, leg, down, lost>>
       ELSE /\ Send(c, "487", "reader", down)
            /\ call' = [call EXCEPT ![c] = [Finished(@, "ended") EXCEPT !.final = "487"]]
    /\ Handled

OnBYE ==
    LET c == reader.c IN
    /\ reader.k = "BYE" /\ oper[c] = "free" /\ Runs
    /\ call' = IF call[c].st = "none" THEN call ELSE [call EXCEPT ![c] = Finished(@, "ended")]
    /\ UNCHANGED <<leg, down, lost>> /\ Handled

-----------------------------------------------------------------------------
(* The session.                                                            *)

\* A refresh holds session.mu until the registrar's answer has been read.
RefreshBegins ==
    /\ mu = "free" /\ session = "up" /\ refreshes > 0
    /\ mu' = "refresh" /\ refreshes' = refreshes - 1
    /\ UNCHANGED <<call, oper, user, watcher, prack, cancel, reader, session, leg, down, lost>>

\* The registrar answers; an answer nobody can read is a failure after twelve seconds.
RefreshEnds ==
    /\ mu = "refresh" /\ Runs /\ mu' = "free"
    /\ session' = IF Reads THEN session ELSE "failed"
    /\ UNCHANGED <<call, oper, user, watcher, prack, cancel, reader, leg, down, lost, refreshes>>

\* The orchestrator closes a session that failed, or one that is not wanted any more; its
\* calls go with it, and what the carrier makes of them is not followed further.
Close ==
    /\ Runs /\ mu = "free" /\ session' = "closed"
    /\ call' = [c \in Ids |-> NoCall] /\ oper' = [c \in Ids |-> "free"]
    /\ killer' = [k \in Killers |-> Idle] /\ answer' = [c \in In |-> "no"]
    /\ watcher' = [c \in Out |-> "off"] /\ prack' = [c \in Out |-> "off"] /\ cancel' = [c \in Out |-> "off"]
    /\ reader' = NoRequest /\ down' = {} /\ leg' = [c \in Ids |-> "idle"]
    /\ UNCHANGED <<mu, lost, refreshes>>

Watch(c) ==
    \/ TakeProvisional(c) \/ ActOnProvisional(c) \/ ShowProvisional(c)
    \/ TakeAcceptance(c) \/ ActOnAcceptance(c) \/ ShowActive(c)
    \/ EndAccepted(c) \/ EndAnswered(c) \/ RepeatedAcceptance(c) \/ TakeRejection(c)
Kill(k) == Hangup(k) \/ HangupUnaccepted(k) \/ HangupCancels(k) \/ HangupEnds(k) \/ HangupAnswered(k)
Handle == OnINVITE \/ OnUPDATE \/ OnACK \/ OnCANCEL \/ OnBYE
Outgoing(c) ==
    \/ Watch(c) \/ WatchEnds(c) \/ SendPRACK(c) \/ PRACKAnswered(c) \/ CancelPending(c) \/ CancelAnswered(c)
Incoming(c) == AnswerSends(c) \/ AnswerAccepts(c) \/ AnswerRepeats(c)
Carrier(c) == CarrierRepeats(c) \/ CarrierHangsUp(c) \/ CarrierRefreshes(c)

Next ==
    \/ \E c \in Out : DialCall(c) \/ Outgoing(c) \/ CarrierRings(c) \/ CarrierAnswers(c) \/ CarrierRejects(c)
    \/ \E c \in In : AnswerCall(c) \/ Incoming(c) \/ CarrierCalls(c) \/ CarrierCancels(c) \/ OnSecondINVITE(c)
    \/ \E c \in Ids : TerminationExpires(c) \/ Carrier(c)
    \/ \E k \in Killers : Kill(k) \/ \E c \in Ids : HangupCall(k, c) \/ TimerHangsUp(k, c)
    \/ \E m \in down : ReadRequest(m) \/ Lose(m)
    \/ Handle \/ RefreshBegins \/ RefreshEnds \/ Close

Spec == Init /\ [][Next]_vars

-----------------------------------------------------------------------------
(* Properties.                                                             *)

\* A call is shown as ended only when the carrier's leg is over, or a rejection that it is
\* asked to take again and again is on its way ("only verified teardown may release
\* occupancy", call_runtime.go:479).
ConfirmedEnd ==
    \A c \in Ids : call[c].st = "ended" =>
       leg[c] = "over" \/ (c \in In /\ call[c].final \in {"486", "487"} /\ leg[c] \in {"calling", "cancelling"})

\* However hang-up, answer, acknowledgement, CANCEL and timers cross, the audio of a call is
\* open only while nobody has ended it and, for an incoming one, after the carrier's ACK.
NoLateVoice ==
    \A c \in Ids : call[c].media => ~ call[c].term /\ (c \in In => call[c].ack)

\* A hang-up that meets the first provisional response is not forgotten: the hang-up or the
\* watcher sends the CANCEL (each sets its mark before it reads the other's).
CancelNotForgotten ==
    \A c \in Out : call[c].term /\ call[c].prov /\ watcher[c] = "wait" /\ call[c].st = "ending" =>
       \/ call[c].cancelled \/ cancel[c] = "start"
       \/ \E k \in Killers : killer[k] # Idle /\ killer[k].c = c /\ killer[k].pc \in {"decide", "cancelling"}

\* Whatever of this is lost, a call is never left to nobody: one that has not been answered
\* has its watcher, one that was closed here has the timer that rebuilds the session.
Watched ==
    session = "up" =>
       /\ \A c \in Ids : call[c].st = "ending" => call[c].timer
       /\ \A c \in Out : call[c].st \in {"dialing", "ringing", "early"} => watcher[c] \notin {"off", "final", "gone"}

CallsSound == TypeOK /\ NoLateVoice /\ CancelNotForgotten /\ Watched

\* The same of a call that failed: its line is released as well.
OnlyVerifiedTeardown ==
    \A c \in Ids : call[c].st = "failed" => leg[c] = "over"
=============================================================================
