---------------------------- MODULE IncomingCall ----------------------------
(***************************************************************************)
(* A call that comes in over a module and rings several phones             *)
(* (sip_incoming.go, sip_incoming_leg.go, sip_incoming_records.go).        *)
(*                                                                         *)
(* One goroutine watches the line and one per phone carries the SIP        *)
(* transaction.  The first phone that answers wins at the router; the main *)
(* goroutine then answers the carrier.  Phones that answer late are        *)
(* acknowledged and sent BYE.  Each account has one call record however    *)
(* many of its phones ring; it is settled by the last of them and closed   *)
(* for good when the router forgets the call.                              *)
(*                                                                         *)
(* The router is reduced to its record of this call.                       *)
(***************************************************************************)
EXTENDS Naturals, FiniteSets

CONSTANTS
    Phones,     \* registrations of idle accounts that receive calls
    Owner,      \* the account of each phone
    Nobody

ASSUME IncomingConstants == Nobody \notin Phones /\ DOMAIN Owner = Phones

Owners == {Owner[l] : l \in Phones}

VARIABLES
    main,       \* where probeIncoming and run are
    leg,        \* where each leg's run is
    line,       \* what the carrier knows of the call
    router,     \* the router's call
    rung,       \* the phones that have a leg
    callStopped, stopped,       \* the contexts of the call and of the legs
    peerClosed, selected, finished,     \* the legs' atomic flags
    responses,  \* legs that hold a 200
    winner,     \* the channel c.winner
    won,        \* the leg taken from it
    connected, moduleClosed, done,      \* the call's atomic flags
    outcome,    \* each leg's outcome
    record,     \* each account's record: incomingAccountRecord and its row
    finalizer,  \* the goroutine of forgetLocked
    phone,      \* what each phone does
    acked, byes,    \* phones that got ACK and BYE
    ended       \* the service's context is cancelled

legVars == <<leg, rung, stopped, peerClosed, selected, finished, responses, outcome>>
callVars == <<main, line, callStopped, winner, won, connected, moduleClosed, done>>
phoneVars == <<phone, acked, byes>>
vars == <<callVars, legVars, router, record, finalizer, phoneVars, ended>>

Outcomes == {"none", "elsewhere", "remote", "missed", "declined", "other"}

TypeOK ==
    /\ main \in {"probe", "reject", "start", "loop", "answer", "joined", "clean", "hangup", "report", "abandoned", "join", "last", "done"}
    /\ leg \in [Phones -> {"none", "setup", "fence", "send", "offer", "loop", "drain", "lock", "ack", "bye",
                           "finish", "record", "report", "done"}]
    /\ line \in {"ringing", "answered", "active", "idle", "none", "left"}
    /\ router.phase \in {"none", "ringing", "connecting", "connected", "ending", "gone"}
    /\ router.closing \subseteq router.legs /\ router.legs \subseteq Phones
    /\ router.winner \in Phones \cup {Nobody} /\ router.idle \in BOOLEAN
    /\ \A S \in {rung, stopped, peerClosed, selected, finished, responses, acked, byes} : S \subseteq Phones
    /\ winner \in Phones \cup {Nobody} /\ won \in Phones \cup {Nobody}
    /\ \A b \in {callStopped, connected, moduleClosed, done, ended} : b \in BOOLEAN
    /\ outcome \in [Phones -> Outcomes]
    /\ record \in [Owners -> [finished : BOOLEAN, outcome : Outcomes,
                                state : {"none", "open", "connected", "pending", "ended"}]]
    /\ finalizer \in {"none", "run", "done"}
    /\ phone \in [Phones -> {"idle", "ringing", "declined", "answered", "unusable", "left"}]

Init ==
    /\ main = "probe" /\ line = "ringing"
    /\ leg = [l \in Phones |-> "none"] /\ rung = {}
    /\ router = [closing |-> {}, idle |-> FALSE, legs |-> {}, phase |-> "none", winner |-> Nobody]
    /\ callStopped = FALSE /\ stopped = {} /\ peerClosed = {} /\ selected = {} /\ finished = {} /\ responses = {}
    /\ winner = Nobody /\ won = Nobody /\ connected = FALSE /\ moduleClosed = FALSE /\ done = FALSE
    /\ outcome = [l \in Phones |-> "none"]
    /\ record = [a \in Owners |-> [finished |-> FALSE, outcome |-> "none", state |-> "none"]]
    /\ finalizer = "none"
    /\ phone = [l \in Phones |-> "idle"] /\ acked = {} /\ byes = {}
    /\ ended = FALSE

-----------------------------------------------------------------------------
(* The router's call (module Router has all of it).                        *)

Ended(r) == IF r.phase = "ending" THEN r ELSE [r EXCEPT !.phase = "ending", !.closing = r.legs]

Forgotten(r) == IF r.idle /\ r.legs = {} THEN [r EXCEPT !.phase = "gone"] ELSE r

Withdrawn(r, l) ==
    IF r.winner = l THEN Ended(r)
    ELSE LET q == [r EXCEPT !.closing = @ \cup {l}]
         IN IF q.phase = "ringing" /\ q.closing = q.legs THEN Ended(q) ELSE q

ClientClosed(r, l) ==
    IF l \notin r.legs THEN r
    ELSE Forgotten([Withdrawn(r, l) EXCEPT !.legs = @ \ {l}, !.closing = @ \ {l}])

ModuleClosed(r) == IF r.phase = "gone" THEN r ELSE Forgotten(Ended([r EXCEPT !.idle = TRUE]))

Answered(r, l) == [r EXCEPT !.phase = "connecting", !.winner = l, !.closing = r.legs \ {l}]

\* ActionCurrent for a ring and for an answer
Current(l, phase) == router.phase = phase /\ l \in router.legs \ router.closing

-----------------------------------------------------------------------------
(* Pieces of the actions.                                                  *)

LegAt(l, place) == leg' = [leg EXCEPT ![l] = place]

\* leg.stop keeps the first reason; sipIncoming.stop stops every leg.
Stopping(S, reason) ==
    /\ stopped' = stopped \cup S
    /\ outcome' = [l \in Phones |-> IF l \in S /\ outcome[l] = "none"
                                    THEN IF reason = "missed" /\ l \in selected THEN "other" ELSE reason
                                    ELSE outcome[l]]

\* actionsLocked carries out what the router orders when its call goes from router to q, and
\* forgetLocked starts finalizeRecords when it is gone.  S are legs stopped besides.
Apply(q, S, reason) ==
    LET ends == router.phase \notin {"none", "ending", "gone"} /\ q.phase \in {"ending", "gone"}
        told == IF ends THEN rung ELSE (q.closing \ router.closing) \cap rung
    IN /\ router' = q
       /\ callStopped' = (callStopped \/ ends)
       /\ Stopping(told \cup S, reason)
       /\ finalizer' = IF q.phase = "gone" /\ router.phase # "gone" THEN "run" ELSE finalizer

\* incomingRecordResult
Rank(o) == CASE o = "elsewhere" -> 4 [] o = "remote" -> 3 [] o = "missed" -> 2 [] o = "declined" -> 1 [] OTHER -> 0
Results(legs) ==
    IF legs \cap selected # {} THEN {outcome[l] : l \in legs \cap selected}
    ELSE {outcome[l] : l \in {x \in legs : \A y \in legs : Rank(outcome[y]) <= Rank(outcome[x])}}

LegsOf(a) == {l \in rung : Owner[l] = a}

-----------------------------------------------------------------------------
(* probeIncoming and startIncomingLocked                                   *)

\* Nobody may take the call, or the module is in use: it is hung up, without a record.
Reject ==
    /\ main = "probe"
    /\ main' = "reject"
    /\ UNCHANGED <<line, callStopped, winner, won, connected, moduleClosed, done, legVars, router, record, finalizer, phoneVars, ended>>

RejectHangup ==
    /\ main = "reject"
    /\ \/ line' = "none"
       \/ line' = "left" /\ ended
    /\ main' = "done"
    /\ UNCHANGED <<callStopped, winner, won, connected, moduleClosed, done, legVars, router, record, finalizer, phoneVars, ended>>

\* The router rings targets; those whose listener is gone are closed at once.
StartIncoming(targets, reachable) ==
    /\ main = "probe" /\ ~ ended
    /\ targets # {}
    /\ rung' = reachable
    /\ router' = [router EXCEPT !.legs = reachable, !.phase = IF reachable = {} THEN "ending" ELSE "ringing"]
    /\ callStopped' = (reachable = {})
    /\ main' = "start"
    /\ UNCHANGED <<line, winner, won, connected, moduleClosed, done, leg, stopped, peerClosed, selected, finished,
                   responses, outcome, record, finalizer, phoneVars, ended>>

-----------------------------------------------------------------------------
(* The main goroutine: sipIncoming.run                                     *)

RunStart ==
    /\ main = "start"
    /\ main' = IF rung = {} THEN "clean" ELSE "loop"
    /\ leg' = [l \in Phones |-> IF l \in rung THEN "setup" ELSE "none"]
    /\ UNCHANGED <<line, callStopped, winner, won, connected, moduleClosed, done, rung, stopped, peerClosed, selected, finished,
                   responses, outcome, router, record, finalizer, phoneVars, ended>>

\* case winner = <-c.winner, and the fence
TakeWinner ==
    /\ main = "loop" /\ winner # Nobody
    /\ won' = winner /\ winner' = Nobody
    /\ main' = IF Current(winner, "connecting") /\ ~ callStopped THEN "answer" ELSE "clean"
    /\ UNCHANGED <<line, callStopped, connected, moduleClosed, done, legVars, router, record, finalizer, phoneVars, ended>>

AnswerModule ==
    /\ main = "answer"
    /\ \/ /\ line' = IF line = "ringing" THEN "answered" ELSE line
          /\ main' = "loop"
          /\ UNCHANGED <<callStopped, stopped, outcome>>
       \/ /\ line' \in {line, IF line = "ringing" THEN "answered" ELSE line}
          /\ main' = "clean" /\ callStopped' = TRUE /\ Stopping(rung, "other")
    /\ UNCHANGED <<winner, won, connected, moduleClosed, done, leg, rung, peerClosed, selected, finished,
                   responses, router, record, finalizer, phoneVars, ended>>

\* ctx.Done; or the state cannot be read; or the carrier is gone.
LoopEnds ==
    /\ main = "loop"
    /\ main' = "clean"
    /\ \/ callStopped /\ UNCHANGED <<callStopped, stopped, outcome>>
       \/ ~ callStopped /\ callStopped' = TRUE /\ Stopping(rung, IF line = "idle" THEN "remote" ELSE "other")
    /\ UNCHANGED <<line, winner, won, connected, moduleClosed, done, leg, rung, peerClosed, selected, finished,
                   responses, router, record, finalizer, phoneVars, ended>>

\* The line is active and there is a winner: Router.Connected.
Connect ==
    /\ main = "loop" /\ ~ callStopped /\ line = "active" /\ won # Nobody /\ ~ connected
    /\ \/ router.phase = "connecting" /\ router' = [router EXCEPT !.phase = "connected"] /\ main' = "joined"
       \/ router.phase # "connecting" /\ main' = "clean" /\ UNCHANGED router
    /\ UNCHANGED <<line, callStopped, winner, won, connected, moduleClosed, done, legVars, record, finalizer, phoneVars, ended>>

\* Unless the call was stopped meanwhile: recordConnected, which spares a settled row, and the audio.
Joined ==
    /\ main = "joined"
    /\ \/ callStopped /\ main' = "clean" /\ UNCHANGED <<connected, record>>
       \/ /\ ~ callStopped /\ main' = "loop" /\ connected' = TRUE
          /\ record' = [record EXCEPT ![Owner[won]].state = IF @ = "open" THEN "connected" ELSE @]
    /\ UNCHANGED <<line, callStopped, winner, won, moduleClosed, done, legVars, router, finalizer, phoneVars, ended>>

\* Audio goroutines: the module, or the RTP socket that the winner's leg closes when it ends.
MediaFails ==
    /\ main \in {"loop", "answer", "joined"} /\ ~ callStopped
    /\ callStopped' = TRUE /\ Stopping(rung, "other")
    /\ UNCHANGED <<main, line, winner, won, connected, moduleClosed, done, leg, rung, peerClosed, selected, finished,
                   responses, router, record, finalizer, phoneVars, ended>>

Clean ==
    /\ main = "clean"
    /\ main' = "hangup"
    /\ callStopped' = TRUE /\ Stopping(rung, "other")
    /\ UNCHANGED <<line, winner, won, connected, moduleClosed, done, leg, rung, peerClosed, selected, finished,
                   responses, router, record, finalizer, phoneVars, ended>>

\* cleanIncoming
HangupOnce ==
    /\ main = "hangup"
    /\ line' \in {line, "none"} /\ main' = "report"
    /\ UNCHANGED <<callStopped, winner, won, connected, moduleClosed, done, legVars, router, record, finalizer, phoneVars, ended>>

Hangup ==
    /\ main = "hangup"
    /\ \/ line' = "none" /\ main' = "report"
       \/ line' = "left" /\ main' = "abandoned" /\ ended
    /\ UNCHANGED <<callStopped, winner, won, connected, moduleClosed, done, legVars, router, record, finalizer, phoneVars, ended>>

Report ==
    /\ main \in {"report", "abandoned"}
    /\ moduleClosed' = (main = "report")
    /\ main' = "join"
    /\ IF main = "report" THEN Apply(ModuleClosed(router), {}, "remote")
       ELSE UNCHANGED <<router, callStopped, stopped, outcome, finalizer>>
    /\ UNCHANGED <<line, winner, won, connected, done, leg, rung, peerClosed, selected, finished, responses, record, phoneVars, ended>>

\* legs.Wait
Join ==
    /\ main = "join" /\ \A l \in rung : leg[l] = "done"
    /\ main' = "last"
    /\ UNCHANGED <<line, callStopped, winner, won, connected, moduleClosed, done, legVars, router, record, finalizer, phoneVars, ended>>

\* workerFinished and releaseFinishedLocked
ReleaseAnswered ==
    /\ main = "last"
    /\ main' = "done" /\ done' = TRUE
    /\ UNCHANGED <<line, callStopped, winner, won, connected, moduleClosed, legVars, router, record, finalizer, phoneVars, ended>>

Release ==
    /\ main = "last"
    /\ main' = "done" /\ done' = TRUE
    /\ IF moduleClosed /\ router.phase # "gone"
       THEN /\ peerClosed' = peerClosed \cup rung
            /\ router' = [router EXCEPT !.legs = {}, !.closing = {}, !.phase = "gone"]
            /\ finalizer' = "run"
       ELSE UNCHANGED <<peerClosed, router, finalizer>>
    /\ UNCHANGED <<line, callStopped, winner, won, connected, moduleClosed, leg, rung, stopped, selected, finished,
                   responses, outcome, record, phoneVars, ended>>

\* finalizeRecords
Finalize ==
    /\ finalizer = "run"
    /\ finalizer' = "done"
    /\ record' = [a \in Owners |-> IF record[a].finished THEN [record[a] EXCEPT !.state = "ended"] ELSE record[a]]
    /\ UNCHANGED <<callVars, legVars, router, phoneVars, ended>>

-----------------------------------------------------------------------------
(* The goroutine of a leg: sipIncomingLeg.run                              *)

\* What a leg's step leaves alone besides what it names.
LegFrame == UNCHANGED <<main, line, won, connected, moduleClosed, done, rung, ended>>

\* No port for the audio, or no request: nothing was sent, so there is nothing to close.
Setup(l) ==
    /\ leg[l] = "setup"
    /\ \/ LegAt(l, "fence") /\ UNCHANGED <<peerClosed, stopped, outcome>>
       \/ LegAt(l, "finish") /\ peerClosed' = peerClosed \cup {l} /\ Stopping({l}, "other")
    /\ LegFrame
    /\ UNCHANGED <<callStopped, winner, selected, finished, responses, router, record, finalizer, phoneVars>>

Fence(l) ==
    /\ leg[l] = "fence"
    /\ IF Current(l, "ringing") /\ l \notin stopped
       THEN LegAt(l, "send") /\ UNCHANGED peerClosed
       ELSE LegAt(l, "finish") /\ peerClosed' = peerClosed \cup {l}
    /\ LegFrame
    /\ UNCHANGED <<callStopped, winner, stopped, outcome, selected, finished, responses, router, record, finalizer, phoneVars>>

\* client.TransactionRequest: the INVITE may have left although it is reported as failed.
Send(l) ==
    /\ leg[l] = "send"
    /\ \/ /\ LegAt(l, "offer") /\ phone' = [phone EXCEPT ![l] = "ringing"]
          /\ UNCHANGED <<peerClosed, stopped, outcome>>
       \/ /\ LegAt(l, "finish") /\ peerClosed' = peerClosed \cup {l} /\ Stopping({l}, "other")
          /\ UNCHANGED phone
    /\ LegFrame
    /\ UNCHANGED <<callStopped, winner, selected, finished, responses, router, record, finalizer, acked, byes>>

\* recordOffer: the first phone of an account opens its record.
Offer(l) ==
    /\ leg[l] = "offer"
    /\ LegAt(l, "loop")
    /\ \/ /\ record' = [record EXCEPT ![Owner[l]].state = IF @ = "none" THEN "open" ELSE @]
          /\ UNCHANGED <<stopped, outcome>>
       \/ record[Owner[l]].state = "none" /\ Stopping({l}, "other") /\ UNCHANGED record
    /\ LegFrame
    /\ UNCHANGED <<callStopped, winner, peerClosed, selected, finished, responses, router, finalizer, phoneVars>>

\* case <-done
Done(l) ==
    /\ leg[l] = "loop" /\ l \in stopped
    /\ LegAt(l, IF l \in peerClosed THEN "finish" ELSE IF l \in responses THEN "bye" ELSE "drain")
    /\ LegFrame
    /\ UNCHANGED <<callStopped, winner, stopped, outcome, peerClosed, selected, finished, responses, router, record, finalizer, phoneVars>>

\* case <-deadline, 32 s after the leg was stopped
DrainDeadline(l) ==
    /\ leg[l] = "drain"
    /\ LegAt(l, "finish")
    /\ LegFrame
    /\ UNCHANGED <<callStopped, winner, stopped, outcome, peerClosed, selected, finished, responses, router, record, finalizer, phoneVars>>

\* case <-txDone without an accepted response
TxDone(l) ==
    /\ leg[l] \in {"loop", "drain"} /\ l \notin responses
    /\ LegAt(l, "finish") /\ Stopping({l}, "other")
    /\ LegFrame
    /\ UNCHANGED <<callStopped, winner, peerClosed, selected, finished, responses, router, record, finalizer, phoneVars>>

\* handleResponse: a refusal
HandleRefusal(l) ==
    /\ leg[l] \in {"loop", "drain"} /\ phone[l] = "declined"
    /\ LegAt(l, "finish") /\ peerClosed' = peerClosed \cup {l} /\ Stopping({l}, "declined")
    /\ LegFrame
    /\ UNCHANGED <<callStopped, winner, selected, finished, responses, router, record, finalizer, phoneVars>>

\* handleResponse: a 200 without tag or contact, or with a route, cannot be acknowledged.
HandleUnusable(l) ==
    /\ leg[l] \in {"loop", "drain"} /\ phone[l] = "unusable" /\ l \notin stopped
    /\ Stopping({l}, "other")
    /\ LegFrame
    /\ UNCHANGED <<leg, callStopped, winner, peerClosed, selected, finished, responses, router, record, finalizer, phoneVars>>

\* handleResponse: the first 200; its audio may be unacceptable.
HandleAnswer(l) ==
    /\ leg[l] \in {"loop", "drain"} /\ phone[l] = "answered" /\ l \notin responses
    /\ responses' = responses \cup {l}
    /\ LegAt(l, "lock")
    /\ Stopping({l}, "other") \/ UNCHANGED <<stopped, outcome>>
    /\ LegFrame
    /\ UNCHANGED <<callStopped, winner, peerClosed, selected, finished, router, record, finalizer, phoneVars>>

\* Under the lock: Router.Answer decides which phone has won.
LockAnyAnswer(l) ==
    /\ leg[l] = "lock"
    /\ LegAt(l, "ack")
    /\ Apply(Answered(router, l), {}, "elsewhere") /\ selected' = selected \cup {l}
    /\ LegFrame
    /\ UNCHANGED <<winner, peerClosed, finished, responses, record, phoneVars>>

Lock(l) ==
    /\ leg[l] = "lock"
    /\ LegAt(l, "ack")
    /\ IF l \notin stopped /\ Current(l, "ringing")
       THEN Apply(Answered(router, l), {}, "elsewhere") /\ selected' = selected \cup {l}
       ELSE Stopping({l}, "other") /\ UNCHANGED <<selected, router, callStopped, finalizer>>
    /\ LegFrame
    /\ UNCHANGED <<winner, peerClosed, finished, responses, record, phoneVars>>

\* The ACK; a winner that cannot be acknowledged ends the call.
Ack(l) ==
    /\ leg[l] = "ack"
    /\ \/ /\ acked' = acked \cup {l} /\ UNCHANGED <<callStopped, stopped, outcome>>
          /\ IF l \in selected THEN winner' = l /\ LegAt(l, "loop") ELSE LegAt(l, "bye") /\ UNCHANGED winner
       \/ /\ LegAt(l, "bye") /\ UNCHANGED <<winner, acked>>
          /\ callStopped' = (callStopped \/ l \in selected)
          /\ Stopping(IF l \in selected THEN rung ELSE {l}, "other")
    /\ LegFrame
    /\ UNCHANGED <<peerClosed, selected, finished, responses, router, record, finalizer, phone, byes>>

\* endDialog: the BYE is confirmed, or not.
EndDialog(l) ==
    /\ leg[l] = "bye"
    /\ LegAt(l, "finish")
    /\ IF l \in peerClosed THEN UNCHANGED <<byes, peerClosed>>
       ELSE byes' = byes \cup {l} /\ peerClosed' \in {peerClosed, peerClosed \cup {l}}
    /\ LegFrame
    /\ UNCHANGED <<callStopped, winner, stopped, outcome, selected, finished, responses, router, record, finalizer, phone, acked>>

\* finish: first the flags,
Finish(l) ==
    /\ leg[l] = "finish"
    /\ LegAt(l, "record") /\ Stopping({l}, "missed") /\ finished' = finished \cup {l}
    /\ LegFrame
    /\ UNCHANGED <<callStopped, winner, peerClosed, selected, responses, router, record, finalizer, phoneVars>>

\* then the record, under recordsMu with its write,
FinishAccountRecordAny(l) ==
    /\ leg[l] = "record"
    /\ LegAt(l, "report")
    /\ LET a == Owner[l] IN
       IF record[a].state = "none" \/ record[a].finished THEN UNCHANGED record
       ELSE \E o \in Results(LegsOf(a)) :
               record' = [record EXCEPT ![a] = [finished |-> TRUE, outcome |-> o,
                                                state |-> IF LegsOf(a) \subseteq peerClosed THEN "ended" ELSE "pending"]]
    /\ LegFrame
    /\ UNCHANGED <<callStopped, winner, stopped, outcome, peerClosed, selected, finished, responses, router, finalizer, phoneVars>>

FinishAccountRecord(l) ==
    /\ leg[l] = "record"
    /\ LegAt(l, "report")
    /\ LET a == Owner[l] IN
       IF record[a].state = "none" \/ record[a].finished \/ ~ LegsOf(a) \subseteq finished THEN UNCHANGED record
       ELSE \E o \in Results(LegsOf(a)) :
               record' = [record EXCEPT ![a] = [finished |-> TRUE, outcome |-> o,
                                                state |-> IF LegsOf(a) \subseteq peerClosed THEN "ended" ELSE "pending"]]
    /\ LegFrame
    /\ UNCHANGED <<callStopped, winner, stopped, outcome, peerClosed, selected, finished, responses, router, finalizer, phoneVars>>

\* and then the router.
ReportLeg(l) ==
    /\ leg[l] = "report"
    /\ LegAt(l, "done")
    /\ IF l \in peerClosed THEN Apply(ClientClosed(router, l), {}, "other")
       ELSE UNCHANGED <<router, callStopped, stopped, outcome, finalizer>>
    /\ LegFrame
    /\ UNCHANGED <<winner, peerClosed, selected, finished, responses, record, phoneVars>>

\* A re-INVITE of the winner whose ACK never comes, or whose answer cannot be sent, stops the leg.
RefreshFails(l) ==
    /\ l \in (selected \cap responses) \ (stopped \cup peerClosed) /\ phone[l] = "answered"
    /\ leg[l] \in {"ack", "loop"}
    /\ Stopping({l}, "other")
    /\ LegFrame
    /\ UNCHANGED <<leg, callStopped, winner, peerClosed, selected, finished, responses, router, record, finalizer, phoneVars>>

-----------------------------------------------------------------------------
(* What comes from outside.                                                *)

PhoneReplies(l) ==
    /\ phone[l] = "ringing"
    /\ \E r \in {"declined", "answered", "unusable"} : phone' = [phone EXCEPT ![l] = r]
    /\ UNCHANGED <<callVars, legVars, router, record, finalizer, acked, byes, ended>>

\* incomingDialogLocked: a BYE within the dialog
PhoneBye(l) ==
    /\ phone[l] = "answered" /\ l \in responses /\ router.phase # "gone"
    /\ phone' = [phone EXCEPT ![l] = "left"]
    /\ peerClosed' = peerClosed \cup {l}
    /\ Apply(ClientClosed(router, l), {l}, "other")
    /\ LegFrame
    /\ UNCHANGED <<leg, winner, selected, finished, responses, record, acked, byes>>

\* A deadline passes, the module is taken away, or the winner's account loses its permission.
RouterEnds ==
    /\ router.phase \in {"ringing", "connecting", "connected"}
    /\ \E reason \in (IF router.phase = "connected" THEN {"other"} ELSE {"missed", "other"}) : Apply(Ended(router), {}, reason)
    /\ UNCHANGED <<main, line, winner, won, connected, moduleClosed, done, leg, rung, peerClosed, selected, finished,
                   responses, record, phoneVars, ended>>

\* A registration expires or is revoked.
RouterWithdraws(l) ==
    /\ router.phase \in {"ringing", "connecting", "connected"} /\ l \in router.legs \ router.closing
    /\ Apply(Withdrawn(router, l), {}, "other")
    /\ UNCHANGED <<main, line, winner, won, connected, moduleClosed, done, leg, rung, peerClosed, selected, finished,
                   responses, record, phoneVars, ended>>

CarrierConnects ==
    /\ line = "answered"
    /\ line' = "active"
    /\ UNCHANGED <<main, callStopped, winner, won, connected, moduleClosed, done, legVars, router, record, finalizer, phoneVars, ended>>

CarrierEnds ==
    /\ line \in {"ringing", "answered", "active"}
    /\ line' = "idle"
    /\ UNCHANGED <<main, callStopped, winner, won, connected, moduleClosed, done, legVars, router, record, finalizer, phoneVars, ended>>

\* The contexts of the call and of its legs end with the service's.
Stop ==
    /\ ~ ended
    /\ ended' = TRUE
    /\ callStopped' = (callStopped \/ main # "probe")
    /\ stopped' = stopped \cup rung
    /\ UNCHANGED <<main, line, winner, won, connected, moduleClosed, done, leg, rung, peerClosed, selected, finished,
                   responses, outcome, router, record, finalizer, phoneVars>>

MainStep ==
    \/ \E targets \in SUBSET Phones : \E reachable \in SUBSET targets : StartIncoming(targets, reachable)
    \/ Reject \/ RejectHangup
    \/ RunStart \/ TakeWinner \/ AnswerModule \/ LoopEnds \/ Connect \/ Joined
    \/ Clean \/ Hangup \/ Report \/ Join \/ Release

LegStep(l) ==
    \/ Setup(l) \/ Fence(l) \/ Send(l) \/ Offer(l) \/ Done(l) \/ DrainDeadline(l) \/ TxDone(l)
    \/ HandleRefusal(l) \/ HandleUnusable(l) \/ HandleAnswer(l) \/ Lock(l) \/ Ack(l) \/ EndDialog(l)
    \/ Finish(l) \/ FinishAccountRecord(l) \/ ReportLeg(l)

Next ==
    \/ MainStep \/ MediaFails \/ Finalize \/ RouterEnds \/ CarrierConnects \/ CarrierEnds \/ Stop
    \/ \E l \in Phones : LegStep(l) \/ RefreshFails(l) \/ PhoneReplies(l) \/ PhoneBye(l) \/ RouterWithdraws(l)

Spec == Init /\ [][Next]_vars

\* Goroutines run, and the repeated Hangup succeeds in the end; the INVITE transaction ends (txDone)
\* if no reply comes.  The state of the line is read every 500 ms, so that the loop sees a call that
\* the carrier ended.  A reader of a closed RTP socket fails.  Deadlines pass before a call is connected.
Fairness ==
    /\ WF_vars(RunStart) /\ WF_vars(TakeWinner) /\ WF_vars(AnswerModule) /\ WF_vars(Connect) /\ WF_vars(Joined)
    /\ WF_vars(LoopEnds /\ (callStopped \/ line = "idle"))
    /\ WF_vars(Clean) /\ WF_vars(Hangup) /\ WF_vars(Report) /\ WF_vars(Join) /\ WF_vars(Release) /\ WF_vars(Finalize)
    /\ WF_vars(MediaFails /\ connected /\ won \in finished)
    /\ WF_vars(RouterEnds /\ router.phase # "connected")
    /\ \A l \in Phones : WF_vars(LegStep(l))

FairSpec == Spec /\ Fairness

-----------------------------------------------------------------------------
(* What must hold.                                                         *)

\* While the carrier may know of the call, the goroutine that holds the module is at work and the
\* router keeps the module from other calls (probeIncoming, cleanIncoming; SIP-CALLS.md).
HeldWhileOnLine ==
    line \in {"ringing", "answered", "active", "idle"} => main # "done" /\ router.phase # "gone"

\* However many phones answer at once, the carrier's call is answered for the one phone that the
\* router chose (handleResponse, Router.Answer, run).
AnswersForWinner == line = "ringing" /\ line' = "answered" => won \in selected /\ router.winner = won
AnsweredForWinner == [][AnswersForWinner]_vars

\* At the end no phone is left in a dialog: one whose answer was taken was sent BYE or hung up
\* itself (handleResponse, endDialog).
NoPhoneLeftHanging ==
    \A l \in Phones : leg[l] = "done" /\ l \in responses => l \in byes \/ phone[l] = "left"

\* "One rejected fork cannot end its winner's row": an account's record is settled only after the
\* last of its phones, and if one of them won, with the result of that phone (finishAccountRecord).
RecordSettledLast ==
    \A a \in Owners : record[a].finished =>
        /\ LegsOf(a) \subseteq finished
        /\ \A l \in LegsOf(a) \cap selected : record[a].outcome = outcome[l]

\* Once the router has forgotten the call and the legs and the finalizer are done, every record that
\* was opened is closed: no order of the two writers leaves one pending ("Final cleanup must not
\* overtake this write", finishAccountRecord, finalizeRecords).
RecordsClosed ==
    router.phase = "gone" /\ finalizer = "done" /\ (\A l \in rung : leg[l] = "done")
        => \A a \in Owners : record[a].state \in {"none", "ended"}

\* A stopped call is released whatever its phones answer (releaseFinishedLocked).
Released == callStopped ~> ended \/ (main = "done" /\ router.phase = "gone" /\ finalizer = "done")

\* A winner whose leg ends without the router being told takes the line down (finish closes its
\* audio; mediaFailed).
LostWinnerEnds == (\E l \in selected : l \in finished) ~> main = "done" \/ ended

\* Nothing lets go of a module whose carrier may still have the call; with the types.
LineHeld == TypeOK /\ HeldWhileOnLine

\* The shared record of an account is written by the last of its phones and by the
\* finalizer in some order, and in the end it is closed with the right result.
RecordsSettled == RecordSettledLast /\ RecordsClosed

\* No phone whose 200 was taken is left in a dialog that nobody ends, and the record the phones
\* share is closed last, with the winner's result.  A phone that rang and gave no 200 may be let
\* go without a word, when its INVITE transaction or the drain's deadline ends first.
PhonesTold == NoPhoneLeftHanging /\ RecordsSettled

\* Every call that stops, or whose winner is lost, ends and is released.
EveryCallEnds == Released /\ LostWinnerEnds

=============================================================================
