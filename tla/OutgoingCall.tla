---------------------------- MODULE OutgoingCall ----------------------------
(***************************************************************************)
(* A call that a SIP client makes over a module (sip_calls.go).            *)
(*                                                                         *)
(* The INVITE handler admits the call under the dialog lock, letting go of *)
(* it once to write the call record, and starts a worker.  The worker      *)
(* takes the module's gate, opens the line, dials, answers the client and  *)
(* watches the line; however it leaves, its deferred cleanup hangs up the  *)
(* line and tells the client in two goroutines.  Cancelling, hanging up,   *)
(* losing permission and stopping the program all meet it at any point.    *)
(*                                                                         *)
(* The calls below are made on one module, one after the other or at once. *)
(* The router (module Router) is reduced to what it keeps of these calls:  *)
(* the phase, whether the client leg is there and whether the module has   *)
(* been reported closed.                                                   *)
(***************************************************************************)
EXTENDS Naturals, FiniteSets

CONSTANTS
    Calls,      \* INVITEs that clients send
    WiFi,       \* those of them that a module serves over Wi-Fi
    Free        \* nobody

ASSUME OutgoingConstants == WiFi \subseteq Calls /\ Free \notin Calls

VARIABLES
    worker,         \* where run is
    ender,          \* where endPeer is
    line,           \* what the carrier knows of the call
    gate,           \* the module's hardware gate
    work,           \* calls with a reservation of module work
    route,          \* the phase of the router's call
    legs,           \* calls whose client leg the router has
    stopped,        \* c.ctx is cancelled
    accepted, final, peerClosed, moduleClosed, finished,    \* the atomic flags
    acked,          \* c.ack is closed
    finals,         \* final answers given to the INVITE
    byes,           \* calls whose client was sent BYE
    gone,           \* calls whose client has sent CANCEL or BYE
    outcome,        \* c.outcome
    record,         \* the row of sip_call_records
    ended           \* the service's context is cancelled

lineVars == <<line, gate, work>>
routerVars == <<route, legs>>
flags == <<accepted, final, moduleClosed, finished>>
clientVars == <<acked, finals, byes, gone>>
vars == <<worker, ender, lineVars, routerVars, stopped, peerClosed, flags, clientVars,
          outcome, record, ended>>

Results == {"none", "failed", "cancelled", "completed"}
Early == {"none", "admit"}
Setup == {"start", "gate", "media", "open", "fence", "dial", "poll", "answer", "ack", "connect", "talk"}
Cleanup == {"clean", "hangup", "early", "finish", "abandon", "unwind", "last"}

TypeOK ==
    /\ worker \in [Calls -> Early \cup Setup \cup Cleanup \cup {"done"}]
    /\ ender \in [Calls -> {"none", "begin", "await", "bye", "report", "done"}]
    /\ line \in [Calls -> {"none", "idle", "dialing", "active", "left"}]
    /\ gate \in Calls \cup {Free}
    /\ route \in [Calls -> {"none", "dialing", "connected", "ending", "gone"}]
    /\ \A S \in {work, legs, stopped, accepted, final, peerClosed, moduleClosed, finished, acked, byes, gone} :
          S \subseteq Calls
    /\ \A c \in legs : route[c] \in {"dialing", "connected", "ending"}
    /\ finals \in [Calls -> 0 .. 2]
    /\ outcome \in [Calls -> Results]
    /\ record \in [Calls -> [state : {"none", "open", "connected", "pending", "ended"}, outcome : Results]]
    /\ ended \in BOOLEAN

Init ==
    /\ worker = [c \in Calls |-> "none"] /\ ender = [c \in Calls |-> "none"]
    /\ line = [c \in Calls |-> "none"] /\ gate = Free /\ work = {}
    /\ route = [c \in Calls |-> "none"] /\ legs = {}
    /\ stopped = {} /\ accepted = {} /\ final = {} /\ peerClosed = {} /\ moduleClosed = {} /\ finished = {}
    /\ acked = {} /\ finals = [c \in Calls |-> 0] /\ byes = {} /\ gone = {}
    /\ outcome = [c \in Calls |-> "none"]
    /\ record = [c \in Calls |-> [outcome |-> "none", state |-> "none"]]
    /\ ended = FALSE

-----------------------------------------------------------------------------
(* Pieces of the actions.                                                  *)

Goto(c, place) == worker' = [worker EXCEPT ![c] = place]

\* c.result: the first reason stays.
Result(c, reason) ==
    outcome' = [outcome EXCEPT ![c] = IF @ = "none" THEN reason ELSE @]

\* respond with a failure.  A transaction that the client has cancelled is over: the SIP
\* library has answered it.
Respond(c) ==
    /\ final' = final \cup {c}
    /\ finals' = IF c \in gone \/ finals[c] = 2 THEN finals ELSE [finals EXCEPT ![c] = @ + 1]

\* recordState writes only a row without an end.
Recorded(c, state) ==
    record' = [record EXCEPT ![c].state = IF @ \in {"open", "connected"} THEN state ELSE @]

\* endRecord
EndRecord(c, state) ==
    record' = [record EXCEPT ![c].state = state,
                             ![c].outcome = IF @ # "none" THEN @
                                            ELSE IF outcome[c] = "none" THEN "failed" ELSE outcome[c]]

\* Router.ClientClosed and Router.ModuleClosed, one after the other: the call ends, and is
\* forgotten once the router has had both.
Reported(c, client, module) ==
    /\ legs' = IF client THEN legs \ {c} ELSE legs
    /\ route' = [route EXCEPT ![c] = IF @ = "gone" THEN @
                                     ELSE IF c \notin legs' /\ module THEN "gone" ELSE "ending"]

-----------------------------------------------------------------------------
(* Admission: inviteLocked                                                 *)

\* Authentication and the first checks, then the lock is let go for the record.
Invite(c) ==
    /\ worker[c] = "none" /\ ~ ended
    /\ Goto(c, "admit")
    /\ UNCHANGED <<ender, lineVars, routerVars, stopped, peerClosed, flags, clientVars, outcome, record, ended>>

\* No record, a lost binding, no module, no module work, no SIP client: a failure is answered
\* and what was reserved is given back before the lock is.
Refuse(c) ==
    /\ worker[c] = "admit"
    /\ Goto(c, "done")
    /\ Respond(c)
    /\ \/ record' = [record EXCEPT ![c] = [outcome |-> "failed", state |-> "ended"]]
       \/ UNCHANGED record
    /\ UNCHANGED <<ender, lineVars, routerVars, stopped, peerClosed, accepted, moduleClosed, finished,
                   acked, byes, gone, outcome, ended>>

\* Router.Dial finds the module unused, module work is reserved, and bindCancel learns whether
\* the transaction was cancelled, or ended otherwise, meanwhile.
Begin(c) ==
    /\ worker[c] = "admit" /\ ~ ended
    /\ \A other \in Calls : route[other] \in {"none", "gone"}
    /\ route' = [route EXCEPT ![c] = "dialing"]
    /\ legs' = legs \cup {c}
    /\ work' = work \cup {c}
    /\ record' = [record EXCEPT ![c].state = "open"]
    /\ \/ /\ c \in gone
          /\ Result(c, "cancelled") /\ peerClosed' = peerClosed \cup {c} /\ stopped' = stopped \cup {c}
       \/ c \notin gone /\ UNCHANGED <<outcome, peerClosed, stopped>>
       \/ c \notin gone /\ Result(c, "failed") /\ stopped' = stopped \cup {c} /\ UNCHANGED peerClosed
    /\ Goto(c, "start")
    /\ UNCHANGED <<ender, line, gate, flags, clientVars, ended>>

-----------------------------------------------------------------------------
(* The worker: run                                                         *)

Alive(c, place) == worker[c] = place /\ c \notin stopped

\* The call is over before the gate is taken: endPeer, then finish.
LeaveEarly(c) ==
    /\ worker[c] \in {"start", "gate"} /\ c \in stopped
    /\ Goto(c, "early")
    /\ ender' = [ender EXCEPT ![c] = "begin"]
    /\ UNCHANGED <<lineVars, routerVars, stopped, peerClosed, flags, clientVars, outcome, record, ended>>

Start(c) ==
    /\ Alive(c, "start")
    /\ Recorded(c, "open")
    /\ Goto(c, IF c \in WiFi THEN "media" ELSE "gate")
    /\ UNCHANGED <<ender, lineVars, routerVars, stopped, peerClosed, flags, clientVars, outcome, ended>>

\* select may take the gate although the context is cancelled too.
TakeGate(c) ==
    /\ worker[c] = "gate" /\ gate = Free
    /\ gate' = c
    /\ Goto(c, "media")
    /\ UNCHANGED <<ender, line, work, routerVars, stopped, peerClosed, flags, clientVars, outcome, record, ended>>

\* gateTimer: a failure is answered and endPeer is not called.
GateTimeout(c) ==
    /\ worker[c] = "gate"
    /\ Result(c, "failed")
    /\ Respond(c)
    /\ Goto(c, "early")
    /\ ender' = [ender EXCEPT ![c] = "done"]
    /\ UNCHANGED <<lineVars, routerVars, stopped, peerClosed, accepted, moduleClosed, finished,
                   acked, byes, gone, record, ended>>

\* A step fails: the reason is kept, the client is answered, the deferred cleanup begins.
Fail(c, reason) ==
    /\ Result(c, reason)
    /\ Respond(c)
    /\ Goto(c, "clean")
    /\ UNCHANGED <<accepted, moduleClosed, finished, acked, byes, gone>>

Return(c) == Goto(c, "clean") /\ UNCHANGED <<flags, clientVars, outcome>>
Proceed(c, place) == Goto(c, place) /\ UNCHANGED <<flags, clientVars, outcome>>

\* OpenClientRTP, which knows nothing of the context.
OpenMedia(c) ==
    /\ worker[c] = "media"
    /\ Proceed(c, "open") \/ Fail(c, "failed")
    /\ UNCHANGED <<ender, lineVars, routerVars, stopped, peerClosed, record, ended>>

\* c.owner.open may fail with a device in hand, which the cleanup then hangs up.
Open(c) ==
    /\ worker[c] = "open"
    /\ \/ line' = [line EXCEPT ![c] = "idle"] /\ Proceed(c, "fence")
       \/ line' = [line EXCEPT ![c] = "idle"] /\ Fail(c, "failed")
       \/ UNCHANGED line /\ Fail(c, "failed")
    /\ UNCHANGED <<ender, gate, work, routerVars, stopped, peerClosed, record, ended>>

\* Router.ActionCurrent(DialModule)
Fence(c) ==
    /\ worker[c] = "fence"
    /\ IF route[c] = "dialing" /\ c \in legs /\ c \notin stopped THEN Proceed(c, "dial") ELSE Return(c)
    /\ UNCHANGED <<ender, lineVars, routerVars, stopped, peerClosed, record, ended>>

\* device.Dial: an error does not say that the carrier knows nothing of the call.
Dial(c) ==
    /\ worker[c] = "dial"
    /\ \/ line' = [line EXCEPT ![c] = "dialing"] /\ Proceed(c, "poll")
       \/ /\ \E known \in {"idle", "dialing"} : line' = [line EXCEPT ![c] = known]
          /\ IF c \in stopped THEN Return(c) ELSE Fail(c, "failed")
    /\ UNCHANGED <<ender, gate, work, routerVars, stopped, peerClosed, record, ended>>

\* The answer timer, a state that cannot be read, a line that is idle; or the context is done.
PollEnds(c) ==
    /\ worker[c] = "poll"
    /\ IF c \in stopped THEN Return(c) ELSE Fail(c, "failed")
    /\ UNCHANGED <<ender, lineVars, routerVars, stopped, peerClosed, record, ended>>

PollActive(c) ==
    /\ Alive(c, "poll") /\ line[c] = "active"
    /\ Proceed(c, "answer")
    /\ Recorded(c, "connected")
    /\ UNCHANGED <<ender, lineVars, routerVars, stopped, peerClosed, ended>>

\* respond(200) marks the call accepted even when the transaction is over.
Answer(c) ==
    /\ worker[c] = "answer"
    /\ accepted' = accepted \cup {c}
    /\ Respond(c)
    /\ \/ c \notin gone /\ Goto(c, "ack")
       \/ Goto(c, "clean")
    /\ UNCHANGED <<ender, lineVars, routerVars, stopped, peerClosed, moduleClosed, finished,
                   acked, byes, gone, outcome, record, ended>>

\* ctx.Done, ackTimer, a 200 that cannot be repeated; or the acknowledgement.
AwaitAck(c) ==
    /\ worker[c] = "ack"
    /\ Return(c) \/ (c \in acked /\ Proceed(c, "connect"))
    /\ UNCHANGED <<ender, lineVars, routerVars, stopped, peerClosed, record, ended>>

\* Router.Connected
Connect(c) ==
    /\ worker[c] = "connect"
    /\ IF route[c] = "dialing" /\ c \in legs
       THEN Proceed(c, "talk") /\ route' = [route EXCEPT ![c] = "connected"]
       ELSE Return(c) /\ UNCHANGED route
    /\ UNCHANGED <<ender, lineVars, legs, stopped, peerClosed, record, ended>>

\* The line is read as no longer active, or not at all; or the context is done.
TalkEnds(c) ==
    /\ worker[c] = "talk"
    /\ \/ c \in stopped /\ UNCHANGED outcome
       \/ c \notin stopped /\ line[c] # "active" /\ Result(c, "completed")
       \/ c \notin stopped /\ Result(c, "failed")
    /\ Goto(c, "clean")
    /\ UNCHANGED <<ender, lineVars, routerVars, stopped, peerClosed, flags, clientVars, record, ended>>

\* mediaFailed, from an audio goroutine.
MediaFails(c) ==
    /\ worker[c] \in {"dial", "poll", "answer", "ack", "connect", "talk"} /\ c \notin stopped
    /\ Result(c, "failed")
    /\ stopped' = stopped \cup {c}
    /\ UNCHANGED <<worker, ender, lineVars, routerVars, peerClosed, flags, clientVars, record, ended>>

-----------------------------------------------------------------------------
(* The deferred cleanup of run, finish and workerFinished                  *)

Clean(c) ==
    /\ worker[c] = "clean"
    /\ stopped' = stopped \cup {c}
    /\ EndRecord(c, "pending")
    /\ ender' = [ender EXCEPT ![c] = "begin"]
    /\ Goto(c, "hangup")
    /\ UNCHANGED <<lineVars, routerVars, peerClosed, flags, clientVars, outcome, ended>>

\* device.Hangup is tried until it succeeds or the service stops.
HangupOnce(c) ==
    /\ worker[c] = "hangup"
    /\ \/ line' = [line EXCEPT ![c] = "none"]
       \/ UNCHANGED line
    /\ Goto(c, "finish")
    /\ UNCHANGED <<ender, gate, work, routerVars, stopped, peerClosed, flags, clientVars, outcome, record, ended>>

Hangup(c) ==
    /\ worker[c] = "hangup"
    /\ line' = [line EXCEPT ![c] = "none"]
    /\ Goto(c, "finish")
    /\ UNCHANGED <<ender, gate, work, routerVars, stopped, peerClosed, flags, clientVars, outcome, record, ended>>

Abandon(c) ==
    /\ worker[c] = "hangup" /\ line[c] # "none" /\ ended
    /\ line' = [line EXCEPT ![c] = "left"]
    /\ Goto(c, "abandon")
    /\ UNCHANGED <<ender, gate, work, routerVars, stopped, peerClosed, flags, clientVars, outcome, record, ended>>

\* finish
Finish(c) ==
    /\ worker[c] \in {"finish", "abandon"} \/ (worker[c] = "early" /\ ender[c] = "done")
    /\ LET closed == worker[c] # "abandon"
       IN /\ moduleClosed' = IF closed THEN moduleClosed \cup {c} ELSE moduleClosed
          /\ EndRecord(c, IF closed THEN "ended" ELSE "pending")
          /\ stopped' = stopped \cup {c}
          /\ IF closed \/ c \notin accepted \/ c \in peerClosed
             THEN Reported(c, c \notin accepted \/ c \in peerClosed, closed)
             ELSE UNCHANGED routerVars
    /\ Goto(c, "unwind")
    /\ UNCHANGED <<ender, lineVars, peerClosed, accepted, final, finished, clientVars, outcome, ended>>

\* The deferred function waits for endPeer; the gate and the module work follow it.
Unwind(c) ==
    /\ worker[c] = "unwind" /\ ender[c] = "done"
    /\ gate' = IF gate = c THEN Free ELSE gate
    /\ work' = work \ {c}
    /\ Goto(c, "last")
    /\ UNCHANGED <<ender, line, routerVars, stopped, peerClosed, flags, clientVars, outcome, record, ended>>

\* releaseFinishedLocked
ReleaseAnswered(S) ==
    LET over == {c \in S : c \in moduleClosed /\ c \in peerClosed /\ route[c] \notin {"none", "gone"}}
    IN /\ UNCHANGED peerClosed
       /\ legs' = legs \ over
       /\ route' = [c \in Calls |-> IF c \in over THEN "gone" ELSE route[c]]

Release(S) ==
    LET over == {c \in S : c \in moduleClosed /\ c \in stopped /\ route[c] \notin {"none", "gone"}}
    IN /\ peerClosed' = peerClosed \cup over
       /\ legs' = legs \ over
       /\ route' = [c \in Calls |-> IF c \in over THEN "gone" ELSE route[c]]

WorkerFinished(c) ==
    /\ worker[c] = "last"
    /\ finished' = finished \cup {c}
    /\ Release(finished')
    /\ Goto(c, "done")
    /\ UNCHANGED <<ender, lineVars, stopped, accepted, final, moduleClosed, clientVars, outcome, record, ended>>

-----------------------------------------------------------------------------
(* Telling the client: endPeer                                             *)

EndPeer(c) ==
    /\ ender[c] = "begin"
    /\ \/ /\ c \notin accepted
          /\ IF c \notin final /\ c \notin peerClosed THEN Respond(c) ELSE UNCHANGED <<final, finals>>
          /\ peerClosed' = peerClosed \cup {c}
          /\ ender' = [ender EXCEPT ![c] = "report"]
       \/ /\ c \in accepted
          /\ ender' = [ender EXCEPT ![c] = IF c \in peerClosed THEN "report" ELSE "await"]
          /\ UNCHANGED <<peerClosed, final, finals>>
    /\ UNCHANGED <<worker, lineVars, routerVars, stopped, accepted, moduleClosed, finished,
                   acked, byes, gone, outcome, record, ended>>

\* BYE waits for the ACK or for the deadline of the 200.
SendByeAcked(c) ==
    /\ ender[c] = "await"
    /\ byes' = IF c \in acked THEN byes \cup {c} ELSE byes
    /\ ender' = [ender EXCEPT ![c] = "bye"]
    /\ UNCHANGED <<worker, lineVars, routerVars, stopped, peerClosed, flags, acked, finals, gone, outcome, record, ended>>

SendBye(c) ==
    /\ ender[c] = "await"
    /\ byes' = byes \cup {c}
    /\ ender' = [ender EXCEPT ![c] = "bye"]
    /\ UNCHANGED <<worker, lineVars, routerVars, stopped, peerClosed, flags, acked, finals, gone, outcome, record, ended>>

\* sipByeConfirmed, or no answer to the BYE.
ByeAnswered(c) ==
    /\ ender[c] = "bye"
    /\ peerClosed' = peerClosed \cup {c} \/ UNCHANGED peerClosed
    /\ ender' = [ender EXCEPT ![c] = "report"]
    /\ UNCHANGED <<worker, lineVars, routerVars, stopped, flags, clientVars, outcome, record, ended>>

EndReport(c) ==
    /\ ender[c] = "report"
    /\ IF c \in peerClosed THEN Reported(c, TRUE, c \in moduleClosed) ELSE UNCHANGED routerVars
    /\ ender' = [ender EXCEPT ![c] = "done"]
    /\ UNCHANGED <<worker, lineVars, stopped, peerClosed, flags, clientVars, outcome, record, ended>>

-----------------------------------------------------------------------------
(* What comes from outside.                                                *)

Started(c) == worker[c] \notin Early /\ route[c] # "none"

\* CANCEL reaches a transaction without a final answer; before bindCancel it is remembered
\* by the transaction only.
Cancel(c) ==
    /\ worker[c] # "none" /\ c \notin gone /\ finals[c] = 0
    /\ gone' = gone \cup {c}
    /\ IF Started(c)
       THEN Result(c, "cancelled") /\ peerClosed' = peerClosed \cup {c} /\ stopped' = stopped \cup {c}
       ELSE UNCHANGED <<outcome, peerClosed, stopped>>
    /\ UNCHANGED <<worker, ender, lineVars, routerVars, flags, acked, finals, byes, record, ended>>

\* dialogLocked: ACK
Ack(c) ==
    /\ c \in accepted /\ c \notin gone /\ route[c] # "gone"
    /\ c \notin acked
    /\ acked' = acked \cup {c}
    /\ UNCHANGED <<worker, ender, lineVars, routerVars, stopped, peerClosed, flags, finals, byes, gone, outcome, record, ended>>

\* dialogLocked: BYE, which a client may send before the call is answered.
Bye(c) ==
    /\ Started(c) /\ c \notin gone /\ route[c] # "gone"
    /\ finals[c] = 0 \/ c \in accepted
    /\ gone' = gone \cup {c}
    /\ Result(c, IF c \in accepted THEN "completed" ELSE "cancelled")
    /\ peerClosed' = peerClosed \cup {c}
    /\ stopped' = stopped \cup {c}
    /\ Reported(c, TRUE, c \in moduleClosed)
    /\ UNCHANGED <<worker, ender, lineVars, flags, acked, finals, byes, record, ended>>

\* The router ends the call (a deadline, a lost permission, a module that is gone): its orders
\* stop the call under the lock.
RouterEnds(c) ==
    /\ route[c] \in {"dialing", "connected"}
    /\ route' = [route EXCEPT ![c] = "ending"]
    /\ Result(c, "failed")
    /\ stopped' = stopped \cup {c}
    /\ UNCHANGED <<worker, ender, lineVars, legs, peerClosed, flags, clientVars, record, ended>>

\* syncLocked and a failed refresh also release finished calls.
Sync ==
    /\ Release(finished)
    /\ UNCHANGED <<worker, ender, lineVars, stopped, flags, clientVars, outcome, record, ended>>

\* The called party answers, and ends the call.
CarrierAnswers(c) ==
    /\ line[c] = "dialing"
    /\ line' = [line EXCEPT ![c] = "active"]
    /\ UNCHANGED <<worker, ender, gate, work, routerVars, stopped, peerClosed, flags, clientVars, outcome, record, ended>>

CarrierEnds(c) ==
    /\ line[c] \in {"dialing", "active"}
    /\ line' = [line EXCEPT ![c] = "idle"]
    /\ UNCHANGED <<worker, ender, gate, work, routerVars, stopped, peerClosed, flags, clientVars, outcome, record, ended>>

\* The context of every call ends with the service's.
Stop ==
    /\ ~ ended
    /\ ended' = TRUE
    /\ stopped' = stopped \cup {c \in Calls : Started(c)}
    /\ UNCHANGED <<worker, ender, lineVars, routerVars, peerClosed, flags, clientVars, outcome, record>>

Work(c) ==
    \/ Refuse(c) \/ Begin(c)
    \/ LeaveEarly(c) \/ Start(c) \/ TakeGate(c) \/ GateTimeout(c)
    \/ OpenMedia(c) \/ Open(c) \/ Fence(c) \/ Dial(c) \/ PollEnds(c) \/ PollActive(c)
    \/ Answer(c) \/ AwaitAck(c) \/ Connect(c) \/ TalkEnds(c)
    \/ Clean(c) \/ Hangup(c) \/ Finish(c) \/ Unwind(c) \/ WorkerFinished(c)

Ending(c) == EndPeer(c) \/ SendBye(c) \/ ByeAnswered(c) \/ EndReport(c)

Next ==
    \/ Sync \/ Stop
    \/ \E c \in Calls :
          \/ Invite(c) \/ Work(c) \/ Ending(c) \/ Abandon(c) \/ MediaFails(c)
          \/ Cancel(c) \/ Ack(c) \/ Bye(c) \/ RouterEnds(c) \/ CarrierAnswers(c) \/ CarrierEnds(c)

Spec == Init /\ [][Next]_vars

-----------------------------------------------------------------------------
(* What must hold.                                                         *)

\* While the carrier may know of a call, the router keeps its module from other calls, and
\* module work and, but for Wi-Fi, the gate are held (SIP-CALLS.md:61; finish).
HeldWhileOnLine ==
    \A c \in Calls :
        line[c] \in {"idle", "dialing", "active"} =>
            /\ route[c] \in {"dialing", "connected", "ending"}
            /\ c \in work
            /\ c \in WiFi \/ gate = c

\* The client's INVITE gets at most one final answer (respond, endPeer).
OneFinalAnswer == \A c \in Calls : finals[c] <= 1

\* When the worker is done the client knows the call is over: it left, it got a failure, or it
\* was sent BYE after its 200 (endPeer, finish).
ClientTold ==
    \A c \in Calls :
        worker[c] = "done" => c \in gone \/ (finals[c] = 1 /\ (c \in accepted => c \in byes))

\* A record says "ended" only once the carrier is known to have let go, and says "completed"
\* only of a call that was answered and "cancelled" only if the client left (endRecord, finish).
HonestRecord ==
    \A c \in Calls :
        /\ record[c].state = "ended" => line[c] = "none"
        /\ record[c].outcome = "completed" => c \in accepted
        /\ record[c].outcome = "cancelled" => c \in gone

\* Whatever the client answered or failed to answer, a call whose module has let go keeps neither
\* module nor account after its worker; only a module that was never idle before the service
\* stopped leaves its call behind (releaseFinishedLocked).
Released ==
    \A c \in Calls : worker[c] = "done" /\ route[c] # "none" => route[c] = "gone" \/ (ended /\ c \notin moduleClosed)

\* Nothing lets go of a module whose carrier may still have the call; with the types.
LineHeld == TypeOK /\ HeldWhileOnLine

\* However cancel, hangup and failure meet, the client is told once that its call failed
\* or ended.
ClientAnswered == OneFinalAnswer /\ ClientTold

\* A client gets exactly one final answer, every record ends with what happened, and all is
\* released in the end.
OutgoingTold == ClientAnswered /\ HonestRecord /\ Released

=============================================================================
