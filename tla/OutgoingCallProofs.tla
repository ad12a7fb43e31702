------------------------- MODULE OutgoingCallProofs -------------------------
(***************************************************************************)
(* Proofs about OutgoingCall, for any number of calls at once on one       *)
(* module: nothing lets go of a line that the carrier may still have, and  *)
(* the client is answered once and told, the record is honest and all is   *)
(* released.                                                               *)
(*                                                                         *)
(* The invariant says for each place of the worker what it holds and what  *)
(* the client knows.  Every step is of one call: it keeps the invariant of *)
(* that call, and leaves the others alone.                                 *)
(***************************************************************************)
EXTENDS OutgoingCall, TLAPS

Live == {"idle", "dialing", "active"}
Known == {"dialing", "connected", "ending"}

\* Places of the worker: the line may be up; it was never up, or is down; no answer was given yet.
Reaching == {"fence", "dial", "poll", "answer", "ack", "connect", "talk", "clean", "hangup"}
Offline == {"none", "admit", "start", "gate", "media", "open", "early", "finish"}
Unanswered == {"none", "admit", "start", "gate", "media", "open", "fence", "dial", "poll", "answer"}

\* What call c holds of the line, the gate, module work and the router.
LineOf(c) ==
    /\ line[c] \in Live => worker[c] \in Reaching
    /\ worker[c] \in Offline => line[c] = "none"
    /\ worker[c] \in Reaching \cup {"media", "open"} => c \in WiFi \/ gate = c
    /\ worker[c] \in (Setup \cup Cleanup) \ {"last"} => c \in work
    /\ worker[c] \in Setup \cup Cleanup /\ c \notin moduleClosed => route[c] \in Known
    /\ c \in moduleClosed => worker[c] \in {"unwind", "last", "done"}

\* What its client was answered.
AnswersOf(c) ==
    /\ finals[c] \in {0, 1}
    /\ finals[c] = 1 => c \in final
    /\ c \in final => finals[c] = 1 \/ c \in gone
    /\ worker[c] \in Unanswered => c \notin final
    /\ c \in accepted => c \in final
    /\ worker[c] \in {"ack", "connect", "talk"} => c \in accepted

\* How far its client was told that the call is over.
EnderOf(c) ==
    /\ worker[c] \in Early \cup Setup \cup {"clean"} => ender[c] = "none"
    /\ worker[c] \in {"last", "done"} =>
          \/ ender[c] = "done"
          \/ worker[c] = "done" /\ ender[c] = "none" /\ route[c] = "none" /\ c \in final /\ c \notin accepted
    /\ ender[c] \in {"none", "begin"} /\ c \in peerClosed => c \in gone
    /\ ender[c] \in {"await", "bye"} => c \in accepted
    /\ ender[c] = "bye" => c \in byes
    /\ ender[c] \in {"report", "done"} => c \in gone \/ (c \in final /\ (c \in accepted => c \in byes))

\* What its record says.
RecordOf(c) ==
    /\ record[c].state = "ended" => line[c] = "none" /\ worker[c] \in {"unwind", "last", "done"}
    /\ record[c].outcome = "completed" \/ outcome[c] = "completed" => c \in accepted
    /\ record[c].outcome = "cancelled" \/ outcome[c] = "cancelled" => c \in gone

\* What is left of it when its worker is done.
ReleaseOf(c) ==
    /\ worker[c] \in Early => route[c] = "none"
    /\ worker[c] = "abandon" => ended
    /\ worker[c] \in {"unwind", "last"} => c \in stopped /\ (c \in moduleClosed \/ ended)
    /\ worker[c] = "done" /\ route[c] # "none" => route[c] = "gone" \/ (ended /\ c \notin moduleClosed)
    /\ c \in finished => worker[c] = "done"

CallInv(c) == LineOf(c) /\ AnswersOf(c) /\ EnderOf(c) /\ RecordOf(c) /\ ReleaseOf(c)

Inv == TypeOK /\ \A c \in Calls : CallInv(c)

\* The step leaves call e as it was.
Same(e) ==
    /\ worker'[e] = worker[e] /\ ender'[e] = ender[e] /\ line'[e] = line[e]
    /\ gate = e => gate' = e
    /\ route'[e] = route[e] /\ finals'[e] = finals[e] /\ outcome'[e] = outcome[e] /\ record'[e] = record[e]
    /\ e \in work <=> e \in work'
    /\ e \in stopped <=> e \in stopped'
    /\ e \in accepted <=> e \in accepted'
    /\ e \in final <=> e \in final'
    /\ e \in peerClosed <=> e \in peerClosed'
    /\ e \in moduleClosed <=> e \in moduleClosed'
    /\ e \in finished <=> e \in finished'
    /\ e \in byes <=> e \in byes'
    /\ e \in gone <=> e \in gone'
    /\ ended => ended'

\* Such a call keeps its invariant.
LEMMA SameKeeps ==
    ASSUME NEW e \in Calls, CallInv(e), Same(e)
    PROVE  CallInv(e)'
<1>1. LineOf(e)'  BY DEF CallInv, Same, LineOf
<1>2. AnswersOf(e)'  BY DEF CallInv, Same, AnswersOf
<1>3. EnderOf(e)'  BY DEF CallInv, Same, EnderOf
<1>4. RecordOf(e)'  BY DEF CallInv, Same, RecordOf
<1>5. ReleaseOf(e)'  BY DEF CallInv, Same, ReleaseOf
<1> QED  BY <1>1, <1>2, <1>3, <1>4, <1>5 DEF CallInv

-----------------------------------------------------------------------------
(* Admission.                                                              *)

\* Admitting, refusing and beginning a call.
LEMMA AdmissionStep ==
    ASSUME Inv, NEW c \in Calls, Invite(c) \/ Refuse(c) \/ Begin(c)
    PROVE  TypeOK' /\ CallInv(c)' /\ \A e \in Calls \ {c} : Same(e)
<1> USE DEF Goto, Result, Respond, Early, Setup, Cleanup, Results
<1>1. CASE Invite(c)
  <2>1. TypeOK'  BY <1>1 DEF Inv, TypeOK, Invite, lineVars, routerVars, flags, clientVars
  <2>2. CallInv(c)'
    BY <1>1
       DEF Inv, TypeOK, Invite, lineVars, routerVars, flags, clientVars, CallInv, LineOf, AnswersOf, EnderOf, RecordOf, ReleaseOf,
           Live, Known, Reaching, Offline, Unanswered
  <2>3. \A e \in Calls \ {c} : Same(e)
    BY <1>1 DEF Inv, TypeOK, Invite, lineVars, routerVars, flags, clientVars, Same
  <2> QED  BY <2>1, <2>2, <2>3
<1>2. CASE Refuse(c)
  <2>1. TypeOK'  BY <1>2 DEF Inv, TypeOK, Refuse, lineVars, routerVars, flags, clientVars
  <2>2. CallInv(c)'
    BY <1>2
       DEF Inv, TypeOK, Refuse, lineVars, routerVars, flags, clientVars, CallInv, LineOf, AnswersOf, EnderOf, RecordOf, ReleaseOf,
           Live, Known, Reaching, Offline, Unanswered
  <2>3. \A e \in Calls \ {c} : Same(e)
    BY <1>2 DEF Inv, TypeOK, Refuse, lineVars, routerVars, flags, clientVars, Same
  <2> QED  BY <2>1, <2>2, <2>3
<1>3. CASE Begin(c)
  <2>1. TypeOK'
    <3>1. record' \in [Calls -> [state : {"none", "open", "connected", "pending", "ended"}, outcome : Results]]
      BY <1>3 DEF Inv, TypeOK, Begin
    <3>2. outcome' \in [Calls -> Results] /\ peerClosed' \subseteq Calls /\ stopped' \subseteq Calls
      BY <1>3 DEF Inv, TypeOK, Begin
    <3>3. /\ route' \in [Calls -> {"none", "dialing", "connected", "ending", "gone"}]
          /\ legs' \subseteq Calls
          /\ \A e \in legs' : route'[e] \in {"dialing", "connected", "ending"}
      BY <1>3 DEF Inv, TypeOK, Begin
    <3> QED  BY <1>3, <3>1, <3>2, <3>3 DEF Inv, TypeOK, Begin, flags, clientVars
  <2>2. CallInv(c)'
    BY <1>3
       DEF Inv, TypeOK, Begin, lineVars, routerVars, flags, clientVars, CallInv, LineOf, AnswersOf, EnderOf, RecordOf, ReleaseOf,
           Live, Known, Reaching, Offline, Unanswered
  <2>3. \A e \in Calls \ {c} : Same(e)
    BY <1>3 DEF Inv, TypeOK, Begin, lineVars, routerVars, flags, clientVars, Same
  <2> QED  BY <2>1, <2>2, <2>3
<1> QED  BY <1>1, <1>2, <1>3

-----------------------------------------------------------------------------
(* A step of the worker that goes on, returns or fails.                    *)

Driven ==
    /\ worker \in [Calls -> Early \cup Setup \cup Cleanup \cup {"done"}]
    /\ finals \in [Calls -> 0 .. 2]
    /\ outcome \in [Calls -> Results]
    /\ accepted \subseteq Calls /\ final \subseteq Calls /\ moduleClosed \subseteq Calls /\ finished \subseteq Calls
    /\ acked \subseteq Calls /\ byes \subseteq Calls /\ gone \subseteq Calls

\* However such a step leaves, the worker's place and the answers keep their types.
LEMMA DriveTyped ==
    ASSUME TypeOK, NEW c \in Calls,
           (\E place \in Setup : Proceed(c, place)) \/ Return(c) \/ Fail(c, "failed")
    PROVE  Driven'
<1>0. Driven  BY DEF TypeOK, Driven
<1>1. CASE \E place \in Setup : Proceed(c, place)
  <2>1. PICK place \in Setup : Proceed(c, place)  BY <1>1
  <2> QED  BY <2>1, <1>0 DEF Driven, Proceed, Goto, Setup, flags, clientVars
<1>2. CASE Return(c)
  <2> QED  BY <1>2, <1>0 DEF Driven, Return, Goto, Cleanup, flags, clientVars
<1>3. CASE Fail(c, "failed")
  <2>1. finals' \in [Calls -> 0 .. 2]  BY <1>3, <1>0 DEF Driven, Fail, Respond
  <2>2. outcome' \in [Calls -> Results]  BY <1>3, <1>0 DEF Driven, Fail, Result, Results
  <2>3. worker' \in [Calls -> Early \cup Setup \cup Cleanup \cup {"done"}]
    BY <1>3, <1>0 DEF Driven, Fail, Goto, Cleanup
  <2> QED  BY <1>3, <1>0, <2>1, <2>2, <2>3 DEF Driven, Fail, Respond
<1> QED  BY <1>1, <1>2, <1>3

-----------------------------------------------------------------------------
(* The worker before the line is opened.                                   *)

\* A step that takes the gate, the media or the line, or gives up on it.
LEMMA BeforeLineStep ==
    ASSUME Inv, NEW c \in Calls,
           LeaveEarly(c) \/ Start(c) \/ TakeGate(c) \/ GateTimeout(c) \/ OpenMedia(c) \/ Open(c)
    PROVE  TypeOK' /\ CallInv(c)' /\ \A e \in Calls \ {c} : Same(e)
<1> USE DEF Goto, Result, Respond, Recorded, EndRecord, Reported, Alive, Started,
            Early, Setup, Cleanup, Results, lineVars, routerVars, flags, clientVars
<1>1. CASE LeaveEarly(c)
  <2>1. TypeOK'  BY <1>1 DEF Inv, TypeOK, LeaveEarly
  <2>2. CallInv(c)'
    BY <1>1
       DEF Inv, TypeOK, LeaveEarly, CallInv, LineOf, AnswersOf, EnderOf, RecordOf, ReleaseOf,
           Live, Known, Reaching, Offline, Unanswered
  <2>3. \A e \in Calls \ {c} : Same(e)
    BY <1>1 DEF Inv, TypeOK, LeaveEarly, Same
  <2> QED  BY <2>1, <2>2, <2>3
<1>2. CASE Start(c)
  <2>1. TypeOK'  BY <1>2 DEF Inv, TypeOK, Start
  <2>2. CallInv(c)'
    BY <1>2
       DEF Inv, TypeOK, Start, CallInv, LineOf, AnswersOf, EnderOf, RecordOf, ReleaseOf,
           Live, Known, Reaching, Offline, Unanswered
  <2>3. \A e \in Calls \ {c} : Same(e)
    BY <1>2 DEF Inv, TypeOK, Start, Same
  <2> QED  BY <2>1, <2>2, <2>3
<1>3. CASE TakeGate(c)
  <2>1. TypeOK'  BY <1>3 DEF Inv, TypeOK, TakeGate
  <2>2. CallInv(c)'
    BY <1>3
       DEF Inv, TypeOK, TakeGate, CallInv, LineOf, AnswersOf, EnderOf, RecordOf, ReleaseOf,
           Live, Known, Reaching, Offline, Unanswered
  <2>3. \A e \in Calls \ {c} : Same(e)
    BY <1>3, OutgoingConstants DEF Inv, TypeOK, TakeGate, Same
  <2> QED  BY <2>1, <2>2, <2>3
<1>4. CASE GateTimeout(c)
  <2>1. TypeOK'  BY <1>4 DEF Inv, TypeOK, GateTimeout
  <2>2. CallInv(c)'
    BY <1>4
       DEF Inv, TypeOK, GateTimeout, CallInv, LineOf, AnswersOf, EnderOf, RecordOf, ReleaseOf,
           Live, Known, Reaching, Offline, Unanswered
  <2>3. \A e \in Calls \ {c} : Same(e)
    BY <1>4 DEF Inv, TypeOK, GateTimeout, Same
  <2> QED  BY <2>1, <2>2, <2>3
<1>5. CASE OpenMedia(c)
  <2>1. TypeOK'
    <3>1. TypeOK  BY DEF Inv
    <3>2. (\E place \in Setup : Proceed(c, place)) \/ Return(c) \/ Fail(c, "failed")  BY <1>5 DEF OpenMedia
    <3>3. Driven'  BY <3>1, <3>2, DriveTyped
    <3> QED  BY <1>5, <3>1, <3>3 DEF TypeOK, Driven, OpenMedia
  <2>2. CallInv(c)'
    BY <1>5
       DEF Inv, TypeOK, OpenMedia, Fail, Return, Proceed, CallInv, LineOf, AnswersOf, EnderOf, RecordOf, ReleaseOf,
           Live, Known, Reaching, Offline, Unanswered
  <2>3. \A e \in Calls \ {c} : Same(e)
    BY <1>5 DEF Inv, TypeOK, OpenMedia, Fail, Return, Proceed, Same
  <2> QED  BY <2>1, <2>2, <2>3
<1>6. CASE Open(c)
  <2>1. TypeOK'
    <3>1. TypeOK  BY DEF Inv
    <3>2. (\E place \in Setup : Proceed(c, place)) \/ Return(c) \/ Fail(c, "failed")  BY <1>6 DEF Open
    <3>3. Driven'  BY <3>1, <3>2, DriveTyped
    <3> QED  BY <1>6, <3>1, <3>3 DEF TypeOK, Driven, Open
  <2>2. CallInv(c)'
    BY <1>6
       DEF Inv, TypeOK, Open, Fail, Return, Proceed, CallInv, LineOf, AnswersOf, EnderOf, RecordOf, ReleaseOf,
           Live, Known, Reaching, Offline, Unanswered
  <2>3. \A e \in Calls \ {c} : Same(e)
    BY <1>6 DEF Inv, TypeOK, Open, Fail, Return, Proceed, Same
  <2> QED  BY <2>1, <2>2, <2>3
<1> QED  BY <1>1, <1>2, <1>3, <1>4, <1>5, <1>6

-----------------------------------------------------------------------------
(* The worker until the answer.                                            *)

\* A step of dialling and polling the line.
LEMMA DialStep ==
    ASSUME Inv, NEW c \in Calls,
           Fence(c) \/ Dial(c) \/ PollEnds(c) \/ PollActive(c)
    PROVE  TypeOK' /\ CallInv(c)' /\ \A e \in Calls \ {c} : Same(e)
<1> USE DEF Goto, Result, Respond, Recorded, EndRecord, Reported, Alive, Started,
            Early, Setup, Cleanup, Results, lineVars, routerVars, flags, clientVars
<1>1. CASE Fence(c)
  <2>1. TypeOK'
    <3>1. TypeOK  BY DEF Inv
    <3>2. (\E place \in Setup : Proceed(c, place)) \/ Return(c) \/ Fail(c, "failed")  BY <1>1 DEF Fence
    <3>3. Driven'  BY <3>1, <3>2, DriveTyped
    <3> QED  BY <1>1, <3>1, <3>3 DEF TypeOK, Driven, Fence
  <2>2. CallInv(c)'
    BY <1>1
       DEF Inv, TypeOK, Fence, Fail, Return, Proceed, CallInv, LineOf, AnswersOf, EnderOf, RecordOf, ReleaseOf,
           Live, Known, Reaching, Offline, Unanswered
  <2>3. \A e \in Calls \ {c} : Same(e)
    BY <1>1 DEF Inv, TypeOK, Fence, Fail, Return, Proceed, Same
  <2> QED  BY <2>1, <2>2, <2>3
<1>2. CASE Dial(c)
  <2>1. TypeOK'
    <3>1. TypeOK  BY DEF Inv
    <3>2. (\E place \in Setup : Proceed(c, place)) \/ Return(c) \/ Fail(c, "failed")  BY <1>2 DEF Dial
    <3>3. Driven'  BY <3>1, <3>2, DriveTyped
    <3> QED  BY <1>2, <3>1, <3>3 DEF TypeOK, Driven, Dial
  <2>2. CallInv(c)'
    BY <1>2
       DEF Inv, TypeOK, Dial, Fail, Return, Proceed, CallInv, LineOf, AnswersOf, EnderOf, RecordOf, ReleaseOf,
           Live, Known, Reaching, Offline, Unanswered
  <2>3. \A e \in Calls \ {c} : Same(e)
    BY <1>2 DEF Inv, TypeOK, Dial, Fail, Return, Proceed, Same
  <2> QED  BY <2>1, <2>2, <2>3
<1>3. CASE PollEnds(c)
  <2>1. TypeOK'
    <3>1. TypeOK  BY DEF Inv
    <3>2. (\E place \in Setup : Proceed(c, place)) \/ Return(c) \/ Fail(c, "failed")  BY <1>3 DEF PollEnds
    <3>3. Driven'  BY <3>1, <3>2, DriveTyped
    <3> QED  BY <1>3, <3>1, <3>3 DEF TypeOK, Driven, PollEnds
  <2>2. CallInv(c)'
    BY <1>3
       DEF Inv, TypeOK, PollEnds, Fail, Return, Proceed, CallInv, LineOf, AnswersOf, EnderOf, RecordOf, ReleaseOf,
           Live, Known, Reaching, Offline, Unanswered
  <2>3. \A e \in Calls \ {c} : Same(e)
    BY <1>3 DEF Inv, TypeOK, PollEnds, Fail, Return, Proceed, Same
  <2> QED  BY <2>1, <2>2, <2>3
<1>4. CASE PollActive(c)
  <2>1. TypeOK'
    <3>1. TypeOK  BY DEF Inv
    <3>2. (\E place \in Setup : Proceed(c, place)) \/ Return(c) \/ Fail(c, "failed")  BY <1>4 DEF PollActive
    <3>3. Driven'  BY <3>1, <3>2, DriveTyped
    <3> QED  BY <1>4, <3>1, <3>3 DEF TypeOK, Driven, PollActive
  <2>2. CallInv(c)'
    BY <1>4
       DEF Inv, TypeOK, PollActive, Fail, Return, Proceed, CallInv, LineOf, AnswersOf, EnderOf, RecordOf, ReleaseOf,
           Live, Known, Reaching, Offline, Unanswered
  <2>3. \A e \in Calls \ {c} : Same(e)
    BY <1>4 DEF Inv, TypeOK, PollActive, Fail, Return, Proceed, Same
  <2> QED  BY <2>1, <2>2, <2>3
<1> QED  BY <1>1, <1>2, <1>3, <1>4

-----------------------------------------------------------------------------
(* The worker from the answer on.                                          *)

\* A step of answering the client and talking.
LEMMA AnswerStep ==
    ASSUME Inv, NEW c \in Calls,
           Answer(c) \/ AwaitAck(c) \/ Connect(c) \/ TalkEnds(c) \/ MediaFails(c)
    PROVE  TypeOK' /\ CallInv(c)' /\ \A e \in Calls \ {c} : Same(e)
<1> USE DEF Goto, Result, Respond, Recorded, EndRecord, Reported, Alive, Started,
            Early, Setup, Cleanup, Results, lineVars, routerVars, flags, clientVars
<1>1. CASE Answer(c)
  <2>1. TypeOK'  BY <1>1 DEF Inv, TypeOK, Answer
  <2>2. CallInv(c)'
    BY <1>1
       DEF Inv, TypeOK, Answer, CallInv, LineOf, AnswersOf, EnderOf, RecordOf, ReleaseOf,
           Live, Known, Reaching, Offline, Unanswered
  <2>3. \A e \in Calls \ {c} : Same(e)
    BY <1>1 DEF Inv, TypeOK, Answer, Same
  <2> QED  BY <2>1, <2>2, <2>3
<1>2. CASE AwaitAck(c)
  <2>1. TypeOK'
    <3>1. TypeOK  BY DEF Inv
    <3>2. (\E place \in Setup : Proceed(c, place)) \/ Return(c) \/ Fail(c, "failed")  BY <1>2 DEF AwaitAck
    <3>3. Driven'  BY <3>1, <3>2, DriveTyped
    <3> QED  BY <1>2, <3>1, <3>3 DEF TypeOK, Driven, AwaitAck
  <2>2. CallInv(c)'
    BY <1>2
       DEF Inv, TypeOK, AwaitAck, Fail, Return, Proceed, CallInv, LineOf, AnswersOf, EnderOf, RecordOf, ReleaseOf,
           Live, Known, Reaching, Offline, Unanswered
  <2>3. \A e \in Calls \ {c} : Same(e)
    BY <1>2 DEF Inv, TypeOK, AwaitAck, Fail, Return, Proceed, Same
  <2> QED  BY <2>1, <2>2, <2>3
<1>3. CASE Connect(c)
  <2>1. TypeOK'
    <3>1. TypeOK  BY DEF Inv
    <3>2. (\E place \in Setup : Proceed(c, place)) \/ Return(c) \/ Fail(c, "failed")  BY <1>3 DEF Connect
    <3>3. Driven'  BY <3>1, <3>2, DriveTyped
    <3>4. /\ route' \in [Calls -> {"none", "dialing", "connected", "ending", "gone"}]
          /\ \A e \in legs' : route'[e] \in {"dialing", "connected", "ending"}
      BY <1>3, <3>1 DEF TypeOK, Connect
    <3> QED  BY <1>3, <3>1, <3>3, <3>4 DEF TypeOK, Driven, Connect
  <2>2. CallInv(c)'
    BY <1>3
       DEF Inv, TypeOK, Connect, Fail, Return, Proceed, CallInv, LineOf, AnswersOf, EnderOf, RecordOf, ReleaseOf,
           Live, Known, Reaching, Offline, Unanswered
  <2>3. \A e \in Calls \ {c} : Same(e)
    BY <1>3 DEF Inv, TypeOK, Connect, Fail, Return, Proceed, Same
  <2> QED  BY <2>1, <2>2, <2>3
<1>4. CASE TalkEnds(c)
  <2>1. TypeOK'  BY <1>4 DEF Inv, TypeOK, TalkEnds
  <2>2. CallInv(c)'
    BY <1>4
       DEF Inv, TypeOK, TalkEnds, CallInv, LineOf, AnswersOf, EnderOf, RecordOf, ReleaseOf,
           Live, Known, Reaching, Offline, Unanswered
  <2>3. \A e \in Calls \ {c} : Same(e)
    BY <1>4 DEF Inv, TypeOK, TalkEnds, Same
  <2> QED  BY <2>1, <2>2, <2>3
<1>5. CASE MediaFails(c)
  <2>1. TypeOK'  BY <1>5 DEF Inv, TypeOK, MediaFails
  <2>2. CallInv(c)'
    BY <1>5
       DEF Inv, TypeOK, MediaFails, CallInv, LineOf, AnswersOf, EnderOf, RecordOf, ReleaseOf,
           Live, Known, Reaching, Offline, Unanswered
  <2>3. \A e \in Calls \ {c} : Same(e)
    BY <1>5 DEF Inv, TypeOK, MediaFails, Same
  <2> QED  BY <2>1, <2>2, <2>3
<1> QED  BY <1>1, <1>2, <1>3, <1>4, <1>5

-----------------------------------------------------------------------------
(* The deferred cleanup.                                                   *)

\* The end of a record keeps its type.
LEMMA EndRecordTyped ==
    ASSUME TypeOK, NEW c \in Calls, NEW state \in {"pending", "ended"}, EndRecord(c, state)
    PROVE  record' \in [Calls -> [state : {"none", "open", "connected", "pending", "ended"}, outcome : Results]]
<1> DEFINE reason == IF record[c].outcome # "none" THEN record[c].outcome
                     ELSE IF outcome[c] = "none" THEN "failed" ELSE outcome[c]
           row == [record[c] EXCEPT !.state = state, !.outcome = reason]
           Rows == [state : {"none", "open", "connected", "pending", "ended"}, outcome : Results]
<1>1. record \in [Calls -> Rows] /\ outcome[c] \in Results  BY DEF TypeOK
<1>2. record[c] \in Rows  BY <1>1
<1>3. reason \in Results  BY <1>1, <1>2 DEF Results
<1>4. row \in Rows  BY <1>2, <1>3
<1>5. record' = [record EXCEPT ![c] = row]  BY <1>1, <1>2 DEF EndRecord
<1> QED  BY <1>1, <1>4, <1>5

\* A step of run's deferred cleanup, up to giving back the gate and the work.
LEMMA CleanupStep ==
    ASSUME Inv, NEW c \in Calls,
           Clean(c) \/ Hangup(c) \/ Abandon(c) \/ Finish(c) \/ Unwind(c)
    PROVE  TypeOK' /\ CallInv(c)' /\ \A e \in Calls \ {c} : Same(e)
<1> USE DEF Goto, Result, Respond, Recorded, Reported, Alive, Started,
            Early, Setup, Cleanup, Results, lineVars, routerVars, flags, clientVars
<1>1. CASE Clean(c)
  <2>1. TypeOK'
    <3>1. record' \in [Calls -> [state : {"none", "open", "connected", "pending", "ended"}, outcome : Results]]
      BY <1>1, EndRecordTyped DEF Inv, Clean
    <3>2. /\ worker' \in [Calls -> Early \cup Setup \cup Cleanup \cup {"done"}]
          /\ ender' \in [Calls -> {"none", "begin", "await", "bye", "report", "done"}]
          /\ stopped' \subseteq Calls
      BY <1>1 DEF Inv, TypeOK, Clean
    <3>3. UNCHANGED <<line, gate, work, route, legs, peerClosed, flags, clientVars, outcome, ended>>
      BY <1>1 DEF Clean
    <3> QED  BY <3>1, <3>2, <3>3 DEF Inv, TypeOK
  <2>2. CallInv(c)'
    BY <1>1
       DEF Inv, TypeOK, Clean, EndRecord, CallInv, LineOf, AnswersOf, EnderOf, RecordOf, ReleaseOf,
           Live, Known, Reaching, Offline, Unanswered
  <2>3. \A e \in Calls \ {c} : Same(e)
    BY <1>1 DEF Inv, TypeOK, Clean, EndRecord, Same
  <2> QED  BY <2>1, <2>2, <2>3
<1>2. CASE Hangup(c)
  <2>1. TypeOK'  BY <1>2 DEF Inv, TypeOK, Hangup
  <2>2. CallInv(c)'
    BY <1>2
       DEF Inv, TypeOK, Hangup, CallInv, LineOf, AnswersOf, EnderOf, RecordOf, ReleaseOf,
           Live, Known, Reaching, Offline, Unanswered
  <2>3. \A e \in Calls \ {c} : Same(e)
    BY <1>2 DEF Inv, TypeOK, Hangup, Same
  <2> QED  BY <2>1, <2>2, <2>3
<1>3. CASE Abandon(c)
  <2>1. TypeOK'  BY <1>3 DEF Inv, TypeOK, Abandon
  <2>2. CallInv(c)'
    BY <1>3
       DEF Inv, TypeOK, Abandon, CallInv, LineOf, AnswersOf, EnderOf, RecordOf, ReleaseOf,
           Live, Known, Reaching, Offline, Unanswered
  <2>3. \A e \in Calls \ {c} : Same(e)
    BY <1>3 DEF Inv, TypeOK, Abandon, Same
  <2> QED  BY <2>1, <2>2, <2>3
<1>4. CASE Finish(c)
  <2>1. TypeOK'
    <3>1. record' \in [Calls -> [state : {"none", "open", "connected", "pending", "ended"}, outcome : Results]]
      <4> DEFINE state == IF worker[c] # "abandon" THEN "ended" ELSE "pending"
      <4>1. state \in {"pending", "ended"} /\ EndRecord(c, state)  BY <1>4 DEF Finish
      <4> QED  BY <4>1, EndRecordTyped DEF Inv
    <3>2. /\ route' \in [Calls -> {"none", "dialing", "connected", "ending", "gone"}]
          /\ legs' \subseteq Calls
          /\ \A e \in legs' : route'[e] \in {"dialing", "connected", "ending"}
      <4>1. CASE UNCHANGED routerVars  BY <4>1 DEF Inv, TypeOK
      <4>2. CASE \E client, module \in BOOLEAN : Reported(c, client, module)
        BY <4>2 DEF Inv, TypeOK
      <4> QED  BY <1>4, <4>1, <4>2 DEF Finish
    <3>3. /\ moduleClosed' \subseteq Calls /\ stopped' \subseteq Calls
          /\ worker' \in [Calls -> Early \cup Setup \cup Cleanup \cup {"done"}]
      BY <1>4 DEF Inv, TypeOK, Finish
    <3>4. UNCHANGED <<ender, line, gate, work, peerClosed, accepted, final, finished, clientVars, outcome, ended>>
      BY <1>4 DEF Finish
    <3> QED  BY <3>1, <3>2, <3>3, <3>4 DEF Inv, TypeOK
  <2>2. CallInv(c)'
    <3>1. LineOf(c)'
      BY <1>4 DEF Inv, TypeOK, Finish, EndRecord, CallInv, LineOf, Live, Known, Reaching, Offline, RecordOf
    <3>2. AnswersOf(c)'
      BY <1>4 DEF Inv, TypeOK, Finish, EndRecord, CallInv, AnswersOf, Unanswered
    <3>3. EnderOf(c)'
      BY <1>4 DEF Inv, TypeOK, Finish, EndRecord, CallInv, EnderOf, AnswersOf
    <3>4. RecordOf(c)'
      BY <1>4 DEF Inv, TypeOK, Finish, EndRecord, CallInv, RecordOf, LineOf, Live, Reaching, Offline
    <3>5. ReleaseOf(c)'
      BY <1>4 DEF Inv, TypeOK, Finish, EndRecord, CallInv, ReleaseOf, LineOf, Reaching
    <3> QED  BY <3>1, <3>2, <3>3, <3>4, <3>5 DEF CallInv
  <2>3. \A e \in Calls \ {c} : Same(e)
    BY <1>4 DEF Inv, TypeOK, Finish, EndRecord, Same
  <2> QED  BY <2>1, <2>2, <2>3
<1>5. CASE Unwind(c)
  <2>1. TypeOK'  BY <1>5 DEF Inv, TypeOK, Unwind
  <2>2. CallInv(c)'
    BY <1>5
       DEF Inv, TypeOK, Unwind, CallInv, LineOf, AnswersOf, EnderOf, RecordOf, ReleaseOf,
           Live, Known, Reaching, Offline, Unanswered
  <2>3. \A e \in Calls \ {c} : Same(e)
    BY <1>5 DEF Inv, TypeOK, Unwind, Same
  <2> QED  BY <2>1, <2>2, <2>3
<1> QED  BY <1>1, <1>2, <1>3, <1>4, <1>5

-----------------------------------------------------------------------------
(* Telling the client.                                                     *)

\* A step of endPeer.
LEMMA EndingStep ==
    ASSUME Inv, NEW c \in Calls,
           EndPeer(c) \/ SendBye(c) \/ ByeAnswered(c) \/ EndReport(c)
    PROVE  TypeOK' /\ CallInv(c)' /\ \A e \in Calls \ {c} : Same(e)
<1> USE DEF Goto, Result, Respond, Recorded, EndRecord, Reported, Alive, Started,
            Early, Setup, Cleanup, Results, lineVars, routerVars, flags, clientVars
<1>1. CASE EndPeer(c)
  <2>1. TypeOK'
    <3>1. final' \subseteq Calls /\ finals' \in [Calls -> 0 .. 2]
      BY <1>1 DEF Inv, TypeOK, EndPeer, CallInv, AnswersOf
    <3>2. ender' \in [Calls -> {"none", "begin", "await", "bye", "report", "done"}] /\ peerClosed' \subseteq Calls
      BY <1>1 DEF Inv, TypeOK, EndPeer
    <3> QED  BY <1>1, <3>1, <3>2 DEF Inv, TypeOK, EndPeer
  <2>2. CallInv(c)'
    BY <1>1
       DEF Inv, TypeOK, EndPeer, CallInv, LineOf, AnswersOf, EnderOf, RecordOf, ReleaseOf,
           Live, Known, Reaching, Offline, Unanswered
  <2>3. \A e \in Calls \ {c} : Same(e)
    BY <1>1 DEF Inv, TypeOK, EndPeer, Same
  <2> QED  BY <2>1, <2>2, <2>3
<1>2. CASE SendBye(c)
  <2>1. TypeOK'  BY <1>2 DEF Inv, TypeOK, SendBye
  <2>2. CallInv(c)'
    BY <1>2
       DEF Inv, TypeOK, SendBye, CallInv, LineOf, AnswersOf, EnderOf, RecordOf, ReleaseOf,
           Live, Known, Reaching, Offline, Unanswered
  <2>3. \A e \in Calls \ {c} : Same(e)
    BY <1>2 DEF Inv, TypeOK, SendBye, Same
  <2> QED  BY <2>1, <2>2, <2>3
<1>3. CASE ByeAnswered(c)
  <2>1. TypeOK'  BY <1>3 DEF Inv, TypeOK, ByeAnswered
  <2>2. CallInv(c)'
    BY <1>3
       DEF Inv, TypeOK, ByeAnswered, CallInv, LineOf, AnswersOf, EnderOf, RecordOf, ReleaseOf,
           Live, Known, Reaching, Offline, Unanswered
  <2>3. \A e \in Calls \ {c} : Same(e)
    BY <1>3 DEF Inv, TypeOK, ByeAnswered, Same
  <2> QED  BY <2>1, <2>2, <2>3
<1>4. CASE EndReport(c)
  <2>1. TypeOK'  BY <1>4 DEF Inv, TypeOK, EndReport
  <2>2. CallInv(c)'
    BY <1>4
       DEF Inv, TypeOK, EndReport, CallInv, LineOf, AnswersOf, EnderOf, RecordOf, ReleaseOf,
           Live, Known, Reaching, Offline, Unanswered
  <2>3. \A e \in Calls \ {c} : Same(e)
    BY <1>4 DEF Inv, TypeOK, EndReport, Same
  <2> QED  BY <2>1, <2>2, <2>3
<1> QED  BY <1>1, <1>2, <1>3, <1>4

-----------------------------------------------------------------------------
(* What comes from outside.                                                *)

\* A step of the client, the router or the carrier.
LEMMA OutsideStep ==
    ASSUME Inv, NEW c \in Calls,
           Cancel(c) \/ Ack(c) \/ Bye(c) \/ RouterEnds(c) \/ CarrierAnswers(c) \/ CarrierEnds(c)
    PROVE  TypeOK' /\ CallInv(c)' /\ \A e \in Calls \ {c} : Same(e)
<1> USE DEF Goto, Result, Respond, Recorded, EndRecord, Reported, Alive, Started,
            Early, Setup, Cleanup, Results, lineVars, routerVars, flags, clientVars
<1>1. CASE Cancel(c)
  <2>1. TypeOK'  BY <1>1 DEF Inv, TypeOK, Cancel
  <2>2. CallInv(c)'
    BY <1>1
       DEF Inv, TypeOK, Cancel, CallInv, LineOf, AnswersOf, EnderOf, RecordOf, ReleaseOf,
           Live, Known, Reaching, Offline, Unanswered
  <2>3. \A e \in Calls \ {c} : Same(e)
    BY <1>1 DEF Inv, TypeOK, Cancel, Same
  <2> QED  BY <2>1, <2>2, <2>3
<1>2. CASE Ack(c)
  <2>1. TypeOK'  BY <1>2 DEF Inv, TypeOK, Ack
  <2>2. CallInv(c)'
    BY <1>2
       DEF Inv, TypeOK, Ack, CallInv, LineOf, AnswersOf, EnderOf, RecordOf, ReleaseOf,
           Live, Known, Reaching, Offline, Unanswered
  <2>3. \A e \in Calls \ {c} : Same(e)
    BY <1>2 DEF Inv, TypeOK, Ack, Same
  <2> QED  BY <2>1, <2>2, <2>3
<1>3. CASE Bye(c)
  <2>1. TypeOK'  BY <1>3 DEF Inv, TypeOK, Bye
  <2>2. CallInv(c)'
    BY <1>3
       DEF Inv, TypeOK, Bye, CallInv, LineOf, AnswersOf, EnderOf, RecordOf, ReleaseOf,
           Live, Known, Reaching, Offline, Unanswered
  <2>3. \A e \in Calls \ {c} : Same(e)
    BY <1>3 DEF Inv, TypeOK, Bye, Same
  <2> QED  BY <2>1, <2>2, <2>3
<1>4. CASE RouterEnds(c)
  <2>1. TypeOK'  BY <1>4 DEF Inv, TypeOK, RouterEnds
  <2>2. CallInv(c)'
    BY <1>4
       DEF Inv, TypeOK, RouterEnds, CallInv, LineOf, AnswersOf, EnderOf, RecordOf, ReleaseOf,
           Live, Known, Reaching, Offline, Unanswered
  <2>3. \A e \in Calls \ {c} : Same(e)
    BY <1>4 DEF Inv, TypeOK, RouterEnds, Same
  <2> QED  BY <2>1, <2>2, <2>3
<1>5. CASE CarrierAnswers(c)
  <2>1. TypeOK'  BY <1>5 DEF Inv, TypeOK, CarrierAnswers
  <2>2. CallInv(c)'
    BY <1>5
       DEF Inv, TypeOK, CarrierAnswers, CallInv, LineOf, AnswersOf, EnderOf, RecordOf, ReleaseOf,
           Live, Known, Reaching, Offline, Unanswered
  <2>3. \A e \in Calls \ {c} : Same(e)
    BY <1>5 DEF Inv, TypeOK, CarrierAnswers, Same
  <2> QED  BY <2>1, <2>2, <2>3
<1>6. CASE CarrierEnds(c)
  <2>1. TypeOK'  BY <1>6 DEF Inv, TypeOK, CarrierEnds
  <2>2. CallInv(c)'
    BY <1>6
       DEF Inv, TypeOK, CarrierEnds, CallInv, LineOf, AnswersOf, EnderOf, RecordOf, ReleaseOf,
           Live, Known, Reaching, Offline, Unanswered
  <2>3. \A e \in Calls \ {c} : Same(e)
    BY <1>6 DEF Inv, TypeOK, CarrierEnds, Same
  <2> QED  BY <2>1, <2>2, <2>3
<1> QED  BY <1>1, <1>2, <1>3, <1>4, <1>5, <1>6

-----------------------------------------------------------------------------
(* Steps that touch every call: releasing finished calls, and the stop.    *)

\* releaseFinishedLocked keeps the types of what it writes.
LEMMA ReleaseTyped ==
    ASSUME TypeOK, NEW S \in SUBSET Calls, Release(S)
    PROVE  /\ peerClosed' \subseteq Calls
           /\ route' \in [Calls -> {"none", "dialing", "connected", "ending", "gone"}]
           /\ legs' \subseteq Calls
           /\ \A e \in legs' : route'[e] \in {"dialing", "connected", "ending"}
<1> DEFINE over == {c \in S : c \in moduleClosed /\ c \in stopped /\ route[c] \notin {"none", "gone"}}
<1>1. over \subseteq Calls  OBVIOUS
<1>2. peerClosed' = peerClosed \cup over /\ legs' = legs \ over
  BY DEF Release
<1>3. route' = [c \in Calls |-> IF c \in over THEN "gone" ELSE route[c]]  BY DEF Release
<1> HIDE DEF over
<1> QED  BY <1>1, <1>2, <1>3 DEF TypeOK

\* What it does to one call: nothing, or it forgets a finished call whose module has let go.
LEMMA ReleaseOne ==
    ASSUME TypeOK, NEW S \in SUBSET Calls, Release(S), NEW e \in Calls
    PROVE  \/ /\ route'[e] = route[e]
              /\ e \in peerClosed <=> e \in peerClosed'
           \/ /\ e \in S /\ e \in moduleClosed /\ route[e] \notin {"none", "gone"}
              /\ route'[e] = "gone" /\ e \in peerClosed'
BY DEF TypeOK, Release

\* Releasing keeps the invariant of every call.
LEMMA SyncStep ==
    ASSUME Inv, Sync
    PROVE  TypeOK' /\ \A e \in Calls : CallInv(e)'
<1> USE DEF lineVars, flags, clientVars
<1>1. TypeOK /\ finished \in SUBSET Calls /\ Release(finished)  BY DEF Inv, TypeOK, Sync
<1>2. TypeOK'
  <2>1. UNCHANGED <<worker, ender, line, gate, work, stopped, flags, clientVars, outcome, record, ended>>
    BY DEF Sync
  <2> QED  BY <1>1, <2>1, ReleaseTyped DEF TypeOK
<1>3. ASSUME NEW e \in Calls  PROVE CallInv(e)'
  <2>1. CallInv(e)  BY DEF Inv
  <2>2. CASE route'[e] = route[e] /\ (e \in peerClosed <=> e \in peerClosed')
    <3>1. Same(e)  BY <2>2 DEF Sync, Same
    <3> QED  BY <2>1, <3>1, SameKeeps
  <2>3. CASE e \in finished /\ e \in moduleClosed /\ route[e] # "none" /\ route'[e] = "gone" /\ e \in peerClosed'
    BY <2>1, <2>3 DEF Sync, CallInv, LineOf, AnswersOf, EnderOf, RecordOf, ReleaseOf, Live, Known, Reaching,
                      Offline, Unanswered, Early, Setup, Cleanup
  <2> QED  BY <1>1, <2>2, <2>3, ReleaseOne
<1> QED  BY <1>2, <1>3

\* The end of a worker releases its call, and others.
LEMMA FinishedStep ==
    ASSUME Inv, NEW c \in Calls, WorkerFinished(c)
    PROVE  TypeOK' /\ \A e \in Calls : CallInv(e)'
<1> USE DEF lineVars, clientVars
<1>1. /\ TypeOK /\ finished' = finished \cup {c} /\ finished' \in SUBSET Calls /\ Release(finished')
  BY DEF Inv, TypeOK, WorkerFinished
<1>2. worker[c] = "last" /\ worker' = [worker EXCEPT ![c] = "done"]  BY DEF WorkerFinished, Goto
<1>3. UNCHANGED <<ender, line, gate, work, stopped, accepted, final, moduleClosed, clientVars, outcome, record, ended>>
  BY DEF WorkerFinished
<1>4. TypeOK'
  <2>1. worker' \in [Calls -> Early \cup Setup \cup Cleanup \cup {"done"}]  BY <1>1, <1>2 DEF TypeOK
  <2> QED  BY <1>1, <1>3, <2>1, ReleaseTyped DEF TypeOK
<1>5. ASSUME NEW e \in Calls, e # c  PROVE CallInv(e)'
  <2>1. CallInv(e)  BY DEF Inv
  <2>2. worker'[e] = worker[e]  BY <1>1, <1>2, <1>5 DEF TypeOK
  <2>3. CASE route'[e] = route[e] /\ (e \in peerClosed <=> e \in peerClosed')
    <3>1. Same(e)  BY <1>1, <1>3, <1>5, <2>2, <2>3 DEF Same
    <3> QED  BY <2>1, <3>1, SameKeeps
  <2>4. CASE e \in finished' /\ e \in moduleClosed /\ route[e] # "none" /\ route'[e] = "gone" /\ e \in peerClosed'
    BY <1>1, <1>3, <1>5, <2>1, <2>2, <2>4
       DEF CallInv, LineOf, AnswersOf, EnderOf, RecordOf, ReleaseOf, Live, Known, Reaching,
           Offline, Unanswered, Early, Setup, Cleanup
  <2> QED  BY <1>1, <2>3, <2>4, ReleaseOne
<1>6. CallInv(c)'
  <2>1. CallInv(c)  BY DEF Inv
  <2>2. worker'[c] = "done"  BY <1>1, <1>2 DEF TypeOK
  <2>3. /\ c \in moduleClosed => route'[c] \in {"none", "gone"}
        /\ route'[c] \in {route[c], "gone"}
    BY <1>1, <2>1, <1>2 DEF Release, TypeOK, CallInv, ReleaseOf
  <2>4. route[c] = "none" => route'[c] = "none"  BY <1>1 DEF Release, TypeOK
  <2>5. LineOf(c)'
    BY <1>1, <1>2, <1>3, <2>1, <2>2 DEF CallInv, LineOf, Live, Known, Reaching, Offline, Early, Setup, Cleanup
  <2>6. AnswersOf(c)'  BY <1>2, <1>3, <2>1, <2>2 DEF CallInv, AnswersOf, Unanswered
  <2>7. EnderOf(c)'  BY <1>2, <1>3, <2>1, <2>2 DEF CallInv, EnderOf, Early, Setup
  <2>8. RecordOf(c)'  BY <1>2, <1>3, <2>1, <2>2 DEF CallInv, RecordOf
  <2>9. ReleaseOf(c)'  BY <1>2, <1>3, <2>1, <2>2, <2>3, <2>4 DEF CallInv, ReleaseOf, Early
  <2> QED  BY <2>5, <2>6, <2>7, <2>8, <2>9 DEF CallInv
<1> QED  BY <1>4, <1>5, <1>6

\* The service stops: every context is cancelled, and nothing else moves.
LEMMA StopStep ==
    ASSUME Inv, Stop
    PROVE  TypeOK' /\ \A e \in Calls : CallInv(e)'
<1> USE DEF lineVars, routerVars, flags, clientVars, Started
<1>1. TypeOK'  BY DEF Inv, TypeOK, Stop
<1>2. ASSUME NEW e \in Calls  PROVE CallInv(e)'
  BY <1>2 DEF Inv, TypeOK, Stop, CallInv, LineOf, AnswersOf, EnderOf, RecordOf, ReleaseOf, Live, Known, Reaching,
              Offline, Unanswered, Early, Setup, Cleanup
<1> QED  BY <1>1, <1>2

-----------------------------------------------------------------------------
(* The invariant, and what follows from it.                                *)

\* No call has begun.
LEMMA InitInv == Init => Inv
<1> SUFFICES ASSUME Init  PROVE Inv
  OBVIOUS
<1>1. record \in [Calls -> [state : {"none", "open", "connected", "pending", "ended"}, outcome : Results]]
  BY DEF Init, Results
<1>2. /\ worker \in [Calls -> Early \cup Setup \cup Cleanup \cup {"done"}]
      /\ outcome \in [Calls -> Results]
      /\ ender \in [Calls -> {"none", "begin", "await", "bye", "report", "done"}]
      /\ line \in [Calls -> {"none", "idle", "dialing", "active", "left"}]
      /\ route \in [Calls -> {"none", "dialing", "connected", "ending", "gone"}]
      /\ finals \in [Calls -> 0 .. 2]
  BY DEF Init, Results, Early
<1>3. TypeOK
  <2>1. \A S \in {work, legs, stopped, accepted, final, peerClosed, moduleClosed, finished, acked, byes, gone} : S = {}
    BY DEF Init
  <2>2. gate \in Calls \cup {Free} /\ ended \in BOOLEAN /\ legs = {}  BY DEF Init
  <2> QED  BY <1>1, <1>2, <2>1, <2>2 DEF TypeOK
<1>4. ASSUME NEW c \in Calls  PROVE CallInv(c)
  BY <1>3 DEF Init, CallInv, LineOf, AnswersOf, EnderOf, RecordOf, ReleaseOf, Live, Known, Reaching, Offline,
              Unanswered, Early, Setup, Cleanup
<1> QED  BY <1>3, <1>4 DEF Inv

\* Every step keeps the invariant: of the call that it is of, and of the others.
LEMMA NextInv == Inv /\ [Next]_vars => Inv'
<1> SUFFICES ASSUME Inv, [Next]_vars  PROVE Inv'
  OBVIOUS
<1>1. CASE UNCHANGED vars
  BY <1>1 DEF vars, lineVars, routerVars, flags, clientVars, Inv, TypeOK, CallInv, LineOf, AnswersOf, EnderOf,
              RecordOf, ReleaseOf
<1>2. CASE Sync  BY <1>2, SyncStep DEF Inv
<1>3. CASE Stop  BY <1>3, StopStep DEF Inv
<1>4. ASSUME NEW c \in Calls, TypeOK', CallInv(c)', \A e \in Calls \ {c} : Same(e)  PROVE Inv'
  <2>1. \A e \in Calls \ {c} : CallInv(e)'  BY <1>4, SameKeeps DEF Inv
  <2> QED  BY <1>4, <2>1 DEF Inv
<1>5. ASSUME NEW c \in Calls, Invite(c) \/ Work(c) \/ Ending(c) \/ Abandon(c) \/ MediaFails(c)
  PROVE Inv'
  <2>1. CASE Invite(c) \/ Refuse(c) \/ Begin(c)  BY <2>1, <1>4, AdmissionStep
  <2>2. CASE LeaveEarly(c) \/ Start(c) \/ TakeGate(c) \/ GateTimeout(c) \/ OpenMedia(c) \/ Open(c)
    BY <2>2, <1>4, BeforeLineStep
  <2>3. CASE Fence(c) \/ Dial(c) \/ PollEnds(c) \/ PollActive(c)  BY <2>3, <1>4, DialStep
  <2>4. CASE Answer(c) \/ AwaitAck(c) \/ Connect(c) \/ TalkEnds(c) \/ MediaFails(c)  BY <2>4, <1>4, AnswerStep
  <2>5. CASE Clean(c) \/ Hangup(c) \/ Abandon(c) \/ Finish(c) \/ Unwind(c)  BY <2>5, <1>4, CleanupStep
  <2>6. CASE WorkerFinished(c)  BY <2>6, FinishedStep DEF Inv
  <2>7. CASE EndPeer(c) \/ SendBye(c) \/ ByeAnswered(c) \/ EndReport(c)  BY <2>7, <1>4, EndingStep
  <2> QED  BY <1>5, <2>1, <2>2, <2>3, <2>4, <2>5, <2>6, <2>7 DEF Work, Ending
<1>6. ASSUME NEW c \in Calls,
             Cancel(c) \/ Ack(c) \/ Bye(c) \/ RouterEnds(c) \/ CarrierAnswers(c) \/ CarrierEnds(c)
  PROVE Inv'
  BY <1>6, <1>4, OutsideStep
<1> QED  BY <1>1, <1>2, <1>3, <1>5, <1>6 DEF Next

\* The places of workers and enders agree with what every call holds, in every reachable state.
THEOREM OutgoingInvariant == Spec => []Inv
<1> QED  BY InitInv, NextInv, PTL DEF Spec

\* The type invariant of OutgoingCall; while the carrier may have a call, the router keeps the
\* module for it, and module work and the gate are held (run, finish): for any number of calls.
THEOREM OutgoingLine == Spec => []LineHeld
<1>1. Inv => LineHeld
  BY OutgoingConstants DEF Inv, LineHeld, HeldWhileOnLine, TypeOK, CallInv, LineOf, RecordOf, Live, Known, Reaching, Setup, Cleanup
<1> QED  BY <1>1, OutgoingInvariant, PTL

\* The client is answered at most once and told of every end, records say only what happened, and
\* a finished call keeps no module (respond, endPeer, endRecord, releaseFinishedLocked).
THEOREM OutgoingClient == Spec => []OutgoingTold
<1>1. ASSUME Inv, NEW c \in Calls
  PROVE  /\ finals[c] <= 1
         /\ worker[c] = "done" => c \in gone \/ (finals[c] = 1 /\ (c \in accepted => c \in byes))
         /\ record[c].state = "ended" => line[c] = "none"
         /\ record[c].outcome = "completed" => c \in accepted
         /\ record[c].outcome = "cancelled" => c \in gone
         /\ worker[c] = "done" /\ route[c] # "none" => route[c] = "gone" \/ (ended /\ c \notin moduleClosed)
  BY <1>1 DEF Inv, CallInv, AnswersOf, EnderOf, RecordOf, ReleaseOf
<1>2. Inv => OutgoingTold
  BY <1>1 DEF OutgoingTold, ClientAnswered, OneFinalAnswer, ClientTold, HonestRecord, Released
<1> QED  BY <1>2, OutgoingInvariant, PTL

=============================================================================
