------------------------------ MODULE WifiVoice ------------------------------
(***************************************************************************)
(* A call over a module's Wi-Fi worker (internal/hardware/voice_*.go).  The *)
(* worker is a process of its own; commands reach it one at a time over its *)
(* control connection, and an open or attach makes a stream: a connection   *)
(* of its own for the frames of one call.  The worker holds the stream's    *)
(* slot until the carrier has confirmed that its call is over, whatever     *)
(* becomes of the connection.  The program asks for the worker's calls when *)
(* it has lost the stream.                                                  *)
(*                                                                          *)
(* The calls are those of the worker's IMS session (ImsCall): a call is     *)
(* "gone" when the session that had it was closed.  The direct commands     *)
(* voice-dial, voice-answer and voice-hangup are not used by the program.   *)
(***************************************************************************)
EXTENDS Naturals, Sequences

CONSTANTS Handle,      \* the calls of the program (WiFiCall), one after another
          Incoming,    \* calls of the carrier
          MaxTroubles  \* bound: operations that fail, connections that break,
                       \* sessions that are built again, ends of the worker

None == "none"

VoiceStreamConstants == Handle \cap Incoming = {} /\ None \notin Handle \cup Incoming /\ MaxTroubles \in Nat

VARIABLES calls,     \* the calls of the session; an outgoing one has its handle's name
          worker,    \* the worker's controller and its end
          request,   \* the command in flight
          slot,      \* w.stream
          stream,    \* what the slot's stream does
          wire,      \* the stream's connection, per handle
          client,    \* the WiFiCall
          troubles

vars == <<calls, worker, request, slot, stream, wire, client, troubles>>

NoRequest == [by |-> None, at |-> "none", op |-> "none", ok |-> FALSE, stream |-> None,
              busy |-> FALSE]
NoStream == [at |-> "none", call |-> None, incoming |-> FALSE, fresh |-> FALSE]
NoWire == [frames |-> <<>>, sent |-> "none", program |-> FALSE, worker |-> FALSE]
NoClient == [at |-> "idle", call |-> None, dialed |-> FALSE, ended |-> FALSE, seen |-> "none"]

Init == /\ calls = [c \in Handle \cup Incoming |-> "none"]
        /\ worker = "up"
        /\ request = NoRequest
        /\ slot = None /\ stream = NoStream
        /\ wire = [h \in Handle |-> NoWire]
        /\ client = [h \in Handle |-> NoClient]
        /\ troubles = 0

Live(c) == c # None /\ calls[c] \in {"ringing", "live"}
SomeLive == \E c \in DOMAIN calls : Live(c)

At(h, there) == client' = [client EXCEPT ![h].at = there]
Trouble == troubles < MaxTroubles /\ troubles' = troubles + 1
Quiet == UNCHANGED troubles

\* Calls answers while the session is registered.
Answers == worker = "up"
WorkerRuns == worker \in {"up", "rebuilding"}

------------------------------------------------------------------------------
(* The program's side                                                      *)

\* A handle follows the one before it.
MayOpen(h) == \A g \in Handle \ {h} : client[g].at \in {"idle", "released", "failed"}

\* One exchange is pending.  A command that comes while an abandoned one still
\* runs is refused, and its caller is where it was.
Sends(h, op) ==
    /\ request.at = "none"
    /\ request' = [NoRequest EXCEPT !.by = h, !.at = "sent", !.op = op]

\* openWiFiVoice: voice-open, or voice-attach with an incoming call.
OpenWiFiCall(h, c) ==
    /\ client[h].at = "idle" /\ MayOpen(h)
    /\ c = None \/ (c \in Incoming /\ calls[c] = "ringing")
    /\ Sends(h, IF c = None THEN "open" ELSE "attach")
    /\ client' = [client EXCEPT ![h].at = "opening", ![h].call = c, ![h].dialed = c # None]
    /\ UNCHANGED <<calls, worker, slot, stream, wire>> /\ Quiet

\* The answer of an open: the connection is made, its key accepted, and the
\* first status awaited.
Connect(h) ==
    /\ client[h].at = "opening" /\ request.by = h /\ request.at = "reply"
    /\ request' = NoRequest
    /\ IF request.ok /\ slot = h /\ stream.at = "accept"
       THEN /\ stream' = [stream EXCEPT !.at = "serve", !.fresh = TRUE]
            /\ wire' = [wire EXCEPT ![h].program = TRUE, ![h].worker = TRUE]
            /\ At(h, "joining")
       ELSE UNCHANGED <<stream, wire>> /\ At(h, "failed")
    /\ UNCHANGED <<calls, worker, slot>> /\ Quiet

\* The open is given up: no answer in time, no connection, no first status.
GiveUpOpening(h) ==
    /\ client[h].at \in {"opening", "joining"}
    /\ At(h, "failed")
    /\ wire' = [wire EXCEPT ![h].program = FALSE]
    /\ UNCHANGED <<calls, worker, request, slot, stream>> /\ Trouble

Joined(h) ==
    /\ client[h].at = "joining" /\ client[h].seen = "initial"
    /\ At(h, "up")
    /\ UNCHANGED <<calls, worker, request, slot, stream, wire>> /\ Quiet

\* A frame is written, or the connection closes on the error.
Writes(h, frame) ==
    wire' = IF wire[h].program /\ wire[h].worker
            THEN [wire EXCEPT ![h].frames = Append(@, frame)]
            ELSE [wire EXCEPT ![h].program = FALSE]

Dial(h) ==
    /\ client[h].at = "up" /\ ~client[h].dialed /\ ~client[h].ended
    /\ client' = [client EXCEPT ![h].dialed = TRUE]
    /\ Writes(h, "dial")
    /\ UNCHANGED <<calls, worker, request, slot, stream>> /\ Quiet

Answer(h) ==
    /\ client[h].at = "up" /\ client[h].call # None /\ client[h].seen = "initial"
    /\ \A i \in DOMAIN wire[h].frames : wire[h].frames[i] # "answer"
    /\ Writes(h, "answer")
    /\ UNCHANGED <<calls, worker, request, slot, stream, client>> /\ Quiet

\* The end is written once, however often Hangup is called.
Hangup(h) ==
    /\ client[h].at \in {"up", "again"}
    /\ client' = [client EXCEPT ![h].at = "waiting", ![h].ended = TRUE]
    /\ IF client[h].ended THEN UNCHANGED wire ELSE Writes(h, "end")
    /\ UNCHANGED <<calls, worker, request, slot, stream>> /\ Quiet

\* The last status says ended, or the worker ended with its cleanup confirmed.
HangupSeen(h) ==
    /\ client[h].at = "waiting"
    /\ client[h].seen = "ended" \/ (~wire[h].program /\ worker = "clean")
    /\ At(h, "released")
    /\ UNCHANGED <<calls, worker, request, slot, stream, wire>> /\ Quiet

\* The stream is lost: the worker is asked for its calls.
HangupAsks(h) ==
    /\ client[h].at = "waiting" /\ client[h].seen # "ended" /\ ~wire[h].program
    /\ worker # "clean"
    /\ Sends(h, "list")
    /\ At(h, "listing")
    /\ UNCHANGED <<calls, worker, slot, stream, wire>> /\ Quiet

\* Its context expires before anything is known; the caller tries again.
HangupExpires(h) ==
    /\ client[h].at \in {"waiting", "listing"}
    /\ At(h, "again")
    /\ UNCHANGED <<calls, worker, request, slot, stream, wire>> /\ Trouble

\* The worker holds no stream of this handle and no call that is not over.
NothingLeft(h) == request.ok /\ request.stream # h /\ ~request.busy

HangupListed(h) ==
    /\ client[h].at = "listing" /\ request.by = h /\ request.at = "reply"
    /\ request' = NoRequest
    /\ At(h, IF NothingLeft(h) THEN "released" ELSE "again")
    /\ UNCHANGED <<calls, worker, slot, stream, wire>> /\ Quiet

\* The answer of a command that was given up is dropped.
Drop ==
    /\ request.at = "reply" /\ client[request.by].at \notin {"opening", "listing"}
    /\ request' = NoRequest
    /\ UNCHANGED <<calls, worker, slot, stream, wire, client>> /\ Quiet

\* receive: the last status; the end of the connection comes after it.
Receive(h) ==
    /\ wire[h].program
    /\ \/ /\ client[h].seen # wire[h].sent
          /\ client' = [client EXCEPT ![h].seen = wire[h].sent]
          /\ UNCHANGED wire
       \/ /\ client[h].seen = wire[h].sent /\ ~wire[h].worker
          /\ wire' = [wire EXCEPT ![h].program = FALSE]
          /\ UNCHANGED client
    /\ UNCHANGED <<calls, worker, request, slot, stream>> /\ Quiet

\* A frame that cannot be read, or a session that ends, closes the program's side.
Break(h) ==
    /\ wire[h].program /\ client[h].at \notin {"opening", "joining"}
    /\ wire' = [wire EXCEPT ![h].program = FALSE]
    /\ UNCHANGED <<calls, worker, request, slot, stream, client>> /\ Trouble

Program(h) == \/ Connect(h) \/ Joined(h) \/ Receive(h) \/ HangupSeen(h) \/ HangupAsks(h)
              \/ HangupListed(h)
              \/ client[h].at = "again" /\ Hangup(h)

------------------------------------------------------------------------------
(* The worker's commands                                                   *)

\* A command is refused when there is no controller, or, but for a list,
\* when a stream has the slot.
Command ==
    /\ request.at = "sent" /\ worker \in {"up", "rebuilding", "stopping"}
    /\ request' = [request EXCEPT !.at =
                      IF worker = "stopping" \/ (slot # None /\ request.op # "list")
                      THEN "reply" ELSE "run"]
    /\ UNCHANGED <<calls, worker, slot, stream, wire, client>> /\ Quiet

\* Another call that is not over keeps a stream from being opened.
Vacant(c) == \A d \in DOMAIN calls \ {c} : ~Live(d)

RunOpen ==
    /\ request.at = "run" /\ request.op \in {"open", "attach"}
    /\ LET h == request.by
           c == client[h].call
           granted == /\ Answers /\ Vacant(c)
                      /\ c # None => calls[c] = "ringing" IN
       /\ request' = [request EXCEPT !.at = "reply", !.ok = granted]
       /\ slot' = IF granted THEN h ELSE slot
       /\ stream' = IF granted THEN [at |-> "accept", call |-> c, incoming |-> c # None,
                                     fresh |-> FALSE]
                               ELSE stream
    /\ UNCHANGED <<calls, worker, wire, client>> /\ Quiet

\* voice-list: the calls are read first, the slot after them.
RunList ==
    /\ request.op = "list"
    /\ \/ /\ request.at = "run"
          /\ request' = [request EXCEPT !.at = IF Answers THEN "listed" ELSE "reply",
                                        !.busy = SomeLive]
       \/ /\ request.at = "listed"
          /\ request' = [request EXCEPT !.at = "reply", !.ok = TRUE, !.stream = slot]
    /\ UNCHANGED <<calls, worker, slot, stream, wire, client>> /\ Quiet

------------------------------------------------------------------------------
(* The worker's stream                                                     *)

Served == stream.at = "serve" /\ WorkerRuns

\* run: nobody connects with the key within six seconds.
AcceptExpires ==
    /\ stream.at = "accept"
    /\ client[slot].at # "opening" \/ ~WorkerRuns
    /\ stream' = NoStream /\ slot' = None
    /\ UNCHANGED <<calls, worker, request, wire, client>> /\ Quiet

\* A status: the state that serve knows.
Status ==
    /\ Served
    /\ LET now == IF stream.fresh THEN "initial" ELSE "live" IN
       /\ wire[slot].sent # now
       /\ wire' = [wire EXCEPT ![slot].sent = now]
    /\ UNCHANGED <<calls, worker, request, slot, stream, client>> /\ Quiet

Ends == stream' = [stream EXCEPT !.at = "ending"]

Frame ==
    /\ Served /\ wire[slot].sent # "none" /\ wire[slot].frames # <<>>
    /\ LET f == Head(wire[slot].frames) IN
       /\ wire' = [wire EXCEPT ![slot].frames = Tail(@)]
       /\ \/ /\ f = "dial" /\ stream.call = None /\ Answers /\ ~SomeLive
             /\ calls' = [calls EXCEPT ![slot] = "live"]
             /\ stream' = [stream EXCEPT !.call = slot, !.fresh = FALSE]
             /\ Quiet
          \/ /\ f = "answer" /\ stream.incoming /\ Answers /\ calls[stream.call] = "ringing"
             /\ calls' = [calls EXCEPT ![stream.call] = "live"]
             /\ stream' = [stream EXCEPT !.incoming = FALSE, !.fresh = FALSE]
             /\ Quiet
          \/ f = "end" /\ Ends /\ UNCHANGED calls /\ Quiet
          \/ f # "end" /\ Ends /\ UNCHANGED calls /\ Trouble
          \/ /\ f = "dial" /\ (~Answers \/ SomeLive)
             /\ Ends /\ UNCHANGED calls /\ Quiet
          \/ /\ f = "answer" /\ (~Answers \/ ~stream.incoming \/ calls[stream.call] # "ringing")
             /\ Ends /\ UNCHANGED calls /\ Quiet
    /\ UNCHANGED <<worker, request, slot, client>>

\* The loop sees its call over or missing, or Calls fails; or the reader has
\* found the connection closed, which may overtake the frames before it.
ServeEnds ==
    /\ Served
    /\ \/ ~wire[slot].program
       \/ stream.call # None /\ (~Answers \/ ~Live(stream.call))
    /\ Ends
    /\ UNCHANGED <<calls, worker, request, slot, wire, client>> /\ Quiet

\* Sound that cannot be read, written or opened; nothing dialled in ten seconds.
MediaFails ==
    /\ Served
    /\ Ends
    /\ UNCHANGED <<calls, worker, request, slot, wire, client>> /\ Trouble

\* terminate: HangupCall again and again.
Terminate ==
    /\ stream.at = "ending" /\ stream.call # None /\ Live(stream.call) /\ Answers
    /\ calls' = [calls EXCEPT ![stream.call] = "ended"]
    /\ UNCHANGED <<worker, request, slot, stream, wire, client>> /\ Quiet

\* The stream has no call, or the session's list shows it over.
Confirmed == stream.call = None \/ (Answers /\ ~Live(stream.call))

\* The last status goes out only when the end is confirmed; then the
\* connection is closed and the slot free.
ServeReturns ==
    /\ stream.at = "ending"
    /\ \/ /\ Confirmed
          /\ wire' = [wire EXCEPT ![slot].worker = FALSE,
                                  ![slot].sent = IF wire[slot].program THEN "ended" ELSE @]
       \/ ~WorkerRuns /\ wire' = [wire EXCEPT ![slot].worker = FALSE]
    /\ stream' = NoStream /\ slot' = None
    /\ UNCHANGED <<calls, worker, request, client>> /\ Quiet

StreamStops ==
    /\ stream.at = "serve" /\ ~WorkerRuns
    /\ Ends
    /\ UNCHANGED <<calls, worker, request, slot, wire, client>> /\ Quiet

------------------------------------------------------------------------------
(* Session and carrier                                                     *)

CarrierRings(c) ==
    /\ calls[c] = "none" /\ Answers
    /\ calls' = [calls EXCEPT ![c] = "ringing"]
    /\ UNCHANGED <<worker, request, slot, stream, wire, client>> /\ Quiet

CarrierEnds(c) ==
    /\ Live(c) /\ Answers
    /\ calls' = [calls EXCEPT ![c] = "ended"]
    /\ UNCHANGED <<worker, request, slot, stream, wire, client>> /\ Quiet

\* The session is closed and built again: its calls are gone with it.
Gone == [c \in DOMAIN calls |-> IF calls[c] = "none" THEN "none" ELSE "gone"]

SessionFails ==
    /\ worker = "up" /\ Trouble
    /\ worker' = "rebuilding"
    /\ UNCHANGED <<calls, request, slot, stream, wire, client>>

SessionBack ==
    /\ worker = "rebuilding"
    /\ worker' = "up" /\ calls' = Gone
    /\ UNCHANGED <<request, slot, stream, wire, client>> /\ Quiet

\* The registration ends: the streams stop, and are waited for.
WorkerStops ==
    /\ WorkerRuns /\ Trouble
    /\ worker' = "stopping"
    /\ UNCHANGED <<calls, request, slot, stream, wire, client>>

\* Its last word is a confirmed cleanup or not.
WorkerEnds ==
    /\ worker = "stopping" /\ slot = None /\ request.at \notin {"run", "listed"}
    /\ \/ worker' = "clean" /\ calls' = Gone
       \/ worker' = "unclean" /\ UNCHANGED calls
    /\ request' = IF request.at = "none" THEN request ELSE [request EXCEPT !.at = "reply"]
    /\ UNCHANGED <<slot, stream, wire, client>> /\ Quiet

Stream == \/ AcceptExpires \/ Status \/ Frame \/ ServeEnds \/ Terminate \/ ServeReturns
          \/ StreamStops

Next ==
    \/ \E h \in Handle :
          \/ \E c \in Incoming \cup {None} : OpenWiFiCall(h, c)
          \/ GiveUpOpening(h) \/ Dial(h) \/ Answer(h) \/ HangupExpires(h) \/ Break(h)
          \/ Program(h)
          \/ client[h].at = "up" /\ Hangup(h)
    \/ Drop \/ Command \/ RunOpen \/ RunList \/ Stream \/ MediaFails
    \/ \E c \in Incoming : CarrierRings(c)
    \/ \E c \in Handle \cup Incoming : CarrierEnds(c)
    \/ SessionFails \/ SessionBack \/ WorkerStops \/ WorkerEnds

\* A session is built again or the worker ends; a call that nobody answers is
\* given up by its caller.
Fairness ==
    /\ \A h \in Handle : WF_vars(Program(h))
    /\ WF_vars(Drop \/ Command \/ RunOpen \/ RunList)
    /\ WF_vars(Stream)
    /\ WF_vars(SessionBack) /\ WF_vars(WorkerEnds)
    /\ \A c \in Incoming : WF_vars(CarrierEnds(c))

Spec == Init /\ [][Next]_vars /\ Fairness

------------------------------------------------------------------------------
(* Properties                                                              *)

\* The types of the state.
TypeOK ==
    /\ calls \in [Handle \cup Incoming -> {"none", "ringing", "live", "ended", "gone"}]
    /\ worker \in {"up", "rebuilding", "stopping", "clean", "unclean"}
    /\ request \in [by : Handle \cup {None}, at : {"none", "sent", "run", "listed", "reply"},
                    op : {"none", "open", "attach", "list"}, ok : BOOLEAN,
                    stream : Handle \cup {None}, busy : BOOLEAN]
    /\ slot \in Handle \cup {None}
    /\ stream \in [at : {"none", "accept", "serve", "ending"}, incoming : BOOLEAN,
                   call : Handle \cup Incoming \cup {None}, fresh : BOOLEAN]
    /\ wire \in [Handle -> [frames : Seq({"dial", "answer", "end"}),
                            sent : {"none", "initial", "live", "ended"},
                            program : BOOLEAN, worker : BOOLEAN]]
    /\ client \in [Handle -> [at : {"idle", "opening", "joining", "up", "waiting", "listing",
                                    "again", "released", "failed"},
                              call : Incoming \cup {None}, dialed : BOOLEAN, ended : BOOLEAN,
                              seen : {"none", "initial", "live", "ended"}]]
    /\ troubles \in 0 .. MaxTroubles

CallOf(h) == IF client[h].call = None THEN h ELSE client[h].call

\* As long as the worker runs, a hang-up has reported success only when the
\* call is over at the carrier, or was never begun and never will be.  (A
\* worker that stops frees the slot between the two reads of a list; its own
\* teardown ends the call then.)
HonestRelease ==
    WorkerRuns => \A h \in Handle : client[h].at = "released" => ~Live(CallOf(h))

\* A call that was dialled or answered over a stream is the stream's until it
\* is over: the slot does not go to another one under it.
SlotHeld == WorkerRuns => \A c \in DOMAIN calls : calls[c] = "live" => stream.call = c

VoiceSound == TypeOK /\ HonestRelease /\ SlotHeld

\* A call that is hung up is released, unless the worker ends without a
\* confirmed cleanup.
HangupsEnd == \A h \in Handle :
    client[h].at = "waiting" ~> client[h].at = "released" \/ worker = "unclean"
==============================================================================
