----------------------------- MODULE WifiBridge -----------------------------
(***************************************************************************)
(* The private channel between the service and one Wi-Fi worker process:   *)
(* sms_bridge.go and mms_bridge.go of backend/internal/hardware.           *)
(*                                                                         *)
(* The service side holds a pending table per kind and asks for one        *)
(* message of a kind at a time.  The worker side refuses a request while   *)
(* it is busy, while no IMS session is set, and when the id was used       *)
(* before in this worker.  A session is one life of the worker process;    *)
(* when it ends, all requests in flight end with an unknown outcome.       *)
(* Incoming SMS travel the other way and wait for a storage confirmation.  *)
(***************************************************************************)
EXTENDS Naturals, FiniteSets

CONSTANTS
    Ids,            \* ids of outgoing messages
    Incoming,       \* incoming SMS the carrier wants to deliver
    MaxUsed,        \* the worker remembers this many ids (10000)
    MaxSessions,    \* bound: lives of the worker process
    MaxEvents       \* bound: deliveries of one incoming SMS not yet read by the service

ASSUME BridgeConstants ==
    /\ MaxUsed \in Nat \ {0} /\ MaxSessions \in Nat \ {0} /\ MaxEvents \in Nat \ {0}
    /\ IsFiniteSet(Ids)

Final == {"accepted", "rejected", "failed", "unknown"}

\* "duplicate" and "full" are one code on the wire.
Refused == {"not_ready", "busy", "duplicate", "full"}
Replies == Final \cup Refused

VARIABLES
    kind,       \* what each message is: SMS or MMS
    session,    \* number of the worker's life, and whether it is up
    client,     \* each message as processMessage sees it
    command,    \* requests written and not yet read by the worker
    reply,      \* events written and not yet read by the service
    sender,     \* setSender, setMMSHandler: an IMS session is there
    running,    \* the requests the worker is working on (busy, mmsBusy)
    used,       \* ids this worker has accepted
    submitted,  \* how often the carrier was given the message
    doubt,      \* messages with an attempt that did not end as a wait for the network
    receive     \* incoming SMS: the worker's and the service's side

SameKind(i, j) == kind[i] = kind[j]

out == <<kind, client, command, reply, sender, running, used, submitted, doubt>>
vars == <<kind, session, client, command, reply, sender, running, used, submitted, doubt, receive>>

NewReceive == [waiting |-> FALSE, events |-> 0, acks |-> {}, stored |-> FALSE, acked |-> FALSE]

TypeOK ==
    /\ kind \in [Ids -> {"sms", "mms"}]
    /\ session \in [life : 0 .. MaxSessions, up : BOOLEAN]
    /\ client \in [Ids -> {"waiting", "asked"} \cup Final]
    /\ command \subseteq Ids
    /\ reply \in [Ids -> SUBSET Replies]
    /\ sender \in BOOLEAN
    /\ running \in [Ids -> {"no", "accepted", "submitted", "replied"}]
    /\ used \subseteq Ids /\ Cardinality(used) <= MaxUsed
    /\ submitted \in [Ids -> Nat] /\ doubt \subseteq Ids
    /\ receive \in [Incoming -> [waiting : BOOLEAN, events : 0 .. MaxEvents,
                                 acks : SUBSET {"yes", "no"}, stored : BOOLEAN, acked : BOOLEAN]]

Init ==
    /\ kind \in [Ids -> {"sms", "mms"}]
    /\ session = [life |-> 0, up |-> FALSE]
    /\ client = [i \in Ids |-> "waiting"]
    /\ command = {} /\ reply = [i \in Ids |-> {}]
    /\ sender = FALSE
    /\ running = [i \in Ids |-> "no"]
    /\ used = {}
    /\ submitted = [i \in Ids |-> 0]
    /\ doubt = {}
    /\ receive = [x \in Incoming |-> NewReceive]

-----------------------------------------------------------------------------
(* The worker process starts, registers with IMS, loses it, ends.          *)

Start ==
    /\ ~ session.up /\ session.life < MaxSessions
    /\ session' = [life |-> session.life + 1, up |-> TRUE]
    /\ UNCHANGED <<kind, client, command, reply, sender, running, used, submitted, doubt, receive>>

SetSender(on) ==
    /\ session.up /\ sender # on
    /\ sender' = on
    /\ UNCHANGED <<kind, session, client, command, reply, running, used, submitted, doubt, receive>>

\* s.closed: every waiting call ends with an unknown outcome.
End ==
    /\ session.up
    /\ session' = [session EXCEPT !.up = FALSE]
    /\ client' = [i \in Ids |-> IF client[i] = "asked" THEN "unknown" ELSE client[i]]
    /\ doubt' = doubt \cup {i \in Ids : client[i] = "asked"}
    /\ command' = {} /\ reply' = [i \in Ids |-> {}]
    /\ sender' = FALSE
    /\ running' = [i \in Ids |-> "no"]
    /\ used' = {}
    /\ receive' = [x \in Incoming |-> [receive[x] EXCEPT !.waiting = FALSE, !.events = 0, !.acks = {}]]
    /\ UNCHANGED <<kind, submitted>>

-----------------------------------------------------------------------------
(* SendSMS and exchangeMMS on the service side.                            *)

\* Nothing was written: processMessage puts the message back to wait, so the calls that
\* find no session, a session that is not ready or another request pending change nothing.
Free(i) == \A j \in Ids : SameKind(i, j) => client[j] # "asked"

Ask(i) ==
    /\ session.up /\ client[i] = "waiting" /\ Free(i)
    /\ \/ /\ client' = [client EXCEPT ![i] = "asked"]
          /\ command' = command \cup {i}
          /\ UNCHANGED doubt
       \/ /\ client' = [client EXCEPT ![i] = "unknown"]    \* the write failed
          /\ command' = command \/ command' = command \cup {i}
          /\ doubt' = doubt \cup {i}
    /\ UNCHANGED <<kind, session, reply, sender, running, used, submitted, receive>>

\* ctx.Done()
AskTimeout(i) ==
    /\ client[i] = "asked"
    /\ client' = [client EXCEPT ![i] = "unknown"]
    /\ doubt' = doubt \cup {i}
    /\ UNCHANGED <<kind, session, command, reply, sender, running, used, submitted, receive>>

\* smsClientSession.event and the state processMessage gives the message.
After(r) ==
    CASE r \in {"not_ready", "busy"} -> "waiting"
      [] r \in {"duplicate", "full"} -> "unknown"
      [] OTHER -> r

Event(i, r) ==
    /\ session.up /\ r \in reply[i]
    /\ reply' = [reply EXCEPT ![i] = @ \ {r}]
    /\ client' = [client EXCEPT ![i] = IF @ = "asked" THEN After(r) ELSE @]
    /\ UNCHANGED <<kind, session, command, sender, running, used, submitted, doubt, receive>>

-----------------------------------------------------------------------------
(* smsWorker.command and smsWorker.mmsCommand.                             *)

Emit(i, r) == reply' = [reply EXCEPT ![i] = @ \cup {r}]
BusyWithSame(i) == running[i] # "no"
Busy(i) == \E j \in Ids : SameKind(i, j) /\ running[j] # "no"
Refusal(i) ==
    IF Busy(i) THEN "busy"
    ELSE IF ~ sender THEN "not_ready"
    ELSE IF i \in used THEN "duplicate"
    ELSE IF Cardinality(used) >= MaxUsed THEN "full"
    ELSE "none"

Command(i) ==
    /\ session.up /\ i \in command
    /\ command' = command \ {i}
    /\ \/ /\ Refusal(i) # "none"
          /\ Emit(i, Refusal(i))
          /\ UNCHANGED <<running, used>>
       \/ /\ Refusal(i) = "none"
          /\ running' = [running EXCEPT ![i] = "accepted"]
          /\ used' = used \cup {i}
          /\ UNCHANGED reply
    /\ UNCHANGED <<kind, session, client, sender, submitted, doubt, receive>>

\* The IMS session refuses before anything is sent: ErrSMSNotReady, mms.WaitingNetwork.
\* mmsCommand then forgets the id, command does not.
NotReady(i) ==
    /\ running[i] = "accepted"
    /\ running' = [running EXCEPT ![i] = "replied"]
    /\ used' = IF kind[i] = "mms" THEN used \ {i} ELSE used
    /\ Emit(i, "not_ready")
    /\ UNCHANGED <<kind, session, client, command, sender, submitted, doubt, receive>>

\* Another error before the submission: no SMS centre is known, or an error without a code.
FailEarly(i) ==
    /\ running[i] = "accepted"
    /\ running' = [running EXCEPT ![i] = "replied"]
    /\ doubt' = doubt \cup {i}
    /\ \E r \in {"unknown"} \cup IF kind[i] = "sms" THEN {"failed"} ELSE {} : Emit(i, r)
    /\ UNCHANGED <<kind, session, client, command, sender, used, submitted, receive>>

Submit(i) ==
    /\ running[i] = "accepted"
    /\ running' = [running EXCEPT ![i] = "submitted"]
    /\ submitted' = [submitted EXCEPT ![i] = @ + 1]
    /\ doubt' = doubt \cup {i}
    /\ UNCHANGED <<kind, session, client, command, reply, sender, used, receive>>

Result(i) ==
    /\ running[i] = "submitted"
    /\ running' = [running EXCEPT ![i] = "replied"]
    /\ \E r \in {"accepted", "rejected", "unknown"} : Emit(i, r)
    /\ UNCHANGED <<kind, session, client, command, sender, used, submitted, doubt, receive>>

\* The deferred reset of busy, after the reply was written.
Release(i) ==
    /\ running[i] = "replied"
    /\ running' = [running EXCEPT ![i] = "no"]
    /\ UNCHANGED <<kind, session, client, command, reply, sender, used, submitted, doubt, receive>>

-----------------------------------------------------------------------------
(* An incoming SMS: receive in the worker, event in the service.           *)

Deliver(x) ==
    /\ session.up /\ ~ receive[x].waiting /\ ~ receive[x].acked /\ receive[x].events < MaxEvents
    /\ receive' = [receive EXCEPT ![x].waiting = TRUE, ![x].events = @ + 1]
    /\ UNCHANGED <<session, out>>

\* storeIncoming commits or fails (its answer may be lost); the result is written back.
\* When the module admits no work the answer is no at once.
Store(x) ==
    /\ session.up /\ receive[x].events > 0
    /\ \/ receive' = [receive EXCEPT ![x].events = @ - 1, ![x].stored = TRUE, ![x].acks = @ \cup {"yes"}]
       \/ \E stored \in {receive[x].stored, TRUE} :
            receive' = [receive EXCEPT ![x].events = @ - 1, ![x].stored = stored, ![x].acks = @ \cup {"no"}]
    /\ UNCHANGED <<session, out>>

\* A confirmation is given to whoever waits for the id now, or dropped: RP-ACK, or an
\* RP-ERROR after which the carrier delivers again.
Confirm(x, ack) ==
    /\ session.up /\ ack \in receive[x].acks
    /\ receive' = [receive EXCEPT ![x].acks = @ \ {ack}, ![x].waiting = FALSE,
                                  ![x].acked = @ \/ (receive[x].waiting /\ ack = "yes")]
    /\ UNCHANGED <<session, out>>

\* Ten seconds without a confirmation; the service may still be storing.
ReceiveTimeout(x) ==
    /\ receive[x].waiting
    /\ receive' = [receive EXCEPT ![x].waiting = FALSE]
    /\ UNCHANGED <<session, out>>

-----------------------------------------------------------------------------
Next ==
    \/ Start \/ End \/ \E on \in BOOLEAN : SetSender(on)
    \/ \E i \in Ids :
        \/ Ask(i) \/ AskTimeout(i) \/ Command(i) \/ NotReady(i) \/ FailEarly(i)
        \/ Submit(i) \/ Result(i) \/ Release(i)
        \/ \E r \in Replies : Event(i, r)
    \/ \E x \in Incoming : 
        \/ Deliver(x) \/ Store(x) \/ ReceiveTimeout(x)
        \/ \E ack \in {"yes", "no"} : Confirm(x, ack)

Spec == Init /\ [][Next]_vars

-----------------------------------------------------------------------------
(* What must hold.                                                         *)

\* No id is given to the carrier twice, over all retries and lives of the worker.
SubmittedOnce == \A i \in Ids : submitted[i] <= 1

\* One request of a kind at a time on the worker, although the service may have given up
\* on an earlier one that still runs.
OneAtATime ==
    \A i, j \in Ids : i # j /\ SameKind(i, j) => running[i] = "no" \/ running[j] = "no"

\* What the service believes is what happened: accepted or rejected only after a submission.
AnswersAreReal == \A i \in Ids : client[i] \in {"accepted", "rejected"} => submitted[i] = 1

\* RP-ACK is sent only for an SMS that is in the database (sms_bridge.go:130), although a
\* confirmation can arrive after its waiter left and a newer delivery took its place.
RpAckIsStored == \A x \in Incoming : receive[x].acked => receive[x].stored

\* deploy/MESSAGES.md:18: a wait that is known to precede the submission can be retried; so
\* the worker takes a request for a repetition only if an earlier attempt ended otherwise.
DuplicateMeansDoubt == \A i \in Ids : "duplicate" \in reply[i] => i \in doubt

\* The same of MMS alone (mms_bridge.go:228: retry only failures proven to precede HTTP submission).
MmsDuplicateMeansDoubt == \A i \in Ids : kind[i] = "mms" /\ "duplicate" \in reply[i] => i \in doubt

\* Whatever is retried or times out, the carrier gets a message once, and an answer that
\* the service believes comes from that one submission.
HonestSubmission == SubmittedOnce /\ AnswersAreReal

\* Over every life of the worker: one message of a kind at a time, each submitted once and its client
\* told so, what is acknowledged stored, an MMS taken for a repetition in doubt; with the types.
BridgeSound == TypeOK /\ OneAtATime /\ HonestSubmission /\ RpAckIsStored /\ MmsDuplicateMeansDoubt

=============================================================================
