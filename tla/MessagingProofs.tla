-------------------------- MODULE MessagingProofs --------------------------
(***************************************************************************)
(* Proofs about the channel to the Wi-Fi worker (WifiBridge), text         *)
(* messages over one IMS session (ImsSms) and alerts (Alerts), for any     *)
(* messages, references, deliveries, attempts, limits and bounds.          *)
(*                                                                         *)
(* Each invariant says what may still come of something: of an attempt,    *)
(* which is in one place of the channel at a time; of a reference, which   *)
(* is guarded while a result for it can arrive; of a result that is        *)
(* reported late, which counts as it would have in time.                   *)
(***************************************************************************)
EXTENDS MCMessaging, TLAPS, FiniteSetTheorems, SequenceTheorems, WellFoundedInduction

-----------------------------------------------------------------------------
(* The channel to the Wi-Fi worker.                                        *)

\* The worker has nothing of the message in hand, but may still have to reset its busy flag.
Idle == {"no", "replied"}

\* An attempt is in one place: with the client, written, with the worker, or answered.
AttemptInv(i) ==
    /\ client[i] = "waiting" => i \notin command /\ reply[i] = {}
    /\ i \in command => reply[i] = {}
    /\ running[i] \notin Idle => reply[i] = {}
    /\ \A r, s \in reply[i] : r = s
    /\ client[i] = "waiting" \/ i \in command => running[i] \in Idle

\* It submits once, and every place says whether it has.
SubmissionInv(i) ==
    /\ client[i] = "waiting" \/ i \in command \/ running[i] = "accepted" \/ reply[i] \cap Refused # {} => submitted[i] = 0
    /\ running[i] = "submitted" => submitted[i] = 1
    /\ submitted[i] \in {0, 1}
    /\ reply[i] \cap {"accepted", "rejected"} # {} => submitted[i] = 1
    /\ client[i] \in {"accepted", "rejected"} => submitted[i] = 1

\* The worker forgets the id of an MMS that it has refused before the submission.
UsedInv(i) ==
    /\ kind[i] = "mms" /\ i \in used => running[i] = "accepted" \/ i \in doubt
    /\ running[i] = "submitted" => i \in doubt
    /\ kind[i] = "mms" /\ "duplicate" \in reply[i] => i \in doubt

IdInv(i) == AttemptInv(i) /\ SubmissionInv(i) /\ UsedInv(i)

\* A confirmation that is on its way speaks of a stored SMS.
ReceiveInv(x) == receive[x].acked \/ "yes" \in receive[x].acks => receive[x].stored

Inv == TypeOK /\ OneAtATime /\ (\A i \in Ids : IdInv(i)) /\ \A x \in Incoming : ReceiveInv(x)

\* The step leaves message e as it was.
SameId(e) ==
    /\ client'[e] = client[e] /\ reply'[e] = reply[e] /\ running'[e] = running[e] /\ submitted'[e] = submitted[e]
    /\ kind'[e] = kind[e]
    /\ e \in command' <=> e \in command
    /\ e \in used' => e \in used
    /\ e \in doubt => e \in doubt'

\* Such a message keeps its invariant.
LEMMA SameKeeps ==
    ASSUME NEW e \in Ids, IdInv(e), SameId(e)
    PROVE  IdInv(e)'
<1>1. AttemptInv(e)'  BY DEF IdInv, SameId, AttemptInv
<1>2. SubmissionInv(e)'  BY DEF IdInv, SameId, SubmissionInv
<1>3. UsedInv(e)'  BY DEF IdInv, SameId, UsedInv
<1> QED  BY <1>1, <1>2, <1>3 DEF IdInv

\* A step of one message.
LEMMA IdStepKeeps ==
    ASSUME Inv, TypeOK', OneAtATime', NEW i \in Ids, IdInv(i)', \A e \in Ids \ {i} : SameId(e), UNCHANGED receive
    PROVE  Inv'
<1>1. \A e \in Ids : IdInv(e)'  BY SameKeeps DEF Inv
<1>2. \A x \in Incoming : ReceiveInv(x)'  BY DEF Inv, ReceiveInv
<1> QED  BY <1>1, <1>2 DEF Inv

\* The worker stays within its two flags when it begins nothing.
LEMMA NothingBegins ==
    ASSUME OneAtATime, kind' = kind, \A e \in Ids : running[e] = "no" => running'[e] = "no"
    PROVE  OneAtATime'
BY DEF OneAtATime, SameKind

\* Forgetting an id keeps the table of used ids within its limit.
LEMMA UsedBounded ==
    ASSUME TypeOK, NEW U, U \subseteq used
    PROVE  U \subseteq Ids /\ Cardinality(U) <= MaxUsed
<1>1. IsFiniteSet(used)  BY BridgeConstants, FS_Subset DEF TypeOK
<1>2. IsFiniteSet(U) /\ Cardinality(U) <= Cardinality(used)  BY <1>1, FS_Subset
<1>3. Cardinality(U) \in Nat /\ Cardinality(used) \in Nat  BY <1>1, <1>2, FS_CardinalityType
<1> QED  BY <1>2, <1>3, BridgeConstants DEF TypeOK

-----------------------------------------------------------------------------
\* The service asks, gives up, or reads an answer.
LEMMA ServiceStep ==
    ASSUME Inv, NEW i \in Ids, Ask(i) \/ AskTimeout(i)
    PROVE  Inv'
<1> USE DEF Emit, Final, Refused, Replies
<1>1. CASE Ask(i)
  <2>1. TypeOK'  BY <1>1 DEF Inv, TypeOK, Ask
  <2>2. OneAtATime'  BY <1>1, NothingBegins DEF Inv, TypeOK, Ask
  <2>3. AttemptInv(i)'  BY <1>1 DEF Inv, TypeOK, Ask, IdInv, AttemptInv, SubmissionInv, Idle
  <2>4. SubmissionInv(i)'  BY <1>1 DEF Inv, TypeOK, Ask, IdInv, AttemptInv, SubmissionInv, Idle
  <2>5. UsedInv(i)'  BY <1>1 DEF Inv, TypeOK, Ask, IdInv, UsedInv, AttemptInv, Idle
  <2>6. \A e \in Ids \ {i} : SameId(e) /\ UNCHANGED receive  BY <1>1 DEF Inv, TypeOK, Ask, SameId
  <2> QED  BY <1>1, <2>1, <2>2, <2>3, <2>4, <2>5, <2>6, IdStepKeeps DEF IdInv, Ask
<1>2. CASE AskTimeout(i)
  <2>1. TypeOK'  BY <1>2 DEF Inv, TypeOK, AskTimeout
  <2>2. OneAtATime'  BY <1>2, NothingBegins DEF Inv, TypeOK, AskTimeout
  <2>3. AttemptInv(i)'  BY <1>2 DEF Inv, TypeOK, AskTimeout, IdInv, AttemptInv, SubmissionInv, Idle
  <2>4. SubmissionInv(i)'  BY <1>2 DEF Inv, TypeOK, AskTimeout, IdInv, AttemptInv, SubmissionInv, Idle
  <2>5. UsedInv(i)'  BY <1>2 DEF Inv, TypeOK, AskTimeout, IdInv, UsedInv, AttemptInv, Idle
  <2>6. \A e \in Ids \ {i} : SameId(e) /\ UNCHANGED receive  BY <1>2 DEF Inv, TypeOK, AskTimeout, SameId
  <2> QED  BY <1>2, <2>1, <2>2, <2>3, <2>4, <2>5, <2>6, IdStepKeeps DEF IdInv, AskTimeout
<1> QED  BY <1>1, <1>2

-----------------------------------------------------------------------------
\* The worker refuses, submits, answers and goes idle.
LEMMA WorkerStep ==
    ASSUME Inv, NEW i \in Ids, NotReady(i) \/ FailEarly(i) \/ Submit(i) \/ Result(i) \/ Release(i)
    PROVE  Inv'
<1> USE DEF Emit, Final, Refused, Replies
<1>1. CASE NotReady(i)
  <2>1. TypeOK'
    <3>1. used' \subseteq Ids /\ Cardinality(used') <= MaxUsed
      <4>1. TypeOK /\ used' \subseteq used  BY <1>1 DEF Inv, NotReady
      <4> QED  BY <4>1, UsedBounded
    <3>2. /\ running' \in [Ids -> {"no", "accepted", "submitted", "replied"}]
          /\ reply' \in [Ids -> SUBSET Replies]
      BY <1>1 DEF Inv, TypeOK, NotReady
    <3> QED  BY <1>1, <3>1, <3>2 DEF Inv, TypeOK, NotReady
  <2>2. OneAtATime'  BY <1>1, NothingBegins DEF Inv, TypeOK, NotReady
  <2>3. AttemptInv(i)'  BY <1>1 DEF Inv, TypeOK, NotReady, IdInv, AttemptInv, SubmissionInv, Idle
  <2>4. SubmissionInv(i)'  BY <1>1 DEF Inv, TypeOK, NotReady, IdInv, AttemptInv, SubmissionInv, Idle
  <2>5. UsedInv(i)'  BY <1>1 DEF Inv, TypeOK, NotReady, IdInv, UsedInv, AttemptInv, Idle
  <2>6. \A e \in Ids \ {i} : SameId(e) /\ UNCHANGED receive  BY <1>1 DEF Inv, TypeOK, NotReady, SameId
  <2> QED  BY <1>1, <2>1, <2>2, <2>3, <2>4, <2>5, <2>6, IdStepKeeps DEF IdInv, NotReady
<1>2. CASE FailEarly(i)
  <2>1. TypeOK'  BY <1>2 DEF Inv, TypeOK, FailEarly
  <2>2. OneAtATime'  BY <1>2, NothingBegins DEF Inv, TypeOK, FailEarly
  <2>3. AttemptInv(i)'  BY <1>2 DEF Inv, TypeOK, FailEarly, IdInv, AttemptInv, SubmissionInv, Idle
  <2>4. SubmissionInv(i)'  BY <1>2 DEF Inv, TypeOK, FailEarly, IdInv, AttemptInv, SubmissionInv, Idle
  <2>5. UsedInv(i)'  BY <1>2 DEF Inv, TypeOK, FailEarly, IdInv, UsedInv, AttemptInv, Idle
  <2>6. \A e \in Ids \ {i} : SameId(e) /\ UNCHANGED receive  BY <1>2 DEF Inv, TypeOK, FailEarly, SameId
  <2> QED  BY <1>2, <2>1, <2>2, <2>3, <2>4, <2>5, <2>6, IdStepKeeps DEF IdInv, FailEarly
<1>3. CASE Submit(i)
  <2>1. TypeOK'  BY <1>3 DEF Inv, TypeOK, Submit
  <2>2. OneAtATime'  BY <1>3, NothingBegins DEF Inv, TypeOK, Submit
  <2>3. AttemptInv(i)'  BY <1>3 DEF Inv, TypeOK, Submit, IdInv, AttemptInv, SubmissionInv, Idle
  <2>4. SubmissionInv(i)'  BY <1>3 DEF Inv, TypeOK, Submit, IdInv, AttemptInv, SubmissionInv, Idle
  <2>5. UsedInv(i)'  BY <1>3 DEF Inv, TypeOK, Submit, IdInv, UsedInv, AttemptInv, Idle
  <2>6. \A e \in Ids \ {i} : SameId(e) /\ UNCHANGED receive  BY <1>3 DEF Inv, TypeOK, Submit, SameId
  <2> QED  BY <1>3, <2>1, <2>2, <2>3, <2>4, <2>5, <2>6, IdStepKeeps DEF IdInv, Submit
<1>4. CASE Result(i)
  <2>1. TypeOK'  BY <1>4 DEF Inv, TypeOK, Result
  <2>2. OneAtATime'  BY <1>4, NothingBegins DEF Inv, TypeOK, Result
  <2>3. AttemptInv(i)'  BY <1>4 DEF Inv, TypeOK, Result, IdInv, AttemptInv, SubmissionInv, Idle
  <2>4. SubmissionInv(i)'  BY <1>4 DEF Inv, TypeOK, Result, IdInv, AttemptInv, SubmissionInv, Idle
  <2>5. UsedInv(i)'  BY <1>4 DEF Inv, TypeOK, Result, IdInv, UsedInv, AttemptInv, Idle
  <2>6. \A e \in Ids \ {i} : SameId(e) /\ UNCHANGED receive  BY <1>4 DEF Inv, TypeOK, Result, SameId
  <2> QED  BY <1>4, <2>1, <2>2, <2>3, <2>4, <2>5, <2>6, IdStepKeeps DEF IdInv, Result
<1>5. CASE Release(i)
  <2>1. TypeOK'  BY <1>5 DEF Inv, TypeOK, Release
  <2>2. OneAtATime'  BY <1>5, NothingBegins DEF Inv, TypeOK, Release
  <2>3. AttemptInv(i)'  BY <1>5 DEF Inv, TypeOK, Release, IdInv, AttemptInv, SubmissionInv, Idle
  <2>4. SubmissionInv(i)'  BY <1>5 DEF Inv, TypeOK, Release, IdInv, AttemptInv, SubmissionInv, Idle
  <2>5. UsedInv(i)'  BY <1>5 DEF Inv, TypeOK, Release, IdInv, UsedInv, AttemptInv, Idle
  <2>6. \A e \in Ids \ {i} : SameId(e) /\ UNCHANGED receive  BY <1>5 DEF Inv, TypeOK, Release, SameId
  <2> QED  BY <1>5, <2>1, <2>2, <2>3, <2>4, <2>5, <2>6, IdStepKeeps DEF IdInv, Release
<1> QED  BY <1>1, <1>2, <1>3, <1>4, <1>5

\* The worker takes a request or refuses it.
LEMMA CommandStep ==
    ASSUME Inv, NEW i \in Ids, Command(i)
    PROVE  Inv'
<1> USE DEF Emit, Final, Refused, Replies
<1>0. TypeOK /\ IdInv(i) /\ i \in command  BY DEF Inv, Command
<1>1. Refusal(i) \in Refused \cup {"none"}  BY DEF Refusal
<1>2. UNCHANGED <<kind, session, client, sender, submitted, doubt, receive>> /\ command' = command \ {i}
  BY DEF Command
<1>3. CASE Refusal(i) # "none" /\ reply' = [reply EXCEPT ![i] = @ \cup {Refusal(i)}] /\ UNCHANGED <<running, used>>
  <2>1. TypeOK'  BY <1>0, <1>1, <1>2, <1>3 DEF TypeOK
  <2>2. OneAtATime'  BY <1>2, <1>3, NothingBegins DEF Inv
  <2>3. reply'[i] = {Refusal(i)}  BY <1>0, <1>3 DEF TypeOK, IdInv, AttemptInv
  <2>4. AttemptInv(i)' /\ SubmissionInv(i)'
    BY <1>0, <1>1, <1>2, <1>3, <2>3 DEF IdInv, AttemptInv, SubmissionInv, Idle
  <2>5. Refusal(i) = "duplicate" => i \in used /\ running[i] = "no"  BY DEF Refusal, Busy, SameKind
  <2>6. UsedInv(i)'  BY <1>0, <1>2, <1>3, <2>3, <2>5 DEF IdInv, UsedInv
  <2>7. \A e \in Ids \ {i} : SameId(e)  BY <1>0, <1>2, <1>3 DEF TypeOK, SameId
  <2> QED  BY <1>2, <2>1, <2>2, <2>4, <2>6, <2>7, IdStepKeeps DEF IdInv
<1>4. CASE /\ Refusal(i) = "none" /\ running' = [running EXCEPT ![i] = "accepted"]
           /\ used' = used \cup {i} /\ UNCHANGED reply
  <2>1. ~ Busy(i) /\ i \notin used /\ Cardinality(used) < MaxUsed
    BY <1>0, <1>4, BridgeConstants, FS_CardinalityType, FS_Subset DEF Refusal, TypeOK
  <2>2. used' \subseteq Ids /\ Cardinality(used') <= MaxUsed
    <3>1. IsFiniteSet(used)  BY <1>0, BridgeConstants, FS_Subset DEF TypeOK
    <3>2. Cardinality(used') = Cardinality(used) + 1 /\ Cardinality(used) \in Nat
      BY <1>4, <2>1, <3>1, FS_AddElement, FS_CardinalityType
    <3> QED  BY <1>0, <1>4, <2>1, <3>2, BridgeConstants DEF TypeOK
  <2>3. TypeOK'  BY <1>0, <1>2, <1>4, <2>2 DEF TypeOK
  <2>4. OneAtATime'  BY <1>0, <1>2, <1>4, <2>1 DEF Inv, OneAtATime, Busy, SameKind, TypeOK
  <2>5. AttemptInv(i)' /\ SubmissionInv(i)' /\ UsedInv(i)'
    BY <1>0, <1>2, <1>4 DEF TypeOK, IdInv, AttemptInv, SubmissionInv, UsedInv, Idle
  <2>6. \A e \in Ids \ {i} : SameId(e)  BY <1>0, <1>2, <1>4 DEF TypeOK, SameId
  <2> QED  BY <1>2, <2>3, <2>4, <2>5, <2>6, IdStepKeeps DEF IdInv
<1> QED  BY <1>3, <1>4 DEF Command

\* smsClientSession.event: the answer reaches a client that still waits, or nobody.
LEMMA EventStep ==
    ASSUME Inv, NEW i \in Ids, NEW r \in Replies, Event(i, r)
    PROVE  Inv'
<1>0. TypeOK /\ IdInv(i) /\ r \in reply[i]  BY DEF Inv, Event
<1>1. /\ UNCHANGED <<kind, session, command, sender, running, used, submitted, doubt, receive>>
      /\ reply' = [reply EXCEPT ![i] = @ \ {r}]
      /\ client' = [client EXCEPT ![i] = IF @ = "asked" THEN After(r) ELSE @]
  BY DEF Event
<1>2. After(r) \in {"waiting"} \cup Final  BY DEF After, Replies, Final, Refused
<1>3. After(r) = "waiting" => r \in Refused  BY DEF After, Replies, Final, Refused
<1>4. After(r) \in {"accepted", "rejected"} => r \in {"accepted", "rejected"}  BY DEF After, Replies, Final, Refused
<1>5. TypeOK'  BY <1>0, <1>1, <1>2 DEF TypeOK
<1>6. OneAtATime'  BY <1>1, NothingBegins DEF Inv
<1>7. reply'[i] = {} /\ running[i] \in Idle /\ i \notin command
  BY <1>0, <1>1 DEF TypeOK, IdInv, AttemptInv
<1>8. client'[i] = client[i] \/ client'[i] = After(r)  BY <1>0, <1>1 DEF TypeOK
<1>9. AttemptInv(i)'  BY <1>0, <1>1, <1>7 DEF IdInv, AttemptInv, Idle
<1>10. SubmissionInv(i)'
  BY <1>0, <1>1, <1>3, <1>4, <1>7, <1>8 DEF IdInv, SubmissionInv, Refused
<1>11. UsedInv(i)'  BY <1>0, <1>1, <1>7 DEF IdInv, UsedInv
<1>12. \A e \in Ids \ {i} : SameId(e)  BY <1>0, <1>1 DEF TypeOK, SameId
<1> QED  BY <1>1, <1>5, <1>6, <1>9, <1>10, <1>11, <1>12, IdStepKeeps DEF IdInv

\* A worker starts or registers.
LEMMA LifeStep ==
    ASSUME Inv, Start \/ \E on \in BOOLEAN : SetSender(on)
    PROVE  Inv'
<1>1. UNCHANGED <<kind, client, command, reply, running, used, submitted, doubt, receive>>  BY DEF Start, SetSender
<1>2. TypeOK'
  <2>0. TypeOK  BY DEF Inv
  <2>1. session' \in [life : 0 .. MaxSessions, up : BOOLEAN] /\ sender' \in BOOLEAN
    <3>1. CASE Start
      <4>1. session.life + 1 \in 0 .. MaxSessions  BY <2>0, <3>1, BridgeConstants DEF TypeOK, Start
      <4>2. session' = [life |-> session.life + 1, up |-> TRUE] /\ sender' = sender  BY <3>1 DEF Start
      <4> QED  BY <2>0, <4>1, <4>2 DEF TypeOK
    <3>2. CASE \E on \in BOOLEAN : SetSender(on)
      <4>1. PICK on \in BOOLEAN : SetSender(on)  BY <3>2
      <4>2. session' = session /\ sender' = on  BY <4>1 DEF SetSender
      <4> QED  BY <2>0, <4>2 DEF TypeOK
    <3> QED  BY <3>1, <3>2
  <2> QED  BY <1>1, <2>0, <2>1 DEF TypeOK
<1>3. OneAtATime'  BY <1>1, NothingBegins DEF Inv
<1> QED  BY <1>1, <1>2, <1>3 DEF Inv, IdInv, AttemptInv, SubmissionInv, UsedInv, ReceiveInv

\* The worker process ends, and with it all that it had of every message.
LEMMA EndStep ==
    ASSUME Inv, End
    PROVE  Inv'
<1>0. TypeOK  BY DEF Inv
<1>1. \A x \in Incoming :
                          /\ receive'[x] \in [waiting : BOOLEAN, events : 0 .. MaxEvents,
                                              acks : SUBSET {"yes", "no"}, stored : BOOLEAN, acked : BOOLEAN]
                          /\ receive'[x].acks = {} /\ receive'[x].acked = receive[x].acked
                          /\ receive'[x].stored = receive[x].stored
  <2> SUFFICES ASSUME NEW x \in Incoming
               PROVE  /\ receive'[x] \in [waiting : BOOLEAN, events : 0 .. MaxEvents,
                                          acks : SUBSET {"yes", "no"}, stored : BOOLEAN, acked : BOOLEAN]
                      /\ receive'[x].acks = {} /\ receive'[x].acked = receive[x].acked
                      /\ receive'[x].stored = receive[x].stored
    OBVIOUS
  <2>1. receive[x] \in [waiting : BOOLEAN, events : 0 .. MaxEvents,
                        acks : SUBSET {"yes", "no"}, stored : BOOLEAN, acked : BOOLEAN]
    BY <1>0 DEF TypeOK
  <2>2. receive'[x] = [receive[x] EXCEPT !.waiting = FALSE, !.events = 0, !.acks = {}]  BY DEF End
  <2>3. 0 \in 0 .. MaxEvents  BY BridgeConstants
  <2> QED  BY <2>1, <2>2, <2>3
<1>2. TypeOK'
  <2>1. client' \in [Ids -> {"waiting", "asked"} \cup Final]  BY <1>0 DEF TypeOK, End, Final
  <2>2. Cardinality(used') <= MaxUsed /\ used' \subseteq Ids
    <3>1. used' \subseteq used  BY DEF End
    <3> QED  BY <1>0, <3>1, UsedBounded
  <2>3. receive' \in [Incoming -> [waiting : BOOLEAN, events : 0 .. MaxEvents,
                                   acks : SUBSET {"yes", "no"}, stored : BOOLEAN, acked : BOOLEAN]]
    BY <1>1 DEF End
  <2>4. /\ kind' = kind /\ submitted' = submitted /\ doubt' \subseteq Ids /\ command' = {} /\ sender' = FALSE
        /\ reply' \in [Ids -> SUBSET Replies] /\ running' \in [Ids -> {"no", "accepted", "submitted", "replied"}]
        /\ session' \in [life : 0 .. MaxSessions, up : BOOLEAN]
    BY <1>0 DEF TypeOK, End
  <2> QED  BY <1>0, <2>1, <2>2, <2>3, <2>4 DEF TypeOK
<1>3. OneAtATime'  BY DEF End, OneAtATime
<1>4. ASSUME NEW i \in Ids  PROVE IdInv(i)'
  BY <1>0, <1>4 DEF Inv, TypeOK, End, IdInv, AttemptInv, SubmissionInv, UsedInv, Idle, Refused
<1>5. \A x \in Incoming : ReceiveInv(x)'  BY <1>1 DEF Inv, ReceiveInv
<1> QED  BY <1>2, <1>3, <1>4, <1>5 DEF Inv

-----------------------------------------------------------------------------
(* Incoming SMS.                                                           *)

\* A step of one incoming SMS: nothing else moves.
LEMMA ReceiveStep ==
    ASSUME Inv, NEW x \in Incoming,
           Deliver(x) \/ Store(x) \/ ReceiveTimeout(x) \/ \E ack \in {"yes", "no"} : Confirm(x, ack)
    PROVE  Inv'
<1> DEFINE State == [waiting : BOOLEAN, events : 0 .. MaxEvents, acks : SUBSET {"yes", "no"},
                     stored : BOOLEAN, acked : BOOLEAN]
<1>0. TypeOK /\ receive \in [Incoming -> State] /\ receive[x] \in State  BY DEF Inv, TypeOK
<1>1. UNCHANGED <<session, out>>  BY DEF Deliver, Store, ReceiveTimeout, Confirm
<1>2. PICK s \in State : /\ receive' = [receive EXCEPT ![x] = s]
                         /\ s.acked \/ "yes" \in s.acks => s.stored
  <2>1. ReceiveInv(x)  BY DEF Inv
  <2>2. CASE Deliver(x)
    <3> DEFINE s == [receive[x] EXCEPT !.waiting = TRUE, !.events = @ + 1]
    <3>1. s \in State /\ s.acked = receive[x].acked /\ s.acks = receive[x].acks /\ s.stored = receive[x].stored
      BY <1>0, <2>2, BridgeConstants DEF Deliver
    <3>2. receive' = [receive EXCEPT ![x] = s]  BY <1>0, <2>2 DEF Deliver
    <3> QED  BY <2>1, <3>1, <3>2 DEF ReceiveInv
  <2>3. CASE Store(x)
    <3>1. PICK saved \in {receive[x].stored, TRUE}, ack \in {"yes", "no"} :
             /\ receive' = [receive EXCEPT ![x].events = @ - 1, ![x].stored = saved, ![x].acks = @ \cup {ack}]
             /\ ack = "yes" => saved
      BY <2>3 DEF Store
    <3> DEFINE s == [receive[x] EXCEPT !.events = @ - 1, !.stored = saved, !.acks = @ \cup {ack}]
    <3>2. /\ s \in State /\ s.acked = receive[x].acked /\ s.acks = receive[x].acks \cup {ack} /\ s.stored = saved
      BY <1>0, <2>3, <3>1, BridgeConstants DEF Store
    <3>3. receive' = [receive EXCEPT ![x] = s]  BY <1>0, <3>1
    <3>4. receive[x].stored => saved  BY <3>1
    <3> QED  BY <2>1, <3>1, <3>2, <3>3, <3>4 DEF ReceiveInv
  <2>4. CASE ReceiveTimeout(x)
    <3> DEFINE s == [receive[x] EXCEPT !.waiting = FALSE]
    <3>1. s \in State /\ s.acked = receive[x].acked /\ s.acks = receive[x].acks /\ s.stored = receive[x].stored
      BY <1>0
    <3>2. receive' = [receive EXCEPT ![x] = s]  BY <1>0, <2>4 DEF ReceiveTimeout
    <3> QED  BY <2>1, <3>1, <3>2 DEF ReceiveInv
  <2>5. CASE \E ack \in {"yes", "no"} : Confirm(x, ack)
    <3>1. PICK ack \in {"yes", "no"} : Confirm(x, ack)  BY <2>5
    <3> DEFINE s == [receive[x] EXCEPT !.acks = @ \ {ack}, !.waiting = FALSE,
                                       !.acked = @ \/ (receive[x].waiting /\ ack = "yes")]
    <3>2. /\ s \in State /\ s.acked = (receive[x].acked \/ (receive[x].waiting /\ ack = "yes"))
          /\ s.acks = receive[x].acks \ {ack} /\ s.stored = receive[x].stored
      BY <1>0
    <3>3. receive' = [receive EXCEPT ![x] = s] /\ ack \in receive[x].acks  BY <1>0, <3>1 DEF Confirm
    <3> QED  BY <2>1, <3>2, <3>3 DEF ReceiveInv
  <2> QED  BY <2>2, <2>3, <2>4, <2>5
<1>3. receive' \in [Incoming -> State]  BY <1>0, <1>2
<1>4. TypeOK'  BY <1>0, <1>1, <1>3 DEF TypeOK, out
<1>5. OneAtATime'  BY <1>1, NothingBegins DEF Inv, out
<1>6. \A i \in Ids : IdInv(i)'  BY <1>1 DEF Inv, out, IdInv, AttemptInv, SubmissionInv, UsedInv
<1>7. \A y \in Incoming : ReceiveInv(y)'  BY <1>0, <1>2 DEF Inv, ReceiveInv
<1> QED  BY <1>4, <1>5, <1>6, <1>7 DEF Inv

-----------------------------------------------------------------------------
(* The invariant, and what follows from it.                                *)

\* No worker has started.
LEMMA InitInv == Init => Inv
<1> SUFFICES ASSUME Init  PROVE Inv
  OBVIOUS
<1>1. TypeOK
  <2>1. Cardinality(used) <= MaxUsed  BY FS_EmptySet, BridgeConstants DEF Init
  <2>2. receive \in [Incoming -> [waiting : BOOLEAN, events : 0 .. MaxEvents,
                                  acks : SUBSET {"yes", "no"}, stored : BOOLEAN, acked : BOOLEAN]]
    BY BridgeConstants DEF Init, NewReceive
  <2>3. /\ client \in [Ids -> {"waiting", "asked"} \cup Final] /\ reply \in [Ids -> SUBSET Replies]
        /\ running \in [Ids -> {"no", "accepted", "submitted", "replied"}] /\ submitted \in [Ids -> Nat]
    BY DEF Init
  <2>4. session \in [life : 0 .. MaxSessions, up : BOOLEAN]  BY BridgeConstants DEF Init
  <2>5. kind \in [Ids -> {"sms", "mms"}] /\ command = {} /\ used = {} /\ doubt = {} /\ sender = FALSE  BY DEF Init
  <2> QED  BY <2>1, <2>2, <2>3, <2>4, <2>5 DEF TypeOK
<1>2. OneAtATime  BY DEF Init, OneAtATime
<1>3. \A i \in Ids : IdInv(i)  BY DEF Init, IdInv, AttemptInv, SubmissionInv, UsedInv, Idle
<1>4. \A x \in Incoming : ReceiveInv(x)  BY DEF Init, ReceiveInv, NewReceive
<1> QED  BY <1>1, <1>2, <1>3, <1>4 DEF Inv

\* Every step keeps the invariant.
LEMMA NextInv == Inv /\ [Next]_vars => Inv'
<1> SUFFICES ASSUME Inv, [Next]_vars  PROVE Inv'
  OBVIOUS
<1>1. CASE UNCHANGED vars
  BY <1>1 DEF vars, Inv, TypeOK, OneAtATime, SameKind, IdInv, AttemptInv, SubmissionInv, UsedInv, ReceiveInv
<1>2. CASE Start \/ End \/ \E on \in BOOLEAN : SetSender(on)  BY <1>2, LifeStep, EndStep
<1>3. ASSUME NEW i \in Ids,
             \/ Ask(i) \/ AskTimeout(i) \/ Command(i) \/ NotReady(i) \/ FailEarly(i)
             \/ Submit(i) \/ Result(i) \/ Release(i)
             \/ \E r \in Replies : Event(i, r)
      PROVE  Inv'
  BY <1>3, ServiceStep, CommandStep, WorkerStep, EventStep
<1>4. ASSUME NEW x \in Incoming,
             Deliver(x) \/ Store(x) \/ ReceiveTimeout(x) \/ \E ack \in {"yes", "no"} : Confirm(x, ack)
      PROVE  Inv'
  BY <1>4, ReceiveStep
<1> QED  BY <1>1, <1>2, <1>3, <1>4 DEF Next

\* An attempt is in one place and submits once, in every reachable state.
THEOREM BridgeInvariant == Spec => []Inv
<1> QED  BY InitInv, NextInv, PTL DEF Spec

\* Over every life of the worker: one message of a kind at a time, each submitted once and its
\* client told so, what is acknowledged stored, and an MMS taken for a repetition in doubt
\* (smsWorker.command, mmsCommand, SendSMS, receive).
THEOREM BridgeIsSound == Spec => []BridgeSound
<1>1. Inv => SubmittedOnce  BY DEF Inv, SubmittedOnce, IdInv, SubmissionInv
<1>2. Inv => AnswersAreReal  BY DEF Inv, AnswersAreReal, IdInv, SubmissionInv
<1>3. Inv => RpAckIsStored  BY DEF Inv, RpAckIsStored, ReceiveInv
<1>4. Inv => MmsDuplicateMeansDoubt  BY DEF Inv, MmsDuplicateMeansDoubt, IdInv, UsedInv
<1>5. Inv => TypeOK /\ OneAtATime  BY DEF Inv
<1> QED  BY <1>1, <1>2, <1>3, <1>4, <1>5, BridgeInvariant, PTL DEF BridgeSound, HonestSubmission

-----------------------------------------------------------------------------
(* Text messages over one IMS session.                                     *)

\* The types of what submissions work on.
SmsWaits == [for : Sms!Part \cup {Sms!Notice}, got : Sms!Results] \cup {[for |-> Sms!Nobody, got |-> "none"]}
SmsSenders == [pc : {"idle", "sip", "rp", "stopped"}, ref : 0 .. Refs, part : 1 .. Parts + 1]
SmsNotices == [pc : {"none", "idle", "sip", "rp", "done"}, ref : 0 .. Refs]
SmsFlights == [for : Sms!Part \cup {Sms!Notice}, ref : Sms!Ref]
SmsResults == [ref : Sms!Ref, for : Sms!Part \cup {Sms!Notice}, ok : BOOLEAN, reply : BOOLEAN]
SmsTypes ==
    /\ next \in Sms!Ref /\ guarded \subseteq Sms!Ref
    /\ pending \in [Sms!Ref -> SmsWaits]
    /\ smsSender \in SmsSenders /\ notice \in SmsNotices
    /\ verdict \in [Sms!Part -> Sms!Results \cup {"failed"}]
    /\ centre \in [Sms!Part \cup {Sms!Notice} -> Sms!Results]
    /\ flight \subseteq SmsFlights /\ net \subseteq SmsResults /\ closed \in BOOLEAN

\* Who waits for a reference is at work on what the reference stands for, and keeps it guarded;
\* the result it has is the service centre's.
SmsWaiting ==
    /\ \A r \in Sms!Ref :
          /\ pending[r].for \in Sms!Part =>
                 smsSender.pc \in {"sip", "rp"} /\ smsSender.ref = r /\ smsSender.part = pending[r].for
          /\ pending[r].for = Sms!Notice => notice.pc \in {"sip", "rp"} /\ notice.ref = r
          /\ pending[r].for # Sms!Nobody => r \in guarded
          /\ pending[r].got # "none" => centre[pending[r].for] = pending[r].got
    /\ smsSender.pc \in {"sip", "rp"} =>
           smsSender.ref \in Sms!Ref /\ smsSender.part \in Sms!Part /\ pending[smsSender.ref].for = smsSender.part
    /\ notice.pc \in {"sip", "rp"} => notice.ref \in Sms!Ref /\ pending[notice.ref].for = Sms!Notice

\* What is under way is of a guarded reference, and of who waits for it if somebody does; a
\* result says what the service centre decided.
SmsCarried ==
    /\ \A m \in flight \cup net : m.ref \in guarded /\ (pending[m.ref].for # Sms!Nobody => m.for = pending[m.ref].for)
    /\ \A m \in net : centre[m.for] = IF m.ok THEN "accepted" ELSE "rejected"

\* A part that was rejected before the service centre had it will not reach it any more; parts
\* that have not ended have no verdict.
SmsVerdicts ==
    \A p \in Sms!Part :
        /\ verdict[p] = "accepted" => centre[p] = "accepted"
        /\ verdict[p] = "rejected" =>
               centre[p] = "rejected" \/ (centre[p] = "none" /\ \A m \in flight : m.for # p)
        /\ p > smsSender.part \/ (p = smsSender.part /\ smsSender.pc # "stopped") => verdict[p] = "none"

SmsSubmits == SmsTypes /\ SmsWaiting /\ SmsCarried /\ SmsVerdicts

\* The goroutines of a delivery that report have stored it.
SmsDelivery(d) ==
    /\ smsWorker[d]["lock"] = 0 /\ smsWorker[d]["uicc"] = 0
    /\ smsWorker[d]["store"] + smsWorker[d]["report"] <= copies[d]
    /\ smsWorker[d]["report"] > 0 => d \in stored

\* The goroutine of a download at the UICC has the lock and no report of it is kept; what was
\* executed has its report, unless that made room.
SmsDownload(d) ==
    /\ smsWorker[d]["store"] = 0 /\ smsWorker[d]["report"] = 0 /\ smsWorker[d]["uicc"] <= 1
    /\ smsWorker[d]["lock"] + smsWorker[d]["uicc"] + executed[d] <= copies[d]
    /\ smsWorker[d]["uicc"] > 0 => downloading = d /\ \A i \in DOMAIN smsKept : smsKept[i] # d
    /\ executed[d] > 0 => d \in evicted \/ \E i \in DOMAIN smsKept : smsKept[i] = d
    /\ d \notin evicted => executed[d] <= 1

SmsInTypes ==
    /\ copies \in [Sms!Inbound -> 0 .. MaxCopies]
    /\ smsWorker \in [Sms!Inbound -> [Sms!Steps -> 0 .. MaxCopies]]
    /\ smsKept \in Seq(Downloads) /\ Len(smsKept) <= Cache /\ downloading \in Downloads \cup {Sms!Unlocked}
    /\ executed \in [Downloads -> 0 .. MaxCopies] /\ evicted \subseteq Downloads
    /\ acked \subseteq stored /\ stored \subseteq Deliveries
SmsReceives ==
    /\ SmsInTypes
    /\ \A d \in Deliveries : SmsDelivery(d)
    /\ \A d \in Downloads : SmsDownload(d)

SmsInv == SmsSubmits /\ SmsReceives


\* Nobody's place, and what a reference that waits holds.
LEMMA SmsPlaces ==
    ASSUME Sms!ImsSmsConstants
    PROVE  /\ Sms!Nobody \notin Sms!Part \cup {Sms!Notice} /\ Sms!Notice \notin Sms!Part
           /\ [for |-> Sms!Nobody, got |-> "none"] \in SmsWaits
           /\ \A w \in SmsWaits : /\ w.for \in Sms!Part \cup {Sms!Notice, Sms!Nobody} /\ w.got \in Sms!Results
                                  /\ w.for = Sms!Nobody => w.got = "none"
           /\ \A f \in Sms!Part \cup {Sms!Notice}, g \in Sms!Results : [for |-> f, got |-> g] \in SmsWaits
           /\ Refs \in Nat /\ Refs > 0 /\ Parts \in Nat /\ MaxCopies \in Nat /\ MaxCopies > 0 /\ Cache \in Nat /\ Cache > 0
  <1>1. Parts \in Nat /\ Refs \in Nat /\ Refs > 0 /\ MaxCopies \in Nat /\ MaxCopies > 0 /\ Cache \in Nat /\ Cache > 0
    BY DEF Sms!ImsSmsConstants
  <1>2. Sms!Nobody \notin Sms!Part \cup {Sms!Notice} /\ Sms!Notice \notin Sms!Part
    BY <1>1 DEF Sms!Nobody, Sms!Part, Sms!Notice
  <1> QED
    BY <1>1, <1>2 DEF SmsWaits, Sms!Results

\* A session starts with nothing under way.
LEMMA SmsInit ==
    ASSUME Sms!ImsSmsConstants, Sms!Init
    PROVE  SmsInv
  <1>1. /\ Refs \in Nat /\ Refs > 0 /\ Parts \in Nat /\ MaxCopies \in Nat /\ MaxCopies > 0 /\ Cache \in Nat /\ Cache > 0
        /\ [for |-> Sms!Nobody, got |-> "none"] \in SmsWaits /\ Sms!Nobody \notin Sms!Part \cup {Sms!Notice}
    BY SmsPlaces
  <1>2. SmsTypes
    <2>1. next \in Sms!Ref /\ guarded \subseteq Sms!Ref /\ pending \in [Sms!Ref -> SmsWaits]
      BY <1>1 DEF Sms!Init, Sms!Ref
    <2>2. smsSender \in SmsSenders
      BY <1>1 DEF Sms!Init, Sms!Load, SmsSenders, Sms!NoRef
    <2>3. notice \in SmsNotices
      BY <1>1 DEF Sms!Init, SmsNotices, Sms!NoRef
    <2> QED
      BY <2>1, <2>2, <2>3 DEF SmsTypes, Sms!Init, Sms!Results
  <1>3. SmsWaiting
    BY <1>1 DEF SmsWaiting, Sms!Init, Sms!Load
  <1>4. SmsCarried /\ SmsVerdicts
    BY DEF SmsCarried, SmsVerdicts, Sms!Init
  <1>5. copies \in [Sms!Inbound -> 0 .. MaxCopies]
    BY <1>1 DEF Sms!Init, Sms!Load
  <1>6. \A d \in Sms!Inbound : copies[d] >= 0 /\ \A s \in Sms!Steps : smsWorker[d][s] = 0
    BY <1>1, <1>5 DEF Sms!Init
  <1>7. \A d \in Deliveries \cup Downloads : d \in Sms!Inbound
    BY DEF Sms!Inbound
  <1>8. smsKept = <<>> /\ Len(<<>>) = 0 /\ smsKept \in Seq(Downloads)
    BY DEF Sms!Init
  <1>9. SmsInTypes
    BY <1>1, <1>5, <1>8 DEF SmsInTypes, Sms!Init, Sms!Unlocked
  <1>10. \A d \in Deliveries : SmsDelivery(d)
    BY <1>6, <1>7, <1>5 DEF SmsDelivery, Sms!Steps
  <1>11. \A d \in Downloads : SmsDownload(d)
    BY <1>6, <1>7, <1>5 DEF SmsDownload, Sms!Steps, Sms!Init
  <1> QED
    BY <1>2, <1>3, <1>4, <1>9, <1>10, <1>11 DEF SmsInv, SmsSubmits, SmsReceives

\* What a reference begun for f leaves: somebody waits for it, and what was under way before is of others.
SmsBegun(f, r) ==
    /\ r \in Sms!Ref /\ pending[r].for = Sms!Nobody /\ r \notin guarded
    /\ next' \in Sms!Ref /\ guarded' = guarded \cup {r}
    /\ pending' = [pending EXCEPT ![r] = [for |-> f, got |-> "none"]]
    /\ flight' = flight \cup {[for |-> f, ref |-> r]}

\* A reference that is taken is begun.
LEMMA SmsBegins ==
    ASSUME Sms!ImsSmsConstants, SmsTypes, NEW f, NEW r \in Sms!Ref, Sms!BeginRP(f, r)
    PROVE  SmsBegun(f, r)
  <1>1. \A j \in Int : j % Refs \in Sms!Ref
    BY SmsPlaces DEF Sms!Ref
  <1>2. PICK k \in 0 .. Refs - 1 : r = Sms!After(next, k) /\ Sms!Free(r) /\ next' = Sms!After(next, k + 1)
    BY DEF Sms!BeginRP
  <1>3. next \in Int /\ k \in Int
    BY SmsPlaces DEF SmsTypes, Sms!Ref
  <1>4. next' \in Sms!Ref
    BY <1>1, <1>2, <1>3 DEF Sms!After
  <1> QED
    BY <1>2, <1>4 DEF SmsBegun, Sms!BeginRP, Sms!Free

\* What a reference begun changes of the waiting: its owner f is new.
LEMMA SmsBegunTypes ==
    ASSUME Sms!ImsSmsConstants, SmsTypes, NEW f \in Sms!Part \cup {Sms!Notice}, NEW r, SmsBegun(f, r)
    PROVE  /\ next' \in Sms!Ref /\ guarded' \subseteq Sms!Ref /\ pending' \in [Sms!Ref -> SmsWaits]
           /\ flight' \subseteq SmsFlights
           /\ pending'[r].for = f /\ pending'[r].got = "none"
           /\ \A s \in Sms!Ref : s # r => pending'[s] = pending[s]
  <1>1. [for |-> f, got |-> "none"] \in SmsWaits
    BY SmsPlaces DEF Sms!Results
  <1>2. [for |-> f, ref |-> r] \in SmsFlights
    BY DEF SmsFlights, SmsBegun
  <1> QED
    BY <1>1, <1>2 DEF SmsBegun, SmsTypes

\* What is under way is of who waits, when a reference is begun for f.
LEMMA SmsBegunCarried ==
    ASSUME Sms!ImsSmsConstants, SmsTypes, SmsCarried, NEW f \in Sms!Part \cup {Sms!Notice}, NEW r, SmsBegun(f, r),
           net' = net, centre' = centre
    PROVE  SmsCarried'
  <1>1. /\ pending'[r].for = f /\ \A s \in Sms!Ref : s # r => pending'[s] = pending[s]
    BY SmsBegunTypes
  <1>2. \A m \in flight \cup net : m.ref \in Sms!Ref /\ m.ref \in guarded
    BY DEF SmsTypes, SmsFlights, SmsResults, SmsCarried
  <1>3. \A m \in flight \cup net : m.ref # r
    BY <1>2 DEF SmsBegun
  <1>4. \A m \in flight \cup net : m.ref \in guarded' /\ (pending'[m.ref].for # Sms!Nobody => m.for = pending'[m.ref].for)
    BY <1>1, <1>2, <1>3 DEF SmsCarried, SmsBegun
  <1>5. \A m \in flight' \cup net' : m \in flight \cup net \/ m = [for |-> f, ref |-> r]
    BY DEF SmsBegun
  <1>6. [for |-> f, ref |-> r].ref = r /\ [for |-> f, ref |-> r].for = f /\ r \in guarded'
    BY DEF SmsBegun
  <1>7. \A m \in net' : centre'[m.for] = IF m.ok THEN "accepted" ELSE "rejected"
    BY DEF SmsCarried
  <1>8. \A m \in flight' \cup net' : m.ref \in guarded' /\ (pending'[m.ref].for # Sms!Nobody => m.for = pending'[m.ref].for)
    BY <1>1, <1>4, <1>5, <1>6
  <1> QED
    BY <1>7, <1>8 DEF SmsCarried

\* SendPart.
LEMMA SmsSends ==
    ASSUME Sms!ImsSmsConstants, SmsSubmits, Sms!SendPart
    PROVE  SmsSubmits'
  <1>1. PICK r \in Sms!Ref : Sms!BeginRP(smsSender.part, r) /\ smsSender' = [smsSender EXCEPT !.pc = "sip", !.ref = r]
    BY DEF Sms!SendPart
  <1> DEFINE p == smsSender.part
  <1>2. /\ smsSender.pc = "idle" /\ p \in Sms!Part /\ smsSender \in SmsSenders
        /\ notice' = notice /\ verdict' = verdict /\ centre' = centre /\ net' = net /\ closed' = closed
    BY DEF Sms!SendPart, SmsSubmits, SmsTypes
  <1>3. SmsBegun(p, r) /\ SmsTypes
    BY <1>1, SmsBegins DEF SmsSubmits
  <1>4. /\ next' \in Sms!Ref /\ guarded' \subseteq Sms!Ref /\ pending' \in [Sms!Ref -> SmsWaits]
        /\ flight' \subseteq SmsFlights
        /\ pending'[r].for = p /\ pending'[r].got = "none"
        /\ \A s \in Sms!Ref : s # r => pending'[s] = pending[s]
    BY <1>2, <1>3, SmsBegunTypes
  <1>5. SmsCarried'
    BY <1>2, <1>3, SmsBegunCarried DEF SmsSubmits
  <1>6. smsSender' \in SmsSenders /\ smsSender'.pc = "sip" /\ smsSender'.ref = r /\ smsSender'.part = p
    <2>1. r \in 0 .. Refs
      BY SmsPlaces DEF Sms!Ref
    <2> QED
      BY <1>1, <1>2, <2>1 DEF SmsSenders
  <1>7. SmsTypes'
    BY <1>2, <1>3, <1>4, <1>6 DEF SmsTypes
  <1>8. \A s \in Sms!Ref : pending[s].for \notin Sms!Part
    BY <1>2 DEF SmsSubmits, SmsWaiting
  <1>9. r \in guarded' /\ guarded \subseteq guarded' /\ pending[r].for = Sms!Nobody
    BY <1>3 DEF SmsBegun
  <1>10. notice.pc \in {"sip", "rp"} => notice.ref # r
    BY <1>9, SmsPlaces DEF SmsSubmits, SmsWaiting
  <1>11. SmsWaiting'
    <2>1. \A s \in Sms!Ref :
              /\ pending'[s].for \in Sms!Part => s = r
              /\ pending'[s].for = Sms!Notice => notice.pc \in {"sip", "rp"} /\ notice.ref = s
              /\ pending'[s].for # Sms!Nobody => s \in guarded'
              /\ pending'[s].got # "none" => centre[pending'[s].for] = pending'[s].got
      BY <1>2, <1>4, <1>8, <1>9, SmsPlaces DEF SmsSubmits, SmsWaiting
    <2>2. notice.pc \in {"sip", "rp"} => notice.ref \in Sms!Ref /\ pending'[notice.ref].for = Sms!Notice
      BY <1>4, <1>10 DEF SmsSubmits, SmsWaiting
    <2> QED
      BY <2>1, <2>2, <1>2, <1>4, <1>6 DEF SmsWaiting
  <1>12. SmsVerdicts'
    <2>1. verdict[p] = "none"
      BY <1>2 DEF SmsSubmits, SmsVerdicts
    <2>2. \A m \in flight' : m \in flight \/ m.for = p
      BY <1>3 DEF SmsBegun
    <2> QED
      BY <2>1, <2>2, <1>2, <1>6 DEF SmsSubmits, SmsVerdicts
  <1> QED
    BY <1>5, <1>7, <1>11, <1>12 DEF SmsSubmits


\* Steps of SendSMS that move it without a reference (Refused, Accepted2xx, NextMessage).
LEMMA SmsMoves ==
    ASSUME Sms!ImsSmsConstants, SmsSubmits, Sms!Refused \/ Sms!Accepted2xx \/ Sms!NextMessage
    PROVE  SmsSubmits'
  <1>1. /\ next' = next /\ pending' = pending /\ guarded' = guarded /\ notice' = notice /\ verdict' = verdict
        /\ centre' = centre /\ flight' = flight /\ net' = net /\ closed' = closed
    BY DEF Sms!Refused, Sms!Accepted2xx, Sms!NextMessage
  <1>2. /\ smsSender' \in SmsSenders
        /\ smsSender'.pc \in {"sip", "rp"} => smsSender.pc \in {"sip", "rp"} /\ smsSender'.ref = smsSender.ref
                                                 /\ smsSender'.part = smsSender.part
        /\ smsSender.pc \in {"sip", "rp"} => smsSender'.pc \in {"sip", "rp"}
        /\ smsSender'.part >= smsSender.part /\ smsSender.part \in Nat /\ smsSender'.part \in Nat
        /\ smsSender'.part = smsSender.part /\ smsSender'.pc # "stopped" => smsSender.pc # "stopped"
    <2>1. smsSender \in SmsSenders /\ Parts \in Nat /\ Refs \in Nat
      BY SmsPlaces DEF SmsSubmits, SmsTypes
    <2>2. CASE Sms!Refused
      BY <2>1, <2>2 DEF Sms!Refused, SmsSenders
    <2>3. CASE Sms!Accepted2xx
      BY <2>1, <2>3 DEF Sms!Accepted2xx, SmsSenders
    <2>4. CASE Sms!NextMessage
      BY <2>1, <2>4 DEF Sms!NextMessage, SmsSenders, Sms!NoRef
    <2> QED
      BY <2>2, <2>3, <2>4
  <1>3. SmsTypes'
    BY <1>1, <1>2 DEF SmsSubmits, SmsTypes
  <1>4. SmsWaiting'
    BY <1>1, <1>2 DEF SmsSubmits, SmsWaiting
  <1>5. SmsCarried'
    BY <1>1 DEF SmsSubmits, SmsCarried
  <1>6. SmsVerdicts'
    BY <1>1, <1>2 DEF SmsSubmits, SmsVerdicts, Sms!Part
  <1> QED
    BY <1>3, <1>4, <1>5, <1>6 DEF SmsSubmits

\* A part ends with the verdict v, of whose MESSAGE nothing is under way if nobody took it before.
LEMMA SmsPartEnds ==
    ASSUME Sms!ImsSmsConstants, SmsSubmits, NEW v, Sms!PartEnds(v), smsSender.pc \in {"sip", "rp"},
           v \in {"accepted", "rejected", "failed"},
           v = "accepted" => centre[smsSender.part] = "accepted",
           v = "rejected" => centre[smsSender.part] = "rejected"
                                \/ (centre[smsSender.part] = "none" /\ \A m \in flight' : m.for # smsSender.part),
           flight' \subseteq flight
    PROVE  SmsSubmits'
  <1> DEFINE p == smsSender.part
             r == smsSender.ref
  <1>1. /\ next' = next /\ guarded' = guarded /\ notice' = notice /\ centre' = centre /\ net' = net /\ closed' = closed
        /\ verdict' = [verdict EXCEPT ![p] = v]
        /\ pending' = [pending EXCEPT ![r] = [for |-> Sms!Nobody, got |-> "none"]]
        /\ smsSender' = IF v = "accepted" THEN [pc |-> "idle", ref |-> Sms!NoRef, part |-> p + 1]
                                        ELSE [smsSender EXCEPT !.pc = "stopped", !.ref = Sms!NoRef]
    BY DEF Sms!PartEnds, Sms!EndRP
  <1>2. /\ smsSender \in SmsSenders /\ r \in Sms!Ref /\ p \in Sms!Part /\ pending[r].for = p
        /\ Refs \in Nat /\ Parts \in Nat
    BY SmsPlaces DEF SmsSubmits, SmsTypes, SmsWaiting
  <1>3. /\ smsSender' \in SmsSenders /\ smsSender'.pc \notin {"sip", "rp"}
        /\ smsSender'.part >= p
        /\ smsSender'.part = p => smsSender'.pc = "stopped"
        /\ smsSender'.part \in Nat /\ p \in Nat
    <2>1. p \in Nat /\ p + 1 \in 1 .. Parts + 1 /\ Refs \in 0 .. Refs /\ p \in 1 .. Parts + 1
      BY <1>2 DEF Sms!Part
    <2>2. CASE v = "accepted"
      BY <1>1, <1>2, <2>1, <2>2 DEF SmsSenders, Sms!NoRef
    <2>3. CASE v # "accepted"
      <3>1. smsSender' = [smsSender EXCEPT !.pc = "stopped", !.ref = Refs]
        BY <1>1, <2>3 DEF Sms!NoRef
      <3>2. smsSender \in SmsSenders /\ Refs \in 0 .. Refs
        BY <1>2, <2>1
      <3>3. smsSender' \in SmsSenders /\ smsSender'.pc = "stopped" /\ smsSender'.part = smsSender.part
        BY <3>1, <3>2 DEF SmsSenders
      <3> QED
        BY <2>1, <3>3
    <2> QED
      BY <2>2, <2>3
  <1>4. pending' \in [Sms!Ref -> SmsWaits] /\ pending'[r].for = Sms!Nobody /\ pending'[r].got = "none"
        /\ \A s \in Sms!Ref : s # r => pending'[s] = pending[s]
    BY <1>1, <1>2, SmsPlaces DEF SmsSubmits, SmsTypes
  <1>5. /\ verdict' \in [Sms!Part -> Sms!Results \cup {"failed"}]
        /\ verdict'[p] = v /\ \A q \in Sms!Part : q # p => verdict'[q] = verdict[q]
    BY <1>1, <1>2 DEF SmsSubmits, SmsTypes, Sms!Results
  <1>6. SmsTypes'
    BY <1>1, <1>3, <1>4, <1>5 DEF SmsSubmits, SmsTypes
  <1>7. \A s \in Sms!Ref : pending[s].for \in Sms!Part => s = r
    BY DEF SmsSubmits, SmsWaiting
  <1>8. SmsWaiting'
    <2>1. \A s \in Sms!Ref : pending'[s].for \notin Sms!Part
      BY <1>4, <1>7, SmsPlaces
    <2>2. \A s \in Sms!Ref : /\ pending'[s].for = Sms!Notice => notice'.pc \in {"sip", "rp"} /\ notice'.ref = s
                             /\ pending'[s].for # Sms!Nobody => s \in guarded'
                             /\ pending'[s].got # "none" => centre'[pending'[s].for] = pending'[s].got
      BY <1>1, <1>4, SmsPlaces DEF SmsSubmits, SmsWaiting
    <2>3. notice'.pc \in {"sip", "rp"} => notice'.ref \in Sms!Ref /\ pending'[notice'.ref].for = Sms!Notice
      BY <1>1, <1>2, <1>4, SmsPlaces DEF SmsSubmits, SmsWaiting
    <2> QED
      BY <2>1, <2>2, <2>3, <1>3 DEF SmsWaiting
  <1>9. SmsCarried'
    <2>1. \A m \in flight \cup net : m.ref \in Sms!Ref
      BY DEF SmsSubmits, SmsTypes, SmsFlights, SmsResults
    <2>2. \A m \in flight \cup net :
              m.ref \in guarded' /\ (pending'[m.ref].for # Sms!Nobody => m.for = pending'[m.ref].for)
      BY <2>1, <1>1, <1>4 DEF SmsSubmits, SmsCarried
    <2>3. flight' \cup net' \subseteq flight \cup net
      BY <1>1
    <2>4. \A m \in net' : centre'[m.for] = IF m.ok THEN "accepted" ELSE "rejected"
      BY <1>1 DEF SmsSubmits, SmsCarried
    <2> QED
      BY <2>2, <2>3, <2>4 DEF SmsCarried
  <1>10. SmsVerdicts'
    BY <1>1, <1>3, <1>5 DEF SmsSubmits, SmsVerdicts, Sms!Part
  <1> QED
    BY <1>6, <1>8, <1>9, <1>10 DEF SmsSubmits

\* SipFails and AwaitRP.
LEMMA SmsEnds ==
    ASSUME Sms!ImsSmsConstants, SmsSubmits, Sms!SipFails \/ Sms!AwaitRP
    PROVE  SmsSubmits'
  <1> DEFINE p == smsSender.part
  <1>1. CASE Sms!SipFails
    <2>1. smsSender.pc = "sip" /\ p \in Sms!Part
      BY <1>1 DEF Sms!SipFails, SmsSubmits, SmsWaiting
    <2>2. flight' = IF verdict'[p] = "rejected" THEN {m \in flight : m.for # p} ELSE flight
      BY <1>1 DEF Sms!SipFails
    <2>3. flight' \subseteq flight
      BY <2>2
    <2>4. CASE Sms!PartEnds("failed")
      BY <2>1, <2>3, <2>4, SmsPartEnds
    <2>5. CASE centre[p] = "none" /\ Sms!PartEnds("rejected")
      <3>1. verdict'[p] = "rejected"
        BY <2>1, <2>5 DEF Sms!PartEnds, SmsSubmits, SmsTypes
      <3>2. \A m \in flight' : m.for # p
        BY <3>1, <2>2
      <3> QED
        BY <2>1, <2>3, <2>5, <3>2, SmsPartEnds
    <2> QED
      BY <2>4, <2>5, <1>1 DEF Sms!SipFails
  <1>2. CASE Sms!AwaitRP
    <2>1. /\ smsSender.pc = "rp" /\ flight' = flight /\ smsSender.ref \in Sms!Ref
          /\ pending[smsSender.ref].for = p
      BY <1>2 DEF Sms!AwaitRP, SmsSubmits, SmsWaiting
    <2>2. CASE Sms!PartEnds("failed")
      BY <2>1, <2>2, SmsPartEnds
    <2>3. CASE pending[smsSender.ref].got # "none" /\ Sms!PartEnds(pending[smsSender.ref].got)
      <3>1. centre[p] = pending[smsSender.ref].got
        BY <2>1, <2>3 DEF SmsSubmits, SmsWaiting
      <3>2. pending[smsSender.ref].got \in {"accepted", "rejected"}
        BY <2>1, <2>3, SmsPlaces DEF SmsSubmits, SmsTypes, Sms!Results
      <3> QED
        BY <2>1, <2>3, <3>1, <3>2, SmsPartEnds
    <2> QED
      BY <2>2, <2>3, <1>2 DEF Sms!AwaitRP
  <1> QED
    BY <1>1, <1>2

\* The guard of a reference ends, with what was under way of it (GuardEnds).
LEMMA SmsGuardEnds ==
    ASSUME Sms!ImsSmsConstants, SmsSubmits, NEW r \in Sms!Ref, Sms!GuardEnds(r)
    PROVE  SmsSubmits'
  <1>1. /\ pending[r].for = Sms!Nobody /\ guarded' = guarded \ {r}
        /\ net' = {m \in net : m.ref # r} /\ flight' = {m \in flight : m.ref # r}
        /\ next' = next /\ pending' = pending /\ smsSender' = smsSender /\ notice' = notice /\ verdict' = verdict
        /\ centre' = centre /\ closed' = closed
    BY DEF Sms!GuardEnds
  <1>2. SmsTypes'
    BY <1>1 DEF SmsSubmits, SmsTypes
  <1>3. SmsWaiting'
    BY <1>1 DEF SmsSubmits, SmsWaiting
  <1>4. SmsCarried'
    BY <1>1 DEF SmsSubmits, SmsCarried
  <1>5. SmsVerdicts'
    BY <1>1 DEF SmsSubmits, SmsVerdicts
  <1> QED
    BY <1>2, <1>3, <1>4, <1>5 DEF SmsSubmits

\* A result reaches who waits for its reference (receiveRPResult).
LEMMA SmsResultArrives ==
    ASSUME Sms!ImsSmsConstants, SmsSubmits, NEW m \in net, Sms!Receive(m)
    PROVE  SmsSubmits'
  <1> DEFINE r == m.ref
             g == IF m.ok THEN "accepted" ELSE "rejected"
  <1>1. /\ pending[r].for # Sms!Nobody /\ pending' = [pending EXCEPT ![r].got = g]
        /\ next' = next /\ guarded' = guarded /\ smsSender' = smsSender /\ notice' = notice /\ verdict' = verdict
        /\ centre' = centre /\ flight' = flight /\ net' = net /\ closed' = closed
    BY DEF Sms!Receive
  <1>2. r \in Sms!Ref /\ m.for = pending[r].for /\ centre[m.for] = g /\ g \in Sms!Results
    BY <1>1 DEF SmsSubmits, SmsTypes, SmsCarried, SmsResults, Sms!Results
  <1>3. [pending[r] EXCEPT !.got = g] \in SmsWaits /\ [pending[r] EXCEPT !.got = g].for = pending[r].for
        /\ [pending[r] EXCEPT !.got = g].got = g
    BY <1>1, <1>2 DEF SmsSubmits, SmsTypes, SmsWaits
  <1>4. /\ pending' \in [Sms!Ref -> SmsWaits] /\ pending'[r].got = g
        /\ \A s \in Sms!Ref : pending'[s].for = pending[s].for /\ (s # r => pending'[s] = pending[s])
    BY <1>1, <1>2, <1>3 DEF SmsSubmits, SmsTypes
  <1>5. SmsTypes'
    BY <1>1, <1>4 DEF SmsSubmits, SmsTypes
  <1>6. SmsWaiting'
    BY <1>1, <1>2, <1>4 DEF SmsSubmits, SmsWaiting
  <1>7. SmsCarried'
    <2>1. \A n \in flight \cup net : n.ref \in Sms!Ref
      BY DEF SmsSubmits, SmsTypes, SmsFlights, SmsResults
    <2> QED
      BY <2>1, <1>1, <1>4 DEF SmsSubmits, SmsCarried
  <1>8. SmsVerdicts'
    BY <1>1 DEF SmsSubmits, SmsVerdicts
  <1> QED
    BY <1>5, <1>6, <1>7, <1>8 DEF SmsSubmits

\* The service centre decides, once.
LEMMA SmsDecided ==
    ASSUME Sms!ImsSmsConstants, SmsSubmits, NEW m \in flight, Sms!CentreTakes(m)
    PROVE  SmsSubmits'
  <1>1. PICK ok \in BOOLEAN, back \in BOOLEAN :
            /\ centre' = [centre EXCEPT ![m.for] = IF ok THEN "accepted" ELSE "rejected"]
            /\ net' = net \cup {[ref |-> m.ref, for |-> m.for, ok |-> ok, reply |-> back]}
    BY DEF Sms!CentreTakes
  <1> DEFINE n == [ref |-> m.ref, for |-> m.for, ok |-> ok, reply |-> back]
  <1>2. /\ centre[m.for] = "none"
        /\ next' = next /\ pending' = pending /\ guarded' = guarded /\ smsSender' = smsSender /\ notice' = notice
        /\ verdict' = verdict /\ flight' = flight /\ closed' = closed
    BY DEF Sms!CentreTakes
  <1>3. m.ref \in Sms!Ref /\ m.for \in Sms!Part \cup {Sms!Notice}
    BY DEF SmsSubmits, SmsTypes, SmsFlights
  <1>4. n \in SmsResults /\ n.ref = m.ref /\ n.for = m.for /\ n.ok = ok
    BY <1>3 DEF SmsResults
  <1>5. /\ centre' \in [Sms!Part \cup {Sms!Notice} -> Sms!Results]
        /\ centre'[m.for] = IF ok THEN "accepted" ELSE "rejected"
        /\ \A f \in Sms!Part \cup {Sms!Notice} : f # m.for => centre'[f] = centre[f]
    BY <1>1, <1>3 DEF SmsSubmits, SmsTypes, Sms!Results
  <1>6. SmsTypes'
    BY <1>1, <1>2, <1>4, <1>5 DEF SmsSubmits, SmsTypes
  <1>7. SmsWaiting'
    <2>1. \A s \in Sms!Ref : pending[s].got # "none" => pending[s].for \in Sms!Part \cup {Sms!Notice}
      BY SmsPlaces DEF SmsSubmits, SmsTypes
    <2>2. \A s \in Sms!Ref : pending[s].got # "none" => centre[pending[s].for] # "none"
      BY DEF SmsSubmits, SmsWaiting
    <2>3. \A s \in Sms!Ref : pending'[s].got # "none" => centre'[pending'[s].for] = pending'[s].got
      BY <1>2, <1>5, <2>1, <2>2 DEF SmsSubmits, SmsWaiting
    <2> QED
      BY <1>2, <2>3 DEF SmsSubmits, SmsWaiting
  <1>8. SmsCarried'
    <2>1. \A x \in net : x.for \in Sms!Part \cup {Sms!Notice} /\ centre[x.for] # "none"
      BY DEF SmsSubmits, SmsTypes, SmsResults, SmsCarried
    <2>2. \A x \in net : centre'[x.for] = IF x.ok THEN "accepted" ELSE "rejected"
      BY <1>2, <1>5, <2>1 DEF SmsSubmits, SmsCarried
    <2>3. \A x \in net' : centre'[x.for] = IF x.ok THEN "accepted" ELSE "rejected"
      BY <1>1, <1>4, <1>5, <2>2
    <2>4. \A x \in flight \cup net : x.ref \in guarded /\ (pending[x.ref].for # Sms!Nobody => x.for = pending[x.ref].for)
      BY DEF SmsSubmits, SmsCarried
    <2>5. \A x \in flight' \cup net' : x.ref \in guarded' /\ (pending'[x.ref].for # Sms!Nobody => x.for = pending'[x.ref].for)
      BY <1>1, <1>2, <1>4, <2>4
    <2> QED
      BY <2>3, <2>5 DEF SmsCarried
  <1>9. SmsVerdicts'
    <2>1. \A p \in Sms!Part : p # m.for => centre'[p] = centre[p]
      BY <1>5
    <2>2. m.for \in Sms!Part => verdict[m.for] \notin {"accepted", "rejected"}
      BY <1>2 DEF SmsSubmits, SmsVerdicts
    <2> QED
      BY <1>2, <2>1, <2>2 DEF SmsSubmits, SmsVerdicts
  <1> QED
    BY <1>6, <1>7, <1>8, <1>9 DEF SmsSubmits


\* The notice takes a reference, waits and ends; a report asks for it (NoticeSends, NoticeWaits,
\* NoticeEnds, Report).
LEMMA SmsNoticeSends ==
    ASSUME Sms!ImsSmsConstants, SmsSubmits, Sms!NoticeSends
    PROVE  SmsSubmits'
  <1>1. /\ notice.pc = "idle" /\ notice \in SmsNotices /\ smsSender' = smsSender /\ verdict' = verdict
        /\ centre' = centre /\ net' = net /\ closed' = closed
    BY DEF Sms!NoticeSends, SmsSubmits, SmsTypes
  <1>2. CASE /\ notice' = [notice EXCEPT !.pc = "done"]
             /\ next' = next /\ pending' = pending /\ guarded' = guarded /\ flight' = flight
    <2>1. notice' \in SmsNotices /\ notice'.pc = "done"
      BY <1>1, <1>2 DEF SmsNotices
    <2>2. SmsTypes'
      BY <1>1, <1>2, <2>1 DEF SmsSubmits, SmsTypes
    <2>3. SmsWaiting'
      BY <1>1, <1>2, <2>1 DEF SmsSubmits, SmsWaiting
    <2>4. SmsCarried' /\ SmsVerdicts'
      BY <1>1, <1>2 DEF SmsSubmits, SmsCarried, SmsVerdicts
    <2> QED
      BY <2>2, <2>3, <2>4 DEF SmsSubmits
  <1>3. ASSUME NEW r \in Sms!Ref, Sms!BeginRP(Sms!Notice, r), notice' = [pc |-> "sip", ref |-> r]
        PROVE  SmsSubmits'
    <2>1. SmsBegun(Sms!Notice, r) /\ SmsTypes
      BY <1>3, SmsBegins DEF SmsSubmits
    <2>2. /\ next' \in Sms!Ref /\ guarded' \subseteq Sms!Ref /\ pending' \in [Sms!Ref -> SmsWaits]
          /\ flight' \subseteq SmsFlights
          /\ pending'[r].for = Sms!Notice /\ pending'[r].got = "none"
          /\ \A s \in Sms!Ref : s # r => pending'[s] = pending[s]
      BY <2>1, SmsBegunTypes
    <2>3. SmsCarried'
      BY <1>1, <2>1, SmsBegunCarried DEF SmsSubmits
    <2>4. notice' \in SmsNotices /\ notice'.pc = "sip" /\ notice'.ref = r
      <3>1. r \in 0 .. Refs
        BY SmsPlaces DEF Sms!Ref
      <3> QED
        BY <1>3, <3>1 DEF SmsNotices
    <2>5. SmsTypes'
      BY <1>1, <2>1, <2>2, <2>4 DEF SmsTypes
    <2>6. \A s \in Sms!Ref : pending[s].for # Sms!Notice
      BY <1>1 DEF SmsSubmits, SmsWaiting
    <2>7. r \in guarded' /\ guarded \subseteq guarded' /\ pending[r].for = Sms!Nobody
      BY <2>1 DEF SmsBegun
    <2>8. smsSender.pc \in {"sip", "rp"} => smsSender.ref # r
      BY <2>7, SmsPlaces DEF SmsSubmits, SmsWaiting
    <2>9. SmsWaiting'
      <3>1. \A s \in Sms!Ref :
                /\ pending'[s].for = Sms!Notice => s = r
                /\ pending'[s].for \in Sms!Part =>
                       smsSender.pc \in {"sip", "rp"} /\ smsSender.ref = s /\ smsSender.part = pending'[s].for
                /\ pending'[s].for # Sms!Nobody => s \in guarded'
                /\ pending'[s].got # "none" => centre[pending'[s].for] = pending'[s].got
        BY <2>2, <2>6, <2>7, SmsPlaces DEF SmsSubmits, SmsWaiting
      <3>2. smsSender.pc \in {"sip", "rp"} =>
                smsSender.ref \in Sms!Ref /\ smsSender.part \in Sms!Part /\ pending'[smsSender.ref].for = smsSender.part
        BY <2>2, <2>8 DEF SmsSubmits, SmsWaiting
      <3> QED
        BY <3>1, <3>2, <1>1, <2>2, <2>4 DEF SmsWaiting
    <2>10. SmsVerdicts'
      <3>1. \A m \in flight' : m \in flight \/ m.for = Sms!Notice
        BY <2>1 DEF SmsBegun
      <3>2. \A p \in Sms!Part : p # Sms!Notice
        BY SmsPlaces
      <3> QED
        BY <3>1, <3>2, <1>1 DEF SmsSubmits, SmsVerdicts
    <2> QED
      BY <2>3, <2>5, <2>9, <2>10 DEF SmsSubmits
  <1> QED
    BY <1>2, <1>3 DEF Sms!NoticeSends

\* Other steps of the notice.
LEMMA SmsNoticeMoves ==
    ASSUME Sms!ImsSmsConstants, SmsSubmits,
           /\ next' = next /\ guarded' = guarded /\ smsSender' = smsSender /\ verdict' = verdict
           /\ centre' = centre /\ flight' = flight /\ net' = net /\ closed' = closed,
           \/ notice.pc = "sip" /\ notice' = [notice EXCEPT !.pc = "rp"] /\ pending' = pending
           \/ notice.pc = "none" /\ notice' = [notice EXCEPT !.pc = "idle"] /\ pending' = pending
           \/ /\ notice.pc \in {"sip", "rp"} /\ notice' = [pc |-> "done", ref |-> Sms!NoRef]
              /\ Sms!EndRP(notice.ref)
    PROVE  SmsSubmits'
  <1>1. /\ notice \in SmsNotices /\ Refs \in 0 .. Refs
        /\ notice.pc \in {"sip", "rp"} => notice.ref \in Sms!Ref /\ pending[notice.ref].for = Sms!Notice
    BY SmsPlaces DEF SmsSubmits, SmsTypes, SmsWaiting
  <1>2. CASE pending' = pending
    <2>1. /\ notice' \in SmsNotices
          /\ notice'.pc \in {"sip", "rp"} <=> notice.pc \in {"sip", "rp"}
          /\ notice.pc \in {"sip", "rp"} => notice'.ref = notice.ref
      <3>1. CASE notice.pc = "sip" /\ notice' = [notice EXCEPT !.pc = "rp"]
        BY <3>1, <1>1 DEF SmsNotices
      <3>2. CASE notice.pc = "none" /\ notice' = [notice EXCEPT !.pc = "idle"]
        BY <3>2, <1>1 DEF SmsNotices
      <3>3. CASE notice.pc \in {"sip", "rp"} /\ Sms!EndRP(notice.ref)
        <4>1. pending'[notice.ref] = [for |-> Sms!Nobody, got |-> "none"]
          BY <3>3, <1>1 DEF Sms!EndRP, SmsSubmits, SmsTypes
        <4>2. pending'[notice.ref].for = Sms!Nobody /\ pending[notice.ref].for = Sms!Notice
          BY <4>1, <3>3, <1>1
        <4> QED
          BY <4>2, <1>2, SmsPlaces
      <3> QED
        BY <3>1, <3>2, <3>3
    <2>2. SmsTypes'
      BY <1>2, <2>1 DEF SmsSubmits, SmsTypes
    <2>3. SmsWaiting'
      BY <1>2, <2>1 DEF SmsSubmits, SmsWaiting
    <2>4. SmsCarried' /\ SmsVerdicts'
      BY <1>2 DEF SmsSubmits, SmsCarried, SmsVerdicts
    <2> QED
      BY <2>2, <2>3, <2>4 DEF SmsSubmits
  <1>3. CASE /\ notice.pc \in {"sip", "rp"} /\ notice' = [pc |-> "done", ref |-> Sms!NoRef]
             /\ Sms!EndRP(notice.ref)
    <2> DEFINE r == notice.ref
    <2>1. notice' \in SmsNotices /\ notice'.pc = "done"
      BY <1>1, <1>3 DEF SmsNotices, Sms!NoRef
    <2>2. pending' \in [Sms!Ref -> SmsWaits] /\ pending'[r].for = Sms!Nobody /\ pending'[r].got = "none"
          /\ \A s \in Sms!Ref : s # r => pending'[s] = pending[s]
      BY <1>1, <1>3, SmsPlaces DEF SmsSubmits, SmsTypes, Sms!EndRP
    <2>3. SmsTypes'
      BY <2>1, <2>2 DEF SmsSubmits, SmsTypes
    <2>4. \A s \in Sms!Ref : pending[s].for = Sms!Notice => s = r
      BY DEF SmsSubmits, SmsWaiting
    <2>5. SmsWaiting'
      <3>1. \A s \in Sms!Ref :
                /\ pending'[s].for # Sms!Notice
                /\ pending'[s].for \in Sms!Part =>
                       smsSender.pc \in {"sip", "rp"} /\ smsSender.ref = s /\ smsSender.part = pending'[s].for
                /\ pending'[s].for # Sms!Nobody => s \in guarded
                /\ pending'[s].got # "none" => centre[pending'[s].for] = pending'[s].got
        BY <2>2, <2>4, SmsPlaces DEF SmsSubmits, SmsWaiting
      <3>2. smsSender.pc \in {"sip", "rp"} =>
                smsSender.ref \in Sms!Ref /\ smsSender.part \in Sms!Part /\ pending'[smsSender.ref].for = smsSender.part
        BY <1>1, <1>3, <2>2, SmsPlaces DEF SmsSubmits, SmsWaiting
      <3> QED
        BY <3>1, <3>2, <2>1 DEF SmsWaiting
    <2>6. SmsCarried'
      <3>1. \A m \in flight \cup net : m.ref \in Sms!Ref
        BY DEF SmsSubmits, SmsTypes, SmsFlights, SmsResults
      <3> QED
        BY <3>1, <2>2 DEF SmsSubmits, SmsCarried
    <2>7. SmsVerdicts'
      BY DEF SmsSubmits, SmsVerdicts
    <2> QED
      BY <2>3, <2>5, <2>6, <2>7 DEF SmsSubmits
  <1> QED
    BY <1>2, <1>3

\* The inbound goroutines leave the submissions alone, and the other way round.
LEMMA SmsSubmitsApart ==
    ASSUME SmsSubmits, Sms!rpVars' = Sms!rpVars, closed' \in BOOLEAN
    PROVE  SmsSubmits'
  <1>1. SmsTypes'
    BY DEF SmsSubmits, SmsTypes, Sms!rpVars
  <1>2. SmsWaiting' /\ SmsCarried' /\ SmsVerdicts'
    BY DEF SmsSubmits, SmsWaiting, SmsCarried, SmsVerdicts, Sms!rpVars
  <1> QED
    BY <1>1, <1>2 DEF SmsSubmits

\* And what they work on is left alone by the submissions.
LEMMA SmsReceivesApart ==
    ASSUME SmsReceives, Sms!inVars' = Sms!inVars
    PROVE  SmsReceives'
  BY DEF SmsReceives, SmsInTypes, SmsDelivery, SmsDownload, Sms!inVars

\* What becomes of the goroutines of a message d: others' stay where they are.
SmsRow(d, g) ==
    /\ smsWorker' \in [Sms!Inbound -> [Sms!Steps -> 0 .. MaxCopies]]
    /\ smsWorker'[d] = g /\ \A x \in Sms!Inbound : x # d => smsWorker'[x] = smsWorker[x]

\* A goroutine leaves a step, or moves from it to another; the total does not grow.
LEMMA SmsLeaves ==
    ASSUME Sms!ImsSmsConstants, SmsInTypes, NEW d \in Sms!Inbound, NEW s \in Sms!Steps, Sms!Leaves(d, s), Sms!At(d, s)
    PROVE  /\ SmsRow(d, [smsWorker[d] EXCEPT ![s] = @ - 1])
           /\ smsWorker[d] \in [Sms!Steps -> 0 .. MaxCopies]
  <1>1. smsWorker[d] \in [Sms!Steps -> 0 .. MaxCopies] /\ MaxCopies \in Nat /\ smsWorker[d][s] > 0
    BY SmsPlaces DEF SmsInTypes, Sms!At
  <1>2. smsWorker[d][s] - 1 \in 0 .. MaxCopies
    BY <1>1
  <1>3. [smsWorker[d] EXCEPT ![s] = @ - 1] \in [Sms!Steps -> 0 .. MaxCopies]
    BY <1>1, <1>2
  <1>4. smsWorker' = [smsWorker EXCEPT ![d] = [smsWorker[d] EXCEPT ![s] = @ - 1]]
    BY DEF Sms!Leaves
  <1> QED
    BY <1>1, <1>3, <1>4 DEF SmsRow, SmsInTypes

\* The same for a move to the step t, which cannot hold more than there are copies.
LEMMA SmsMovesOn ==
    ASSUME Sms!ImsSmsConstants, SmsInTypes, NEW d \in Sms!Inbound, NEW s \in Sms!Steps, NEW t \in Sms!Steps, s # t,
           Sms!Moves(d, s, t), Sms!At(d, s), smsWorker[d][t] < MaxCopies
    PROVE  /\ SmsRow(d, [smsWorker[d] EXCEPT ![s] = @ - 1, ![t] = @ + 1])
           /\ smsWorker[d] \in [Sms!Steps -> 0 .. MaxCopies]
  <1>1. smsWorker[d] \in [Sms!Steps -> 0 .. MaxCopies] /\ MaxCopies \in Nat /\ smsWorker[d][s] > 0
    BY SmsPlaces DEF SmsInTypes, Sms!At
  <1>2. smsWorker[d][s] - 1 \in 0 .. MaxCopies /\ smsWorker[d][t] + 1 \in 0 .. MaxCopies
    BY <1>1
  <1>3. [smsWorker[d] EXCEPT ![s] = @ - 1, ![t] = @ + 1] \in [Sms!Steps -> 0 .. MaxCopies]
    BY <1>1, <1>2
  <1>4. smsWorker' = [smsWorker EXCEPT ![d] = [smsWorker[d] EXCEPT ![s] = @ - 1, ![t] = @ + 1]]
    BY <1>1 DEF Sms!Moves, SmsInTypes
  <1> QED
    BY <1>1, <1>3, <1>4 DEF SmsRow, SmsInTypes


\* Another message's goroutines keep what holds of them.
LEMMA SmsOthers ==
    ASSUME NEW d \in Sms!Inbound, smsWorker'[d] = smsWorker[d], copies'[d] = copies[d]
    PROVE  /\ d \in Deliveries /\ SmsDelivery(d) /\ stored \subseteq stored' => SmsDelivery(d)'
           /\ d \in Downloads /\ SmsDownload(d) /\ executed'[d] = executed[d] /\ smsKept' = smsKept
                /\ evicted' = evicted /\ (smsWorker[d]["uicc"] > 0 => downloading' = downloading) => SmsDownload(d)'
  BY DEF SmsDelivery, SmsDownload

\* A copy of a message arrives.
LEMMA SmsArrives ==
    ASSUME Sms!ImsSmsConstants, SmsReceives, NEW d \in Sms!Inbound, Sms!Arrives(d)
    PROVE  SmsReceives'
  <1> DEFINE s == IF d \in Downloads THEN "lock" ELSE "store"
  <1>1. /\ copies[d] < MaxCopies /\ copies' = [copies EXCEPT ![d] = @ + 1]
        /\ smsWorker' = [smsWorker EXCEPT ![d] = [smsWorker[d] EXCEPT ![s] = @ + 1]]
        /\ smsKept' = smsKept /\ downloading' = downloading /\ executed' = executed /\ evicted' = evicted
        /\ stored' = stored /\ acked' = acked
    BY DEF Sms!Arrives
  <1>2. s \in Sms!Steps /\ SmsInTypes /\ MaxCopies \in Nat
    BY SmsPlaces DEF Sms!Steps, SmsReceives
  <1>3. smsWorker[d] \in [Sms!Steps -> 0 .. MaxCopies] /\ copies[d] \in 0 .. MaxCopies
    BY <1>2 DEF SmsInTypes
  <1>4. /\ d \in Deliveries => SmsDelivery(d) /\ d \notin Downloads
        /\ d \in Downloads => SmsDownload(d) /\ executed[d] \in 0 .. MaxCopies
        /\ d \in Deliveries \cup Downloads
    BY <1>2 DEF SmsReceives, SmsInTypes, Sms!Inbound, Sms!ImsSmsConstants
  <1>5. smsWorker[d][s] < MaxCopies
    <2>1. /\ smsWorker[d]["lock"] \in Nat /\ smsWorker[d]["uicc"] \in Nat /\ smsWorker[d]["report"] \in Nat
          /\ smsWorker[d]["store"] \in Nat /\ copies[d] \in Nat
      BY <1>2, <1>3 DEF Sms!Steps
    <2>2. CASE d \in Downloads
      BY <2>1, <2>2, <1>1, <1>2, <1>4 DEF SmsDownload
    <2>3. CASE d \notin Downloads
      BY <2>1, <2>3, <1>1, <1>2, <1>4 DEF SmsDelivery
    <2> QED
      BY <2>2, <2>3
  <1>6. [smsWorker[d] EXCEPT ![s] = @ + 1] \in [Sms!Steps -> 0 .. MaxCopies]
    BY <1>2, <1>3, <1>5
  <1>7. SmsRow(d, [smsWorker[d] EXCEPT ![s] = @ + 1])
    BY <1>1, <1>2, <1>6 DEF SmsRow, SmsInTypes
  <1>8. copies' \in [Sms!Inbound -> 0 .. MaxCopies] /\ copies'[d] = copies[d] + 1
        /\ \A x \in Sms!Inbound : x # d => copies'[x] = copies[x]
    BY <1>1, <1>2, <1>3 DEF SmsInTypes
  <1>9. SmsInTypes'
    BY <1>1, <1>2, <1>7, <1>8 DEF SmsInTypes, SmsRow
  <1>10. \A x \in Deliveries \cup Downloads : x \in Sms!Inbound
    BY DEF Sms!Inbound
  <1>11. \A x \in Deliveries : SmsDelivery(x)'
    <2> SUFFICES ASSUME NEW x \in Deliveries PROVE SmsDelivery(x)'
      OBVIOUS
    <2>1. CASE x = d
      BY <2>1, <1>1, <1>3, <1>4, <1>7, <1>8 DEF SmsDelivery, SmsRow, Sms!Steps
    <2>2. CASE x # d
      BY <2>2, <1>1, <1>7, <1>8, <1>10, SmsOthers DEF SmsReceives, SmsRow
    <2> QED
      BY <2>1, <2>2
  <1>12. \A x \in Downloads : SmsDownload(x)'
    <2> SUFFICES ASSUME NEW x \in Downloads PROVE SmsDownload(x)'
      OBVIOUS
    <2>1. CASE x = d
      BY <2>1, <1>1, <1>3, <1>4, <1>7, <1>8 DEF SmsDownload, SmsRow, Sms!Steps
    <2>2. CASE x # d
      BY <2>2, <1>1, <1>7, <1>8, <1>10, SmsOthers DEF SmsReceives, SmsRow
    <2> QED
      BY <2>1, <2>2
  <1> QED
    BY <1>9, <1>11, <1>12 DEF SmsReceives

\* A delivery is stored, or not, and reported.
LEMMA SmsWorks ==
    ASSUME Sms!ImsSmsConstants, SmsReceives, NEW d \in Deliveries, Sms!Store(d) \/ Sms!Report(d)
    PROVE  SmsReceives'
  <1>1. /\ copies' = copies /\ smsKept' = smsKept /\ downloading' = downloading /\ executed' = executed
        /\ evicted' = evicted /\ stored \subseteq stored' /\ stored' \subseteq stored \cup {d}
        /\ acked' \subseteq acked \cup {d}
    BY DEF Sms!Store, Sms!Report
  <1>2. /\ SmsInTypes /\ SmsDelivery(d) /\ d \notin Downloads /\ d \in Sms!Inbound /\ MaxCopies \in Nat
        /\ {"store", "report", "lock", "uicc"} \subseteq Sms!Steps
    BY SmsPlaces DEF SmsReceives, Sms!ImsSmsConstants, Sms!Inbound, Sms!Steps
  <1>3. smsWorker[d] \in [Sms!Steps -> 0 .. MaxCopies] /\ copies[d] \in 0 .. MaxCopies
    BY <1>2 DEF SmsInTypes
  <1>4. PICK g : SmsRow(d, g) /\ SmsDelivery(d)' /\ acked' \subseteq stored'
    <2>1. CASE Sms!Store(d) /\ Sms!Moves(d, "store", "report") /\ stored' = stored \cup {d}
      <3>1. smsWorker[d]["report"] < MaxCopies /\ Sms!At(d, "store") /\ acked' = acked
        BY <1>2, <1>3, <2>1 DEF SmsDelivery, Sms!Store, Sms!At
      <3>2. SmsRow(d, [smsWorker[d] EXCEPT !["store"] = @ - 1, !["report"] = @ + 1])
        BY <1>2, <2>1, <3>1, SmsMovesOn
      <3>3. SmsDelivery(d)'
        BY <1>1, <1>2, <1>3, <2>1, <3>2 DEF SmsDelivery, SmsRow
      <3> QED
        BY <1>2, <2>1, <3>1, <3>2, <3>3 DEF SmsInTypes
    <2>2. CASE Sms!Store(d) /\ Sms!Leaves(d, "store") /\ stored' = stored
      <3>1. Sms!At(d, "store") /\ acked' = acked
        BY <2>2 DEF Sms!Store
      <3>2. SmsRow(d, [smsWorker[d] EXCEPT !["store"] = @ - 1])
        BY <1>2, <2>2, <3>1, SmsLeaves
      <3>3. SmsDelivery(d)'
        BY <1>1, <1>2, <1>3, <2>2, <3>2 DEF SmsDelivery, SmsRow
      <3> QED
        BY <1>2, <2>2, <3>1, <3>2, <3>3 DEF SmsInTypes
    <2>3. CASE Sms!Report(d)
      <3>1. Sms!At(d, "report") /\ Sms!Leaves(d, "report") /\ acked' = acked \cup {d} /\ stored' = stored
        BY <2>3 DEF Sms!Report
      <3>2. SmsRow(d, [smsWorker[d] EXCEPT !["report"] = @ - 1]) /\ d \in stored
        BY <1>2, <3>1, SmsLeaves DEF SmsDelivery, Sms!At
      <3>3. SmsDelivery(d)'
        BY <1>1, <1>2, <1>3, <3>1, <3>2 DEF SmsDelivery, SmsRow
      <3> QED
        BY <1>2, <3>1, <3>2, <3>3 DEF SmsInTypes
    <2> QED
      BY <2>1, <2>2, <2>3 DEF Sms!Store
  <1>5. SmsInTypes'
    BY <1>1, <1>2, <1>4 DEF SmsInTypes, SmsRow
  <1>6. \A x \in Deliveries \cup Downloads : x \in Sms!Inbound
    BY DEF Sms!Inbound
  <1>7. \A x \in Deliveries : SmsDelivery(x)'
    BY <1>1, <1>4, <1>6, SmsOthers DEF SmsReceives, SmsRow
  <1>8. \A x \in Downloads : SmsDownload(x)'
    BY <1>1, <1>2, <1>4, <1>6, SmsOthers DEF SmsReceives, SmsRow
  <1> QED
    BY <1>5, <1>7, <1>8 DEF SmsReceives

\* A download waits for the lock, or has its report already.
LEMMA SmsEnters ==
    ASSUME Sms!ImsSmsConstants, SmsReceives, NEW d \in Downloads, Sms!EnterDownload(d)
    PROVE  SmsReceives'
  <1>1. /\ copies' = copies /\ smsKept' = smsKept /\ executed' = executed /\ evicted' = evicted
        /\ stored' = stored /\ acked' = acked /\ downloading = Sms!Unlocked /\ Sms!At(d, "lock")
    BY DEF Sms!EnterDownload, Sms!MutexFree
  <1>2. /\ SmsInTypes /\ SmsDownload(d) /\ d \in Sms!Inbound /\ MaxCopies \in Nat
        /\ {"store", "report", "lock", "uicc"} \subseteq Sms!Steps
    BY SmsPlaces DEF SmsReceives, Sms!Inbound, Sms!Steps
  <1>3. /\ smsWorker[d] \in [Sms!Steps -> 0 .. MaxCopies] /\ copies[d] \in 0 .. MaxCopies
        /\ executed[d] \in 0 .. MaxCopies
    BY <1>2 DEF SmsInTypes
  <1>4. \A x \in Downloads : ~ (smsWorker[x]["uicc"] > 0)
    BY <1>1 DEF SmsReceives, SmsDownload, Sms!ImsSmsConstants
  <1>5. PICK g : SmsRow(d, g) /\ SmsDownload(d)' /\ downloading' \in Downloads \cup {Sms!Unlocked}
    <2>1. CASE Sms!Leaves(d, "lock") /\ downloading' = downloading
      <3>1. SmsRow(d, [smsWorker[d] EXCEPT !["lock"] = @ - 1])
        BY <1>1, <1>2, <2>1, SmsLeaves
      <3>2. SmsDownload(d)'
        BY <1>1, <1>2, <1>3, <2>1, <3>1 DEF SmsDownload, SmsRow
      <3> QED
        BY <1>1, <2>1, <3>1, <3>2
    <2>2. CASE /\ Sms!Moves(d, "lock", "uicc") /\ downloading' = d
               /\ ~ \E i \in DOMAIN smsKept : smsKept[i] = d
      <3>1. smsWorker[d]["uicc"] < MaxCopies /\ smsWorker[d]["uicc"] = 0
        BY <1>2, <1>3, <1>4, SmsPlaces
      <3>2. SmsRow(d, [smsWorker[d] EXCEPT !["lock"] = @ - 1, !["uicc"] = @ + 1])
        BY <1>1, <1>2, <2>2, <3>1, SmsMovesOn
      <3>3. SmsDownload(d)'
        BY <1>1, <1>2, <1>3, <2>2, <3>1, <3>2 DEF SmsDownload, SmsRow
      <3> QED
        BY <2>2, <3>2, <3>3
    <2> QED
      BY <2>1, <2>2 DEF Sms!EnterDownload
  <1>6. SmsInTypes'
    BY <1>1, <1>2, <1>5 DEF SmsInTypes, SmsRow
  <1>7. \A x \in Deliveries \cup Downloads : x \in Sms!Inbound
    BY DEF Sms!Inbound
  <1>8. \A x \in Deliveries : x # d
    BY DEF Sms!ImsSmsConstants
  <1>9. \A x \in Deliveries : SmsDelivery(x)'
    BY <1>1, <1>5, <1>7, <1>8, SmsOthers DEF SmsReceives, SmsRow
  <1>10. \A x \in Downloads : SmsDownload(x)'
    BY <1>1, <1>4, <1>5, <1>7, SmsOthers DEF SmsReceives, SmsRow
  <1> QED
    BY <1>6, <1>9, <1>10 DEF SmsReceives


\* The reports that are kept when one more is: the oldest made room, or nothing did.
LEMMA SmsKeeps ==
    ASSUME Sms!ImsSmsConstants, SmsInTypes, NEW d \in Downloads,
           IF Len(smsKept) = Cache
           THEN smsKept' = Append(Tail(smsKept), d) /\ evicted' = evicted \cup {Head(smsKept)}
           ELSE smsKept' = Append(smsKept, d) /\ evicted' = evicted
    PROVE  /\ smsKept' \in Seq(Downloads) /\ Len(smsKept') <= Cache /\ evicted' \subseteq Downloads
           /\ evicted \subseteq evicted'
           /\ \E i \in DOMAIN smsKept' : smsKept'[i] = d
           /\ \A i \in DOMAIN smsKept' : smsKept'[i] = d \/ \E j \in DOMAIN smsKept : smsKept[j] = smsKept'[i]
           /\ \A j \in DOMAIN smsKept : smsKept[j] \in evicted' \/ \E i \in DOMAIN smsKept' : smsKept'[i] = smsKept[j]
  <1>1. smsKept \in Seq(Downloads) /\ Len(smsKept) <= Cache /\ Cache \in Nat /\ Cache > 0 /\ evicted \subseteq Downloads
    BY SmsPlaces DEF SmsInTypes
  <1> DEFINE n == Len(smsKept)
  <1>2. n \in Nat /\ DOMAIN smsKept = 1 .. n /\ n = Len(smsKept) /\ n <= Cache
    BY <1>1, LenProperties
  <1> HIDE DEF n
  <1>3. CASE n = Cache
    <2>1. smsKept # <<>>
      BY <1>1, <1>2, <1>3, EmptySeq
    <2>2. /\ Head(smsKept) = smsKept[1] /\ smsKept[1] \in Downloads
          /\ Tail(smsKept) \in Seq(Downloads) /\ Len(Tail(smsKept)) = n - 1
          /\ \A i \in 1 .. n - 1 : Tail(smsKept)[i] = smsKept[i + 1]
      <3>1. /\ Head(smsKept) \in Downloads /\ Tail(smsKept) \in Seq(Downloads)
            /\ Len(Tail(smsKept)) = Len(smsKept) - 1
            /\ \A i \in 1 .. Len(Tail(smsKept)) : Tail(smsKept)[i] = smsKept[i + 1]
        BY <1>1, <2>1, HeadTailProperties
      <3>2. Head(smsKept) = smsKept[1]
        OBVIOUS
      <3> QED
        BY <3>1, <3>2, <1>2
    <2>3. /\ smsKept' = Append(Tail(smsKept), d) /\ evicted' = evicted \cup {smsKept[1]}
      BY <1>2, <1>3, <2>2
    <2>4. /\ smsKept' \in Seq(Downloads) /\ Len(smsKept') = n /\ DOMAIN smsKept' = 1 .. n
          /\ smsKept'[n] = d /\ \A i \in 1 .. n - 1 : smsKept'[i] = smsKept[i + 1]
      <3> DEFINE t == Tail(smsKept)
      <3>1. /\ Append(t, d) \in Seq(Downloads) /\ Len(Append(t, d)) = Len(t) + 1
            /\ \A i \in 1 .. Len(t) : Append(t, d)[i] = t[i]
            /\ Append(t, d)[Len(t) + 1] = d
        BY <2>2, AppendProperties
      <3> HIDE DEF t
      <3>2. t = Tail(smsKept)
        BY DEF t
      <3>3. (n - 1) + 1 = n
        BY <1>2
      <3>4. /\ smsKept' \in Seq(Downloads) /\ Len(smsKept') = n
            /\ smsKept'[n] = d /\ \A i \in 1 .. n - 1 : smsKept'[i] = smsKept[i + 1]
        BY <3>1, <3>2, <3>3, <2>2, <2>3
      <3> QED
        BY <3>4, LenProperties
    <2>5. \A i \in 1 .. n : smsKept'[i] = d \/ \E j \in 1 .. n : smsKept[j] = smsKept'[i]
      <3> SUFFICES ASSUME NEW i \in 1 .. n PROVE smsKept'[i] = d \/ \E j \in 1 .. n : smsKept[j] = smsKept'[i]
        OBVIOUS
      <3>1. i = n \/ (i \in 1 .. n - 1 /\ i + 1 \in 1 .. n)
        BY <1>1, <1>2, <1>3
      <3> QED
        BY <3>1, <2>4
    <2>6. \A j \in 1 .. n : smsKept[j] \in evicted' \/ \E i \in 1 .. n : smsKept'[i] = smsKept[j]
      <3> SUFFICES ASSUME NEW j \in 1 .. n PROVE smsKept[j] \in evicted' \/ \E i \in 1 .. n : smsKept'[i] = smsKept[j]
        OBVIOUS
      <3>1. j = 1 \/ (j - 1 \in 1 .. n - 1 /\ j - 1 \in 1 .. n /\ (j - 1) + 1 = j)
        BY <1>2
      <3> QED
        BY <3>1, <2>3, <2>4
    <2>7. n \in 1 .. n
      BY <1>1, <1>2, <1>3
    <2> QED
      BY <1>1, <1>2, <1>3, <2>2, <2>3, <2>4, <2>5, <2>6, <2>7
  <1>4. CASE n # Cache
    <2>1. smsKept' = Append(smsKept, d) /\ evicted' = evicted
      BY <1>2, <1>4
    <2>2. /\ smsKept' \in Seq(Downloads) /\ Len(smsKept') = n + 1 /\ DOMAIN smsKept' = 1 .. n + 1
          /\ smsKept'[n + 1] = d /\ \A i \in 1 .. n : smsKept'[i] = smsKept[i]
      <3>1. /\ Append(smsKept, d) \in Seq(Downloads) /\ Len(Append(smsKept, d)) = Len(smsKept) + 1
            /\ \A i \in 1 .. Len(smsKept) : Append(smsKept, d)[i] = smsKept[i]
            /\ Append(smsKept, d)[Len(smsKept) + 1] = d
        BY <1>1, AppendProperties
      <3>2. /\ smsKept' \in Seq(Downloads) /\ Len(smsKept') = n + 1
            /\ smsKept'[n + 1] = d /\ \A i \in 1 .. n : smsKept'[i] = smsKept[i]
        BY <3>1, <2>1, <1>2
      <3> QED
        BY <3>2, LenProperties
    <2>3. n + 1 \in 1 .. n + 1 /\ \A i \in 1 .. n : i \in 1 .. n + 1
      BY <1>2
    <2>4. \A i \in 1 .. n + 1 : i = n + 1 \/ i \in 1 .. n
      BY <1>2
    <2>5. n + 1 <= Cache
      <3>1. n \in Nat /\ Cache \in Nat /\ n <= Cache /\ n # Cache
        BY <1>1, <1>2, <1>4
      <3> QED
        BY <3>1
    <2> QED
      BY <1>1, <1>2, <2>1, <2>2, <2>3, <2>4, <2>5
  <1> QED
    BY <1>3, <1>4

\* The UICC executes a download, whose report is kept.
LEMMA SmsExecutes ==
    ASSUME Sms!ImsSmsConstants, SmsReceives, NEW d \in Downloads, Sms!Executes(d)
    PROVE  SmsReceives'
  <1>1. /\ copies' = copies /\ stored' = stored /\ acked' = acked /\ downloading' = Sms!Unlocked
        /\ Sms!At(d, "uicc") /\ Sms!Leaves(d, "uicc") /\ executed' = [executed EXCEPT ![d] = @ + 1]
    BY DEF Sms!Executes
  <1>2. /\ SmsInTypes /\ SmsDownload(d) /\ d \in Sms!Inbound /\ MaxCopies \in Nat
        /\ {"store", "report", "lock", "uicc"} \subseteq Sms!Steps
    BY SmsPlaces DEF SmsReceives, Sms!Inbound, Sms!Steps
  <1>3. /\ smsWorker[d] \in [Sms!Steps -> 0 .. MaxCopies] /\ copies[d] \in 0 .. MaxCopies
        /\ executed[d] \in 0 .. MaxCopies
    BY <1>2 DEF SmsInTypes
  <1>4. SmsRow(d, [smsWorker[d] EXCEPT !["uicc"] = @ - 1])
    BY <1>1, <1>2, SmsLeaves
  <1>5. /\ smsKept' \in Seq(Downloads) /\ Len(smsKept') <= Cache /\ evicted' \subseteq Downloads
        /\ evicted \subseteq evicted'
        /\ \E i \in DOMAIN smsKept' : smsKept'[i] = d
        /\ \A i \in DOMAIN smsKept' : smsKept'[i] = d \/ \E j \in DOMAIN smsKept : smsKept[j] = smsKept'[i]
        /\ \A j \in DOMAIN smsKept : smsKept[j] \in evicted' \/ \E i \in DOMAIN smsKept' : smsKept'[i] = smsKept[j]
    <2>1. IF Len(smsKept) = Cache
          THEN smsKept' = Append(Tail(smsKept), d) /\ evicted' = evicted \cup {Head(smsKept)}
          ELSE smsKept' = Append(smsKept, d) /\ evicted' = evicted
      BY DEF Sms!Executes
    <2> QED
      BY <2>1, <1>2, SmsKeeps
  <1>6. /\ smsWorker[d]["uicc"] = 1 /\ downloading = d /\ (executed[d] > 0 => d \in evicted)
        /\ executed[d] < MaxCopies
    BY <1>1, <1>2, <1>3 DEF SmsDownload, Sms!At
  <1>7. executed' \in [Downloads -> 0 .. MaxCopies] /\ executed'[d] = executed[d] + 1
        /\ \A x \in Downloads : x # d => executed'[x] = executed[x]
    BY <1>1, <1>2, <1>3, <1>6 DEF SmsInTypes
  <1>8. SmsInTypes'
    BY <1>1, <1>2, <1>4, <1>5, <1>7 DEF SmsInTypes, SmsRow
  <1>9. SmsDownload(d)'
    <2>1. /\ smsWorker'[d]["store"] = smsWorker[d]["store"] /\ smsWorker'[d]["report"] = smsWorker[d]["report"]
          /\ smsWorker'[d]["lock"] = smsWorker[d]["lock"] /\ smsWorker'[d]["uicc"] = 0
      BY <1>2, <1>3, <1>4, <1>6 DEF SmsRow
    <2>2. smsWorker[d]["lock"] + 0 + (executed[d] + 1) <= copies[d]
      BY <1>2, <1>3, <1>6 DEF SmsDownload
    <2>3. d \notin evicted' => executed[d] = 0
      BY <1>3, <1>5, <1>6
    <2> QED
      BY <1>1, <1>2, <1>3, <1>5, <1>7, <2>1, <2>2, <2>3 DEF SmsDownload
  <1>10. \A x \in Deliveries \cup Downloads : x \in Sms!Inbound
    BY DEF Sms!Inbound
  <1>11. \A x \in Deliveries : SmsDelivery(x)'
    <2>1. \A x \in Deliveries : x # d
      BY DEF Sms!ImsSmsConstants
    <2> QED
      BY <2>1, <1>1, <1>4, <1>10, SmsOthers DEF SmsReceives, SmsRow
  <1>12. \A x \in Downloads : SmsDownload(x)'
    <2> SUFFICES ASSUME NEW x \in Downloads, x # d PROVE SmsDownload(x)'
      BY <1>9
    <2>1. smsWorker'[x] = smsWorker[x] /\ copies'[x] = copies[x] /\ executed'[x] = executed[x] /\ SmsDownload(x)
      BY <1>1, <1>4, <1>7, <1>10 DEF SmsRow, SmsReceives
    <2>2. ~ (smsWorker[x]["uicc"] > 0)
      BY <2>1, <1>6 DEF SmsDownload
    <2>3. executed[x] > 0 => x \in evicted' \/ \E i \in DOMAIN smsKept' : smsKept'[i] = x
      BY <2>1, <1>5 DEF SmsDownload
    <2>4. x \notin evicted' => executed[x] <= 1
      BY <2>1, <1>5 DEF SmsDownload
    <2> QED
      BY <2>1, <2>2, <2>3, <2>4 DEF SmsDownload
  <1> QED
    BY <1>8, <1>11, <1>12 DEF SmsReceives

\* Every step of the session's messages keeps the invariant.
LEMMA SmsStep ==
    ASSUME Sms!ImsSmsConstants, SmsInv, Sms!Next
    PROVE  SmsInv'
  <1>1. SmsSubmits /\ SmsReceives /\ closed \in BOOLEAN
    BY DEF SmsInv, SmsSubmits, SmsTypes
  <1>2. CASE \/ Sms!Sending \/ Sms!Noticing \/ (\E m \in flight : Sms!CentreTakes(m))
             \/ (\E r \in Sms!Ref : Sms!GuardEnds(r)) \/ (\E m \in net : Sms!Receive(m))
    <2>1. SmsSubmits'
      <3>1. CASE Sms!Sending
        BY <3>1, <1>1, SmsSends, SmsMoves, SmsEnds DEF Sms!Sending
      <3>2. CASE Sms!NoticeSends
        BY <3>2, <1>1, SmsNoticeSends
      <3>3. CASE Sms!NoticeWaits
        BY <3>3, <1>1, SmsNoticeMoves DEF Sms!NoticeWaits
      <3>4. CASE Sms!NoticeEnds
        BY <3>4, <1>1, SmsNoticeMoves DEF Sms!NoticeEnds
      <3>5. CASE \E m \in flight : Sms!CentreTakes(m)
        BY <3>5, <1>1, SmsDecided
      <3>6. CASE \E r \in Sms!Ref : Sms!GuardEnds(r)
        BY <3>6, <1>1, SmsGuardEnds
      <3>7. CASE \E m \in net : Sms!Receive(m)
        BY <3>7, <1>1, SmsResultArrives
      <3> QED
        BY <1>2, <3>1, <3>2, <3>3, <3>4, <3>5, <3>6, <3>7 DEF Sms!Noticing
    <2>2. Sms!inVars' = Sms!inVars
      <3>1. CASE Sms!Sending
        BY <3>1 DEF Sms!Sending, Sms!SendPart, Sms!Refused, Sms!Accepted2xx, Sms!SipFails, Sms!AwaitRP,
                    Sms!NextMessage, Sms!PartEnds
      <3>2. CASE Sms!Noticing
        BY <3>2 DEF Sms!Noticing, Sms!NoticeSends, Sms!NoticeWaits, Sms!NoticeEnds
      <3>3. CASE \/ (\E m \in flight : Sms!CentreTakes(m)) \/ (\E r \in Sms!Ref : Sms!GuardEnds(r))
                 \/ (\E m \in net : Sms!Receive(m))
        BY <3>3 DEF Sms!CentreTakes, Sms!GuardEnds, Sms!Receive
      <3> QED
        BY <1>2, <3>1, <3>2, <3>3
    <2> QED
      BY <1>1, <2>1, <2>2, SmsReceivesApart DEF SmsInv
  <1>3. CASE Sms!Close
    <2>1. Sms!rpVars' = Sms!rpVars /\ Sms!inVars' = Sms!inVars /\ closed' \in BOOLEAN
      BY <1>3 DEF Sms!Close
    <2> QED
      BY <1>1, <2>1, SmsReceivesApart, SmsSubmitsApart DEF SmsInv
  <1>4. ASSUME NEW d \in Sms!Inbound, Sms!Arrives(d) PROVE SmsInv'
    <2>1. Sms!rpVars' = Sms!rpVars /\ closed' \in BOOLEAN
      BY <1>1, <1>4 DEF Sms!Arrives
    <2> QED
      BY <1>1, <1>4, <2>1, SmsArrives, SmsSubmitsApart DEF SmsInv
  <1>5. ASSUME NEW d \in Deliveries, Sms!Working(d) PROVE SmsInv'
    <2>1. SmsReceives'
      BY <1>1, <1>5, SmsWorks DEF Sms!Working
    <2>2. CASE Sms!Store(d)
      BY <1>1, <2>1, <2>2, SmsSubmitsApart DEF SmsInv, Sms!Store
    <2>3. CASE Sms!Report(d)
      <3>1. /\ next' = next /\ guarded' = guarded /\ smsSender' = smsSender /\ verdict' = verdict
            /\ centre' = centre /\ flight' = flight /\ net' = net /\ closed' = closed /\ pending' = pending
            /\ notice' = IF notice.pc = "none" /\ ~ closed THEN [notice EXCEPT !.pc = "idle"] ELSE notice
        BY <2>3 DEF Sms!Report
      <3>2. CASE notice.pc = "none" /\ ~ closed
        BY <1>1, <2>1, <3>1, <3>2, SmsNoticeMoves DEF SmsInv
      <3>3. CASE ~ (notice.pc = "none" /\ ~ closed)
        <4>1. Sms!rpVars' = Sms!rpVars
          BY <3>1, <3>3 DEF Sms!rpVars
        <4> QED
          BY <1>1, <2>1, <3>1, <4>1, SmsSubmitsApart DEF SmsInv
      <3> QED
        BY <3>2, <3>3
    <2> QED
      BY <1>5, <2>2, <2>3 DEF Sms!Working
  <1>6. ASSUME NEW d \in Downloads, Sms!Downloading(d) PROVE SmsInv'
    <2>1. Sms!rpVars' = Sms!rpVars /\ closed' \in BOOLEAN
      BY <1>1, <1>6 DEF Sms!Downloading, Sms!EnterDownload, Sms!Executes
    <2> QED
      BY <1>1, <1>6, <2>1, SmsEnters, SmsExecutes, SmsSubmitsApart DEF SmsInv, Sms!Downloading
  <1> QED
    BY <1>2, <1>3, <1>4, <1>5, <1>6 DEF Sms!Next

\* The invariant says what the run checks.
LEMMA SmsPromise ==
    ASSUME Sms!ImsSmsConstants, SmsInv
    PROVE  Sms!SubmitSound /\ Sms!InboundSound
  <1>1. SmsTypes /\ SmsWaiting /\ SmsCarried /\ SmsVerdicts /\ SmsInTypes /\ \A d \in Downloads : SmsDownload(d)
    BY DEF SmsInv, SmsSubmits, SmsReceives
  <1>2. acked \subseteq Deliveries
    BY <1>1 DEF SmsInTypes
  <1>3. Sms!TypeOK
    BY <1>1, <1>2 DEF Sms!TypeOK, SmsTypes, SmsInTypes, SmsWaits, SmsSenders, SmsNotices, SmsFlights, SmsResults
  <1>4. Sms!TruthfulParts
    BY <1>1 DEF Sms!TruthfulParts, SmsVerdicts
  <1>5. Sms!ReferencesApart
    <2>1. \A r \in Sms!Ref : pending[r].for \in Sms!Part \cup {Sms!Notice, Sms!Nobody}
      BY <1>1, SmsPlaces DEF SmsTypes
    <2> QED
      BY <1>1, <2>1 DEF Sms!ReferencesApart, SmsWaiting
  <1>6. Sms!InboundSound
    BY <1>1 DEF Sms!InboundSound, Sms!ExecutedOnce, Sms!AckedStored, SmsDownload, SmsInTypes
  <1> QED
    BY <1>3, <1>4, <1>5, <1>6 DEF Sms!SubmitSound

\* The invariant of a session's messages holds of every reachable state, for any number of parts,
\* references, deliveries, downloads and copies.
THEOREM SmsInvariant == Behaviour => [](part = "sms" => SmsInv)
  <1>1. InitAll => (part = "sms" => SmsInv)
    BY SmsBounds, SmsInit DEF InitAll
  <1>2. (part = "sms" => SmsInv) /\ [NextAll]_all => (part = "sms" => SmsInv)'
    <2> SUFFICES ASSUME part = "sms" => SmsInv, [NextAll]_all, part' = "sms" PROVE SmsInv'
      OBVIOUS
    <2>1. CASE NextAll
      <3>1. part = "sms" /\ Sms!Next
        BY <2>1 DEF NextAll
      <3> QED
        BY <3>1, SmsBounds, SmsStep
    <2>2. CASE UNCHANGED all
      <3>1. part' = part /\ Sms!rpVars' = Sms!rpVars /\ Sms!inVars' = Sms!inVars /\ closed' = closed
        BY <2>2 DEF all, varsSms, Sms!rpVars, Sms!inVars
      <3>2. SmsSubmits /\ SmsReceives /\ closed \in BOOLEAN
        BY <3>1 DEF SmsInv, SmsSubmits, SmsTypes
      <3> QED
        BY <3>1, <3>2, SmsReceivesApart, SmsSubmitsApart DEF SmsInv
    <2> QED
      BY <2>1, <2>2
  <1> QED
    BY <1>1, <1>2, PTL DEF Behaviour

\* What a caller is told of a part of its message is what the service centre made of that part,
\* no reference is reused while its results may come, a UICC download is executed once while its
\* report is kept, and only what is stored is acknowledged (SendSMS, handleRPResult, processSIMDownload).
THEOREM SmsIsSound == Behaviour => []SmsSound
  <1>1. (part = "sms" => SmsInv) => SmsSound
    BY SmsBounds, SmsPromise DEF SmsSound
  <1> QED
    BY <1>1, SmsInvariant, PTL

-----------------------------------------------------------------------------
(* Alerts.                                                                 *)

\* The results of one kind: numbered by when they were tried, one of each, and none beyond some
\* number.
AlResults(E) ==
    /\ IsFiniteSet(E) /\ E \subseteq [id : Nat \ {0}, at : Nat \ {0}, good : BOOLEAN]
    /\ \A r \in E : r.id = r.at
    /\ \A r, s \in E : r.id = s.id => r = s
    /\ \E n \in Nat : \A r \in E : r.at <= n

\* What is kept of the results of a kind is what they are counted by.
AlCount(k) ==
    /\ AlResults(evidence[k]) /\ outcomes[k] = Al!Recent(evidence[k])
    /\ counter[k].failures = Cardinality(Al!Streak(evidence[k]))

\* A notification: of a streak there was, a card and a destination there were; one that waits has
\* not been taken and may be posted.
AlNotes == [kind : Al!Kinds, epoch : Nat, cycle : Nat, revision : Nat, posts : 0 .. MaxPosts, taken : {0, 1},
            state : {"pending", "sending", "sent", "failed", "unknown", "cancelled"}]
AlNote(x) ==
    /\ x \in AlNotes
    /\ x.cycle <= counter[x.kind].cycle /\ x.epoch <= Al!EpochOf(x.kind) /\ x.revision <= telegram.revision
    /\ x.state = "pending" => x.posts < MaxPosts /\ x.taken = 0
    /\ x.state = "sending" => x.posts > 0

AlTypes ==
    /\ epoch \in 1 .. MaxEpoch /\ limit \in [Al!Kinds -> Limits] /\ troubles \in 0 .. MaxTroubles
    /\ counter \in [Al!Kinds -> [failures : Nat, active : BOOLEAN, cycle : Nat, observed : Nat]]
    /\ telegram \in [on : BOOLEAN, revision : Nat] /\ polls \in Nat
    /\ attempt \in [Attempts -> [kind : Al!SimKinds \cup {"none"}, epoch : Nat,
                                 state : {"idle", "open", "good", "bad", "excused", "unknown"}]]
    /\ \A a \in Attempts : attempt[a].state # "idle" => attempt[a].kind \in Al!SimKinds
    /\ DOMAIN outcomes = Al!Kinds /\ DOMAIN evidence = Al!Kinds
    /\ notes \in Seq(AlNotes)

\* What the worker has in hand is being sent, and was not taken before it is posted.
AlWorker ==
    /\ alWorker \in [at : {"idle", "claimed", "post", "save"}, note : Nat,
                     result : {"none", "pending", "failed", "unknown", "sent"}]
    /\ alWorker.at = "save" => alWorker.result # "none"
    /\ alWorker.at # "idle" => alWorker.note \in DOMAIN notes /\ notes[alWorker.note].state = "sending"
    /\ alWorker.at \in {"claimed", "post"} => notes[alWorker.note].taken = 0
    /\ alWorker.at = "save" /\ alWorker.result = "pending" =>
           notes[alWorker.note].taken = 0 /\ notes[alWorker.note].posts < MaxPosts

AlEnded == \A n \in ended : n \in DOMAIN notes /\ ~ Al!Current(notes[n])

AlInv ==
    /\ AlTypes /\ AlWorker /\ AlEnded /\ Al!OnePerStreak
    /\ \A k \in Al!Kinds : AlCount(k)
    /\ \A n \in DOMAIN notes : AlNote(notes[n])


\* The instance counts as FiniteSets does.
LEMMA AlCounting ==
    /\ \A S : Al!IsFiniteSet(S) <=> IsFiniteSet(S)
    /\ \A S : Al!Cardinality(S) = Cardinality(S)
  <1>1. \A S : Al!IsFiniteSet(S) <=> IsFiniteSet(S)
    BY DEF Al!IsFiniteSet, IsFiniteSet
  <1>2. \A S : Al!Cardinality(S) = Cardinality(S)
    BY DEF Al!Cardinality, Cardinality
  <1> QED
    BY <1>1, <1>2

\* A set of numbers that is not empty and has a bound has a greatest one.
LEMMA GreatestTime ==
    ASSUME NEW n \in Nat, NEW S, S \subseteq 0 .. n, S # {}
    PROVE  Al!Max(S) \in S /\ \A y \in S : Al!Max(S) >= y
  <1> DEFINE T == {x \in 0 .. n : n - x \in S}
  <1>1. T \subseteq Nat
    OBVIOUS
  <1>2. T # {}
    <2> PICK y \in S : TRUE
      OBVIOUS
    <2>1. y \in 0 .. n /\ n - y \in 0 .. n /\ n - (n - y) = y
      OBVIOUS
    <2>2. n - y \in T
      BY <2>1
    <2> QED
      BY <2>2
  <1>3. PICK t \in T : \A x \in T : ~ (<<x, t>> \in OpToRel(<, Nat))
    <2> HIDE DEF T
    <2> QED
      BY <1>1, <1>2, NatLessThanWellFounded, WFMin
  <1>4. \A x \in T : ~ (x < t)
    BY <1>1, <1>3 DEF OpToRel
  <1>5. n - t \in S /\ t \in 0 .. n
    OBVIOUS
  <1>6. ASSUME NEW y \in S
        PROVE  n - t >= y
    <2>1. y \in 0 .. n /\ n - y \in 0 .. n /\ n - (n - y) = y
      OBVIOUS
    <2>2. n - y \in T
      BY <2>1
    <2>3. ~ (n - y < t)
      BY <1>4, <2>2
    <2> QED
      BY <1>5, <2>1, <2>3
  <1>7. \E x \in S : \A y \in S : x >= y
    BY <1>5, <1>6
  <1> QED
    BY <1>7 DEF Al!Max

\* The later of two times.
LEMMA LaterTime ==
    ASSUME NEW x \in Nat, NEW y \in Nat
    PROVE  Al!Max({x, y}) \in {x, y}
  <1>1. \E a \in {x, y} : \A b \in {x, y} : a >= b
    OBVIOUS
  <1> QED
    BY <1>1 DEF Al!Max

\* When the last success was tried; 0 if there was none.
IsLastGood(E, m) ==
    /\ m \in Nat /\ (m = 0 \/ \E r \in E : r.good /\ r.at = m)
    /\ \A r \in E : r.good => r.at <= m

\* That is what is taken for it.
LEMMA AlLastGood ==
    ASSUME NEW E, E \subseteq [id : Nat \ {0}, at : Nat \ {0}, good : BOOLEAN], NEW n \in Nat, \A r \in E : r.at <= n
    PROVE  /\ IsLastGood(E, Al!LastGood(E))
           /\ \A m : IsLastGood(E, m) => m = Al!LastGood(E)
  <1> DEFINE S == {0} \cup {r.at : r \in {x \in E : x.good}}
  <1>1. S # {} /\ S \subseteq 0 .. n
    OBVIOUS
  <1>2. Al!LastGood(E) = Al!Max(S)
    BY DEF Al!LastGood
  <1>3. Al!Max(S) \in S /\ \A y \in S : Al!Max(S) >= y
    <2> HIDE DEF S
    <2> QED
      BY <1>1, GreatestTime
  <1>4. IsLastGood(E, Al!LastGood(E))
    BY <1>1, <1>2, <1>3 DEF IsLastGood
  <1>5. ASSUME NEW m, IsLastGood(E, m) PROVE m = Al!LastGood(E)
    <2> DEFINE l == Al!LastGood(E)
    <2> HIDE DEF l
    <2>1. IsLastGood(E, l) /\ l = Al!LastGood(E)
      BY <1>4 DEF l
    <2>2. m \in Nat /\ l \in Nat
      BY <1>5, <2>1 DEF IsLastGood
    <2>3. l <= m
      BY <1>5, <2>1, <2>2 DEF IsLastGood
    <2>4. m <= l
      BY <1>5, <2>1, <2>2 DEF IsLastGood
    <2> QED
      BY <2>1, <2>2, <2>3, <2>4
  <1> QED
    BY <1>4, <1>5

\* What a result makes of the ones there were.
LEMMA AlMerged ==
    ASSUME NEW E, AlResults(E), NEW i \in Nat \ {0}, NEW g \in BOOLEAN
    PROVE  AlResults(Al!Merge(E, i, g, i))
  <1> DEFINE old == {r \in E : r.id = i}
             new == [id |-> i, at |-> i, good |-> g \/ \E r \in old : r.good]
             M == (E \ old) \cup {new}
  <1>1. Al!Merge(E, i, g, i) = M
    BY DEF Al!Merge
  <1>2. /\ IsFiniteSet(E) /\ E \subseteq [id : Nat \ {0}, at : Nat \ {0}, good : BOOLEAN]
        /\ (\A r \in E : r.id = r.at) /\ (\A r, s \in E : r.id = s.id => r = s)
    BY DEF AlResults
  <1>3. PICK n \in Nat : \A r \in E : r.at <= n
    BY DEF AlResults
  <1>4. new \in [id : Nat \ {0}, at : Nat \ {0}, good : BOOLEAN] /\ new.id = i /\ new.at = i
    OBVIOUS
  <1>5. IsFiniteSet(M)
    <2>1. IsFiniteSet(E \ old)
      BY <1>2, FS_Subset
    <2> QED
      BY <2>1, FS_AddElement
  <1>6. \A r \in M : (r \in E /\ r.id # i) \/ r = new
    OBVIOUS
  <1> HIDE DEF old, new, M
  <1>7. \A r, s \in M : r.id = s.id => r = s
    BY <1>2, <1>4, <1>6
  <1>8. \A r \in M : r.id = r.at /\ r \in [id : Nat \ {0}, at : Nat \ {0}, good : BOOLEAN]
    BY <1>2, <1>4, <1>6
  <1>9. \A r \in M : r.at <= n + i
    <2> SUFFICES ASSUME NEW r \in M PROVE r.at <= n + i
      OBVIOUS
    <2>1. CASE r \in E
      <3>1. r.at \in Nat /\ r.at <= n
        BY <2>1, <1>2, <1>3
      <3> QED
        BY <3>1
    <2>2. CASE r = new
      BY <2>2, <1>4
    <2> QED
      BY <2>1, <2>2, <1>6
  <1>10. n + i \in Nat
    OBVIOUS
  <1> QED
    BY <1>1, <1>5, <1>7, <1>8, <1>9, <1>10 DEF AlResults

\* A result is counted by what is kept as it would be by everything there was: what was tried
\* before the last success makes no difference, whatever is reported of it later.
LEMMA AlKept ==
    ASSUME NEW E, AlResults(E), NEW i \in Nat \ {0}, NEW g \in BOOLEAN
    PROVE  /\ Al!Streak(Al!Merge(Al!Recent(E), i, g, i)) = Al!Streak(Al!Merge(E, i, g, i))
           /\ Al!Recent(Al!Merge(Al!Recent(E), i, g, i)) = Al!Recent(Al!Merge(E, i, g, i))
  <1> DEFINE O == Al!Recent(E)
             A == Al!Merge(O, i, g, i)
             B == Al!Merge(E, i, g, i)
             l == Al!LastGood(E)
             oldE == {r \in E : r.id = i}
             oldO == {r \in O : r.id = i}
             newE == [id |-> i, at |-> i, good |-> g \/ \E r \in oldE : r.good]
             newO == [id |-> i, at |-> i, good |-> g \/ \E r \in oldO : r.good]
  <1>1. /\ E \subseteq [id : Nat \ {0}, at : Nat \ {0}, good : BOOLEAN] /\ (\A r \in E : r.id = r.at)
        /\ \A r, s \in E : r.id = s.id => r = s
    BY DEF AlResults
  <1>2. IsLastGood(E, l) /\ l \in Nat
    <2>1. IsLastGood(E, l)
      BY <1>1, AlLastGood DEF AlResults
    <2> QED
      BY <2>1 DEF IsLastGood
  <1>3. O = {r \in E : r.at >= l}
    BY DEF Al!Recent
  <1>4. AlResults(O)
    <2>1. IsFiniteSet(O)
      BY <1>3, FS_Subset DEF AlResults
    <2>2. O \subseteq E
      BY <1>3
    <2> HIDE DEF O, l
    <2> QED
      BY <2>1, <2>2 DEF AlResults
  <1>5. A = (O \ oldO) \cup {newO} /\ B = (E \ oldE) \cup {newE}
    BY DEF Al!Merge
  <1>6. newE.at = i /\ newO.at = i /\ newE.id = i /\ newO.id = i
    OBVIOUS
  <1>7. i >= l => oldE = oldO /\ newE = newO
    <2>1. ASSUME i >= l PROVE oldE = oldO
      BY <1>1, <1>3, <2>1
    <2> HIDE DEF O, oldE, oldO, l
    <2> QED
      BY <2>1
  <1>8. newE.good <=> g \/ \E r \in oldE : r.good
    OBVIOUS
  <1>9. oldE \subseteq E /\ \A r \in E : r.id = i <=> r \in oldE
    OBVIOUS
  <1>10. oldO \subseteq O /\ \A r \in O : r.id = i <=> r \in oldO
    OBVIOUS
  <1> HIDE DEF O, A, B, l, oldE, oldO, newE, newO
  <1>11. \A r : r.at >= l => (r \in A <=> r \in B)
    <2> SUFFICES ASSUME NEW r, r.at >= l PROVE r \in A <=> r \in B
      OBVIOUS
    <2>1. r \in O <=> r \in E
      BY <1>3
    <2>2. r \in E => (r \in oldE <=> r \in oldO)
      BY <2>1, <1>9, <1>10
    <2>3. r = newE \/ r = newO => r = newE /\ r = newO
      BY <1>6, <1>7
    <2> QED
      BY <1>5, <2>1, <2>2, <2>3
  <1>12. AlResults(A) /\ AlResults(B)
    BY <1>4, AlMerged DEF A, B, O
  <1> DEFINE m == Al!LastGood(B)
  <1>13. IsLastGood(B, m) /\ m \in Nat
    <2>1. IsLastGood(B, m)
      BY <1>12, AlLastGood DEF AlResults
    <2> QED
      BY <2>1 DEF IsLastGood
  <1> HIDE DEF m
  <1>14. m >= l
    <2>1. CASE l = 0
      BY <2>1, <1>13
    <2>2. CASE l # 0
      <3>1. PICK r \in E : r.good /\ r.at = l
        BY <2>2, <1>2 DEF IsLastGood
      <3>2. \E s \in B : s.good /\ s.at = l
        <4>1. CASE r \in oldE
          <5>1. r.id = i /\ r.id = r.at
            BY <4>1, <1>1, <1>9
          <5>2. newE.good /\ newE \in B /\ newE.at = l
            BY <4>1, <3>1, <5>1, <1>5, <1>6, <1>8
          <5> QED
            BY <5>2
        <4>2. CASE r \notin oldE
          BY <4>2, <3>1, <1>5
        <4> QED
          BY <4>1, <4>2
      <3> QED
        BY <3>2, <1>13 DEF IsLastGood
    <2> QED
      BY <2>1, <2>2
  <1>15. IsLastGood(A, m)
    <2>1. m = 0 \/ \E r \in A : r.good /\ r.at = m
      BY <1>11, <1>13, <1>14 DEF IsLastGood
    <2>2. ASSUME NEW r \in A, r.good PROVE r.at <= m
      <3>1. r.at \in Nat
        BY <1>12 DEF AlResults
      <3>2. CASE r.at >= l
        BY <1>11, <1>13, <2>2, <3>2 DEF IsLastGood
      <3>3. CASE ~ (r.at >= l)
        BY <3>1, <3>3, <1>2, <1>13, <1>14
      <3> QED
        BY <3>2, <3>3
    <2> QED
      BY <2>1, <2>2, <1>13 DEF IsLastGood
  <1>16. Al!LastGood(A) = m /\ Al!LastGood(B) = m
    <2>1. m = Al!LastGood(A)
      BY <1>12, <1>15, AlLastGood DEF AlResults
    <2> QED
      BY <2>1 DEF m
  <1>17. \A r \in A \cup B : r.at \in Nat
    BY <1>12 DEF AlResults
  <1>18. \A r \in A \cup B : r.at > m \/ r.at >= m => r.at >= l
    BY <1>2, <1>13, <1>14, <1>17
  <1>19. Al!Streak(A) = {r \in A : ~ r.good /\ r.at > m} /\ Al!Streak(B) = {r \in B : ~ r.good /\ r.at > m}
    BY <1>16 DEF Al!Streak
  <1>20. Al!Recent(A) = {r \in A : r.at >= m} /\ Al!Recent(B) = {r \in B : r.at >= m}
    BY <1>16 DEF Al!Recent
  <1>21. Al!Streak(A) = Al!Streak(B)
    BY <1>11, <1>18, <1>19
  <1>22. Al!Recent(A) = Al!Recent(B)
    BY <1>11, <1>18, <1>20
  <1> QED
    BY <1>21, <1>22 DEF A, B, O

-----------------------------------------------------------------------------
\* Streaks, cards and destinations are numbered upwards, and a streak that is over is over.
AlLater ==
    /\ epoch <= epoch' /\ telegram.revision <= telegram'.revision
    /\ \A k \in Al!Kinds :
          /\ counter[k].cycle <= counter'[k].cycle
          /\ counter'[k].active /\ counter'[k].cycle = counter[k].cycle => counter[k].active

\* A notification stays what it is about.
AlSame ==
    \A n \in DOMAIN notes :
        /\ n \in DOMAIN notes' /\ notes'[n].kind = notes[n].kind /\ notes'[n].epoch = notes[n].epoch
        /\ notes'[n].cycle = notes[n].cycle /\ notes'[n].revision = notes[n].revision

\* What its state says of a notification.
AlState(x) ==
    /\ x.state = "pending" => x.posts < MaxPosts /\ x.taken = 0
    /\ x.state = "sending" => x.posts > 0

\* What a step leaves, what is over set aside.
AlGood ==
    /\ AlTypes' /\ AlWorker' /\ AlLater /\ AlSame /\ Al!OnePerStreak'
    /\ \A k \in Al!Kinds : AlCount(k)'
    /\ (\A n \in DOMAIN notes : AlNote(notes[n]))'

\* A number of a card is not less later.
LEMMA AlEpochs ==
    ASSUME AlTypes, AlTypes', AlLater, NEW k
    PROVE  Al!EpochOf(k) \in Nat /\ Al!EpochOf(k)' \in Nat /\ Al!EpochOf(k) <= Al!EpochOf(k)'
  BY AlertBounds DEF AlTypes, AlLater, Al!EpochOf, Al!AlertConstants

\* A notification that is over stays over.
LEMMA AlStaysOver ==
    ASSUME AlTypes, AlTypes', AlLater, AlSame, NEW n \in DOMAIN notes, AlNote(notes[n]), ~ Al!Current(notes[n])
    PROVE  n \in DOMAIN notes' /\ ~ Al!Current(notes[n])'
  <1> PICK x, y, k : x = notes[n] /\ y = notes'[n] /\ k = x.kind
    OBVIOUS
  <1>1. /\ n \in DOMAIN notes' /\ y.kind = k /\ y.epoch = x.epoch
        /\ y.cycle = x.cycle /\ y.revision = x.revision
    BY DEF AlSame
  <1>2. /\ k \in Al!Kinds /\ x.cycle \in Nat /\ x.epoch \in Nat /\ x.revision \in Nat
        /\ x.cycle <= counter[k].cycle /\ x.epoch <= Al!EpochOf(k) /\ x.revision <= telegram.revision
    BY DEF AlNote, AlNotes
  <1>3. /\ counter[k].cycle \in Nat /\ counter'[k].cycle \in Nat
        /\ telegram.revision \in Nat /\ telegram'.revision \in Nat
    BY <1>2 DEF AlTypes
  <1>4. Al!EpochOf(k) \in Nat /\ Al!EpochOf(k)' \in Nat /\ Al!EpochOf(k) <= Al!EpochOf(k)'
    BY AlEpochs
  <1>5. /\ counter[k].cycle <= counter'[k].cycle /\ telegram.revision <= telegram'.revision
        /\ counter'[k].active /\ counter'[k].cycle = counter[k].cycle => counter[k].active
    BY <1>2 DEF AlLater
  <1>6. ASSUME Al!Current(notes[n])' PROVE FALSE
    <2>1. /\ counter'[k].active /\ counter'[k].cycle = x.cycle /\ Al!EpochOf(k)' = x.epoch
          /\ telegram'.revision = x.revision
      <3>1. /\ counter'[y.kind].active /\ counter'[y.kind].cycle = y.cycle /\ Al!EpochOf(y.kind)' = y.epoch
            /\ telegram'.revision = y.revision
        BY <1>6 DEF Al!Current, Al!Active, Al!EpochOf
      <3> QED
        BY <3>1, <1>1
    <2>2. counter[k].cycle = x.cycle /\ Al!EpochOf(k) = x.epoch /\ telegram.revision = x.revision
      BY <2>1, <1>2, <1>3, <1>4, <1>5
    <2>3. counter[k].active
      BY <2>1, <2>2, <1>5
    <2> QED
      BY <2>2, <2>3, <1>2 DEF Al!Current, Al!Active, Al!EpochOf
  <1> QED
    BY <1>1, <1>6

\* What was over is, and what is over now is set aside.
LEMMA AlEndedKept ==
    ASSUME AlInv, AlGood, ended' = ended \cup {n \in DOMAIN notes' : ~ Al!Current(notes[n])'}
    PROVE  AlInv'
  <1>1. ASSUME NEW n \in ended PROVE n \in DOMAIN notes' /\ ~ Al!Current(notes[n])'
    <2>1. n \in DOMAIN notes /\ ~ Al!Current(notes[n]) /\ AlNote(notes[n])
      BY <1>1 DEF AlInv, AlEnded
    <2> QED
      BY <2>1, AlStaysOver DEF AlGood, AlInv
  <1>2. AlEnded'
    BY <1>1 DEF AlEnded
  <1> QED
    BY <1>2 DEF AlGood, AlInv

\* Notifications that stay what they are about are of streaks there were, one of each.
LEMMA AlNotesKept ==
    ASSUME AlInv, AlTypes', AlLater, AlSame, DOMAIN notes' = DOMAIN notes,
           \A n \in DOMAIN notes : AlState(notes'[n])
    PROVE  Al!OnePerStreak' /\ (\A n \in DOMAIN notes : AlNote(notes[n]))'
  <1>1. Al!OnePerStreak'
    BY DEF AlInv, Al!OnePerStreak, AlSame
  <1>2. ASSUME NEW n \in DOMAIN notes' PROVE AlNote(notes[n])'
    <2>1. n \in DOMAIN notes /\ AlNote(notes[n])
      BY <1>2 DEF AlInv
    <2>2. notes'[n] \in AlNotes
      BY <1>2, ElementOfSeq DEF AlTypes
    <2> PICK x, y, k : x = notes[n] /\ y = notes'[n] /\ k = x.kind
      OBVIOUS
    <2>3. /\ notes'[n].kind = k /\ notes'[n].epoch = x.epoch
          /\ notes'[n].cycle = x.cycle /\ notes'[n].revision = x.revision
      BY <2>1 DEF AlSame
    <2>4. /\ k \in Al!Kinds /\ x.cycle \in Nat /\ x.epoch \in Nat /\ x.revision \in Nat
          /\ x.cycle <= counter[k].cycle /\ x.epoch <= Al!EpochOf(k) /\ x.revision <= telegram.revision
      BY <2>1 DEF AlNote, AlNotes
    <2>5. /\ counter[k].cycle \in Nat /\ counter'[k].cycle \in Nat
          /\ telegram.revision \in Nat /\ telegram'.revision \in Nat
      BY <2>4 DEF AlTypes, AlInv
    <2>6. Al!EpochOf(k) \in Nat /\ Al!EpochOf(k)' \in Nat /\ Al!EpochOf(k) <= Al!EpochOf(k)'
      BY AlEpochs DEF AlInv
    <2>7. counter[k].cycle <= counter'[k].cycle /\ telegram.revision <= telegram'.revision
      BY <2>4 DEF AlLater
    <2>8. x.cycle <= counter'[k].cycle /\ x.epoch <= Al!EpochOf(k)' /\ x.revision <= telegram'.revision
      BY <2>4, <2>5, <2>6, <2>7
    <2>9. AlState(notes'[n])
      BY <2>1
    <2> QED
      BY <2>2, <2>3, <2>8, <2>9 DEF AlNote, AlState, Al!EpochOf
  <1> QED
    BY <1>1, <1>2

\* Notifications that were changed one by one are as many.
LEMMA AlList ==
    ASSUME NEW s \in Seq(AlNotes), NEW f, DOMAIN f = DOMAIN s, f = [n \in DOMAIN f |-> f[n]],
           \A n \in DOMAIN s : f[n] \in AlNotes
    PROVE  f \in Seq(AlNotes)
  <1>1. DOMAIN f = 1 .. Len(s) /\ Len(s) \in Nat
    BY LenProperties
  <1>2. f \in [1 .. Len(s) -> AlNotes]
    BY <1>1
  <1> QED
    BY <1>1, <1>2, SeqDef

\* A notification that was changed is still one, and none comes or goes.
LEMMA AlOne ==
    ASSUME NEW s \in Seq(AlNotes), NEW n \in DOMAIN s, NEW v \in AlNotes
    PROVE  LET f == [s EXCEPT ![n] = v] IN
           /\ f \in Seq(AlNotes) /\ DOMAIN f = DOMAIN s /\ f[n] = v
           /\ \A m \in DOMAIN s : m # n => f[m] = s[m]
  <1> DEFINE f == [s EXCEPT ![n] = v]
  <1>1. DOMAIN s = 1 .. Len(s) /\ Len(s) \in Nat /\ \A m \in DOMAIN s : s[m] \in AlNotes
    BY LenProperties, ElementOfSeq
  <1>2. DOMAIN f = DOMAIN s /\ f[n] = v /\ (\A m \in DOMAIN s : m # n => f[m] = s[m])
    OBVIOUS
  <1>3. f = [m \in DOMAIN f |-> f[m]]
    OBVIOUS
  <1> HIDE DEF f
  <1>4. \A m \in DOMAIN s : f[m] \in AlNotes
    BY <1>1, <1>2
  <1>5. f \in Seq(AlNotes)
    BY <1>2, <1>3, <1>4, AlList
  <1> QED
    BY <1>2, <1>5 DEF f

\* What is cancelled is still about what it was, and waits no longer.
LEMMA AlCancelled ==
    ASSUME AlTypes, NEW kinds
    PROVE  LET f == Al!Cancelled(kinds) IN
           /\ f \in Seq(AlNotes) /\ DOMAIN f = DOMAIN notes
           /\ \A n \in DOMAIN notes :
                 \/ f[n] = notes[n]
                 \/ notes[n].state = "pending" /\ f[n] = [notes[n] EXCEPT !.state = "cancelled"]
  <1> DEFINE f == Al!Cancelled(kinds)
  <1>1. notes \in Seq(AlNotes) /\ \A m \in DOMAIN notes : notes[m] \in AlNotes
    BY ElementOfSeq DEF AlTypes
  <1>2. DOMAIN f = DOMAIN notes /\ f = [m \in DOMAIN f |-> f[m]]
    BY DEF Al!Cancelled
  <1>3. \A n \in DOMAIN notes :
            \/ f[n] = notes[n]
            \/ notes[n].state = "pending" /\ f[n] = [notes[n] EXCEPT !.state = "cancelled"]
    BY DEF Al!Cancelled
  <1>4. \A x \in AlNotes : [x EXCEPT !.state = "cancelled"] \in AlNotes
    BY DEF AlNotes
  <1> HIDE DEF f
  <1>5. ASSUME NEW n \in DOMAIN notes PROVE f[n] \in AlNotes
    <2>1. notes[n] \in AlNotes /\ (f[n] = notes[n] \/ f[n] = [notes[n] EXCEPT !.state = "cancelled"])
      BY <1>1, <1>3
    <2> QED
      BY <2>1, <1>4
  <1>6. f \in Seq(AlNotes)
    BY <1>1, <1>2, <1>5, AlList
  <1> QED
    BY <1>2, <1>3, <1>6 DEF f

-----------------------------------------------------------------------------
\* What a notification of a streak that begins says.
AlTells(x) ==
    [kind |-> x, epoch |-> Al!EpochOf(x), cycle |-> counter[x].cycle + 1,
     revision |-> telegram.revision, state |-> "pending", posts |-> 0, taken |-> 0]

\* A list that has grown by one notification of each of these kinds.
AlGrown(s, K) ==
    /\ s \in Seq(AlNotes) /\ DOMAIN notes \subseteq DOMAIN s
    /\ \A n \in DOMAIN notes :
          \/ s[n] = notes[n]
          \/ notes[n].state = "pending" /\ s[n] = [notes[n] EXCEPT !.state = "cancelled"]
    /\ \A n \in DOMAIN s \ DOMAIN notes : s[n].kind \in K /\ s[n] = AlTells(s[n].kind)
    /\ \A n, m \in DOMAIN s \ DOMAIN notes : n # m => s[n].kind # s[m].kind

\* A notification of another kind makes it grow.
LEMMA AlTold ==
    ASSUME AlTypes, NEW s, NEW K, AlGrown(s, K), NEW x \in Al!Kinds, x \notin K, NEW b \in BOOLEAN,
           NEW L, K \subseteq L, b => x \in L
    PROVE  AlGrown(IF b THEN Append(s, AlTells(x)) ELSE s, L)
  <1> DEFINE t == AlTells(x)  u == Append(s, t)
  <1>1. t \in AlNotes /\ t.kind = x
    <2>1. counter[x].cycle + 1 \in Nat /\ Al!EpochOf(x) \in Nat /\ telegram.revision \in Nat
      BY AlertBounds DEF AlTypes, Al!EpochOf, Al!AlertConstants
    <2>2. 0 \in 0 .. MaxPosts
      BY AlertBounds DEF Al!AlertConstants
    <2> QED
      BY <2>1, <2>2 DEF AlTells, AlNotes
  <1>2. s \in Seq(AlNotes) /\ DOMAIN s = 1 .. Len(s) /\ Len(s) \in Nat
    BY LenProperties DEF AlGrown
  <1>3. CASE b
    <2> HIDE DEF t
    <2>1. /\ u \in Seq(AlNotes) /\ DOMAIN u = 1 .. Len(s) + 1 /\ u[Len(s) + 1] = t
          /\ \A n \in 1 .. Len(s) : u[n] = s[n]
      BY <1>1, <1>2, AppendProperties
    <2> HIDE DEF u
    <2>2. DOMAIN s \subseteq DOMAIN u /\ \A n \in DOMAIN u : n \in DOMAIN s \/ n = Len(s) + 1
      BY <1>2, <2>1
    <2>3. \A n \in DOMAIN s : u[n] = s[n]
      BY <1>2, <2>1
    <2>4. Len(s) + 1 \notin DOMAIN s /\ Len(s) + 1 \notin DOMAIN notes
      <3>1. Len(s) + 1 \notin DOMAIN s
        BY <1>2
      <3> QED
        BY <3>1 DEF AlGrown
    <2>5. t = AlTells(t.kind)
      BY <1>1 DEF t
    <2>6. AlGrown(u, L)
      <3>1. DOMAIN notes \subseteq DOMAIN u
        BY <2>2 DEF AlGrown
      <3>2. \A n \in DOMAIN notes :
                \/ u[n] = notes[n]
                \/ notes[n].state = "pending" /\ u[n] = [notes[n] EXCEPT !.state = "cancelled"]
        BY <2>3 DEF AlGrown
      <3>3. ASSUME NEW n \in DOMAIN u \ DOMAIN notes
            PROVE  u[n].kind \in L /\ u[n] = AlTells(u[n].kind)
        <4>1. CASE n \in DOMAIN s
          <5>1. u[n] = s[n] /\ s[n].kind \in K /\ s[n] = AlTells(s[n].kind)
            BY <2>3, <3>3, <4>1 DEF AlGrown
          <5> QED
            BY <5>1
        <4>2. CASE n = Len(s) + 1
          BY <1>1, <1>3, <2>1, <2>5, <4>2
        <4> QED
          BY <4>1, <4>2, <2>2
      <3>4. ASSUME NEW n \in DOMAIN u \ DOMAIN notes, NEW m \in DOMAIN u \ DOMAIN notes, n # m
            PROVE  u[n].kind # u[m].kind
        <4>1. ASSUME NEW i \in DOMAIN s \ DOMAIN notes PROVE u[i].kind # x
          <5>1. u[i].kind \in K
            BY <2>3, <4>1 DEF AlGrown
          <5> QED
            BY <5>1
        <4>2. CASE n \in DOMAIN s /\ m \in DOMAIN s
          BY <2>3, <3>4, <4>2 DEF AlGrown
        <4>3. CASE n = Len(s) + 1
          BY <1>1, <2>1, <2>2, <3>4, <4>1, <4>3
        <4>4. CASE m = Len(s) + 1
          BY <1>1, <2>1, <2>2, <3>4, <4>1, <4>4
        <4> QED
          BY <4>2, <4>3, <4>4, <2>2
      <3> QED
        BY <2>1, <3>1, <3>2, <3>3, <3>4 DEF AlGrown
    <2> QED
      BY <1>3, <2>6 DEF u, t
  <1>4. CASE ~ b
    <2>1. AlGrown(s, L)
      BY DEF AlGrown
    <2> QED
      BY <1>4, <2>1
  <1> QED
    BY <1>3, <1>4

\* A list that has grown by notifications of streaks that begin is sound.
LEMMA AlGrownWell ==
    ASSUME AlInv, AlTypes', AlLater, UNCHANGED <<epoch, telegram, alWorker>>, NEW K, K \subseteq Al!Kinds,
           AlGrown(notes', K), \A x \in K : counter'[x].cycle = counter[x].cycle + 1
    PROVE  AlSame /\ Al!OnePerStreak' /\ (\A n \in DOMAIN notes : AlNote(notes[n]))' /\ AlWorker'
  <1> PICK s : s = notes'
    OBVIOUS
  <1>1. /\ s \in Seq(AlNotes) /\ DOMAIN notes \subseteq DOMAIN s
        /\ \A n \in DOMAIN notes :
              \/ s[n] = notes[n]
              \/ notes[n].state = "pending" /\ s[n] = [notes[n] EXCEPT !.state = "cancelled"]
        /\ \A n \in DOMAIN s \ DOMAIN notes : s[n].kind \in K /\ s[n] = AlTells(s[n].kind)
        /\ \A n, m \in DOMAIN s \ DOMAIN notes : n # m => s[n].kind # s[m].kind
    BY DEF AlGrown
  <1>2. \A n \in DOMAIN s : s[n] \in AlNotes
    BY <1>1, ElementOfSeq
  <1>3. \A n \in DOMAIN notes : AlNote(notes[n]) /\ notes[n] \in AlNotes
    BY DEF AlInv, AlNote
  <1>4. ASSUME NEW n \in DOMAIN notes
        PROVE  /\ n \in DOMAIN s /\ s[n].kind = notes[n].kind /\ s[n].epoch = notes[n].epoch
               /\ s[n].cycle = notes[n].cycle /\ s[n].revision = notes[n].revision
    <2>1. s[n] = notes[n] \/ s[n] = [notes[n] EXCEPT !.state = "cancelled"]
      BY <1>1
    <2> QED
      BY <2>1, <1>1, <1>3 DEF AlNotes
  <1>5. AlSame
    BY <1>4 DEF AlSame
  <1>6. ASSUME NEW n \in DOMAIN s \ DOMAIN notes
        PROVE  /\ s[n].kind \in K /\ s[n].epoch = Al!EpochOf(s[n].kind) /\ s[n].cycle = counter[s[n].kind].cycle + 1
               /\ s[n].revision = telegram.revision /\ s[n].state = "pending" /\ s[n].posts = 0 /\ s[n].taken = 0
    <2> PICK k : k = s[n].kind
      OBVIOUS
    <2>1. k \in K /\ s[n] = AlTells(k)
      BY <1>1
    <2> QED
      BY <2>1 DEF AlTells
  <1>7. ASSUME NEW n \in DOMAIN s PROVE AlNote(s[n])'
    <2> PICK x, k : x = s[n] /\ k = x.kind
      OBVIOUS
    <2>1. x \in AlNotes /\ k \in Al!Kinds
      BY <1>2 DEF AlNotes
    <2>2. Al!EpochOf(k)' = Al!EpochOf(k)
      BY DEF Al!EpochOf
    <2>3. counter[k].cycle \in Nat /\ counter'[k].cycle \in Nat /\ Al!EpochOf(k) \in Nat /\ telegram.revision \in Nat
      <3>1. Al!EpochOf(k) \in Nat
        BY AlEpochs DEF AlInv
      <3> QED
        BY <2>1, <3>1 DEF AlTypes, AlInv
    <2>4. counter[k].cycle <= counter'[k].cycle
      BY <2>1 DEF AlLater
    <2>5. CASE n \in DOMAIN notes
      <3>1. /\ AlNote(notes[n]) /\ notes[n].kind = k /\ notes[n].epoch = x.epoch
            /\ notes[n].cycle = x.cycle /\ notes[n].revision = x.revision
        BY <1>3, <1>4, <2>5
      <3>2. x.cycle \in Nat /\ x.epoch \in Nat /\ x.revision \in Nat
        BY <2>1 DEF AlNotes
      <3>3. x.cycle <= counter[k].cycle /\ x.epoch <= Al!EpochOf(k) /\ x.revision <= telegram.revision
        BY <3>1 DEF AlNote, Al!EpochOf
      <3>4. x.cycle <= counter'[k].cycle
        BY <2>3, <2>4, <3>2, <3>3
      <3>5. x = notes[n] \/ x.state = "cancelled"
        <4>1. x = notes[n] \/ x = [notes[n] EXCEPT !.state = "cancelled"]
          BY <1>1, <2>5
        <4> QED
          BY <4>1, <1>3, <2>5 DEF AlNotes
      <3>6. /\ x.state = "pending" => x.posts < MaxPosts /\ x.taken = 0
            /\ x.state = "sending" => x.posts > 0
        BY <3>1, <3>5 DEF AlNote
      <3> QED
        BY <2>1, <2>2, <3>3, <3>4, <3>6 DEF AlNote, Al!EpochOf
    <2>6. CASE n \notin DOMAIN notes
      <3>1. /\ k \in K /\ x.epoch = Al!EpochOf(k) /\ x.cycle = counter[k].cycle + 1
            /\ x.revision = telegram.revision /\ x.state = "pending" /\ x.posts = 0 /\ x.taken = 0
        BY <1>6, <2>6 DEF Al!EpochOf
      <3>2. counter'[k].cycle = counter[k].cycle + 1
        BY <3>1
      <3>3. x.cycle <= counter'[k].cycle /\ x.epoch <= Al!EpochOf(k) /\ x.revision <= telegram.revision
        BY <2>3, <3>1, <3>2
      <3>4. x.posts < MaxPosts
        BY <3>1, AlertBounds DEF Al!AlertConstants
      <3> QED
        BY <2>1, <2>2, <3>1, <3>3, <3>4 DEF AlNote, Al!EpochOf
    <2> QED
      BY <2>5, <2>6
  <1>8. ASSUME NEW n \in DOMAIN s, NEW m \in DOMAIN s, n # m, s[n].kind = s[m].kind, s[n].cycle = s[m].cycle
        PROVE  FALSE
    <2>1. ASSUME NEW i \in DOMAIN notes, NEW j \in DOMAIN s \ DOMAIN notes,
                 s[i].kind = s[j].kind, s[i].cycle = s[j].cycle
          PROVE  FALSE
      <3> PICK k : k = s[j].kind
        OBVIOUS
      <3>1. s[j].cycle = counter[k].cycle + 1
        BY <1>6, <2>1
      <3>2. notes[i].kind = k /\ notes[i].cycle = counter[k].cycle + 1
        BY <1>4, <2>1, <3>1
      <3>3. k \in Al!Kinds
        BY <1>3, <2>1, <3>2 DEF AlNotes
      <3>4. counter[k].cycle \in Nat
        BY <3>3 DEF AlTypes, AlInv
      <3>5. notes[i].cycle <= counter[k].cycle
        BY <1>3, <2>1, <3>2 DEF AlNote
      <3> QED
        BY <3>2, <3>4, <3>5
    <2>2. CASE n \in DOMAIN notes /\ m \in DOMAIN notes
      <3>1. notes[n].kind = notes[m].kind /\ notes[n].cycle = notes[m].cycle
        BY <1>4, <1>8, <2>2
      <3> QED
        BY <1>8, <2>2, <3>1 DEF AlInv, Al!OnePerStreak
    <2>3. CASE n \notin DOMAIN notes /\ m \notin DOMAIN notes
      BY <1>1, <1>8, <2>3
    <2> QED
      BY <1>8, <2>1, <2>2, <2>3
  <1>9. Al!OnePerStreak'
    BY <1>8 DEF Al!OnePerStreak
  <1>10. (\A n \in DOMAIN notes : AlNote(notes[n]))'
    BY <1>7
  <1>11. AlWorker'
    <2>1. \A n \in DOMAIN notes : notes[n].state = "sending" => n \in DOMAIN s /\ s[n] = notes[n]
      BY <1>1
    <2> QED
      BY <2>1 DEF AlInv, AlWorker
  <1> QED
    BY <1>5, <1>9, <1>10, <1>11

-----------------------------------------------------------------------------
\* The kinds a result is counted for.
AlOn(k, id, g) ==
    {x \in IF g /\ k # "module" THEN Al!SimKinds ELSE {k} :
        limit[x] > 0 /\ (x = "module" => id > counter[x].observed)}

\* The failures of a kind with a result more.
AlFailures(x, id, g) == Al!Cardinality(Al!Streak(Al!Merge(outcomes[x], id, g, id)))

\* The kinds of which a streak begins.
AlRaised(k, id, g) ==
    {x \in AlOn(k, id, g) : AlFailures(x, id, g) >= limit[x] /\ ~ counter[x].active}

\* What counting a result does to a kind it is counted for.
AlCounts(x, k, id, g) ==
    /\ counter'[x] = [failures |-> AlFailures(x, id, g), active |-> AlFailures(x, id, g) >= limit[x],
                      cycle |-> counter[x].cycle + (IF x \in AlRaised(k, id, g) THEN 1 ELSE 0),
                      observed |-> Al!Max({id, counter[x].observed})]
    /\ outcomes'[x] = Al!Recent(Al!Merge(outcomes[x], id, g, id))
    /\ evidence'[x] = Al!Merge(evidence[x], id, g, id)

\* What counting a result does.
LEMMA AlObserved ==
    ASSUME NEW k, NEW id, NEW g, Al!Observe(k, id, g, id)
    PROVE  /\ DOMAIN counter' = Al!Kinds /\ DOMAIN outcomes' = Al!Kinds /\ DOMAIN evidence' = Al!Kinds
           /\ counter' = [x \in Al!Kinds |-> counter'[x]]
           /\ \A x \in Al!Kinds : x \notin AlOn(k, id, g) =>
                 counter'[x] = counter[x] /\ outcomes'[x] = outcomes[x] /\ evidence'[x] = evidence[x]
           /\ \A x \in Al!Kinds : x \in AlOn(k, id, g) => AlCounts(x, k, id, g)
           /\ \E K :
                 LET b(x) == x \in AlRaised(k, id, g) /\ telegram.on
                     Told(list, x) == IF b(x) THEN Append(list, AlTells(x)) ELSE list
                 IN  notes' = Told(Told(Told(Al!Cancelled(K), "sip"), "sms"), "module")
  <1> DEFINE on == AlOn(k, id, g)
             seen == [x \in on |-> Al!Merge(outcomes[x], id, g, id)]
             fails == [x \in on |-> Al!Cardinality(Al!Streak(seen[x]))]
             up == {x \in on : Al!Raises(x, fails[x])}
  <1>1. on = {x \in IF g /\ k # "module" THEN Al!SimKinds ELSE {k} :
                 limit[x] > 0 /\ (x = "module" => id > counter[x].observed)}
    BY DEF AlOn
  <1>2. \A x \in on : fails[x] = AlFailures(x, id, g)
    BY DEF AlFailures
  <1>3. up = AlRaised(k, id, g)
    BY <1>2 DEF AlRaised, Al!Raises
  <1>4. /\ counter' = [x \in Al!Kinds |->
                IF x \notin on THEN counter[x]
                ELSE [failures |-> fails[x], active |-> fails[x] >= limit[x],
                      cycle |-> counter[x].cycle + (IF x \in up THEN 1 ELSE 0),
                      observed |-> Al!Max({id, counter[x].observed})]]
        /\ outcomes' = [x \in Al!Kinds |-> IF x \in on THEN Al!Recent(seen[x]) ELSE outcomes[x]]
        /\ evidence' = [x \in Al!Kinds |-> IF x \in on THEN Al!Merge(evidence[x], id, g, id) ELSE evidence[x]]
    BY DEF Al!Observe, AlOn
  <1>5. LET b(x) == x \in up /\ telegram.on
            Told(list, x) == IF b(x) THEN Append(list, AlTells(x)) ELSE list
        IN  notes' = Told(Told(Told(Al!Cancelled({x \in on : fails[x] < limit[x]}), "sip"), "sms"), "module")
    BY DEF Al!Observe, AlTells, AlOn
  <1>6. \A x \in on : seen[x] = Al!Merge(outcomes[x], id, g, id)
    OBVIOUS
  <1> HIDE DEF on, seen, fails, up
  <1>7. \A x \in Al!Kinds : x \notin on =>
            counter'[x] = counter[x] /\ outcomes'[x] = outcomes[x] /\ evidence'[x] = evidence[x]
    BY <1>4
  <1>8. ASSUME NEW x \in Al!Kinds, x \in on PROVE AlCounts(x, k, id, g)
    BY <1>2, <1>3, <1>4, <1>6, <1>8 DEF AlCounts
  <1>9. DOMAIN counter' = Al!Kinds /\ DOMAIN outcomes' = Al!Kinds /\ DOMAIN evidence' = Al!Kinds
    BY <1>4
  <1>10. counter' = [x \in Al!Kinds |-> counter'[x]]
    BY <1>4
  <1>11. \E K :
            LET b(x) == x \in AlRaised(k, id, g) /\ telegram.on
                Told(list, x) == IF b(x) THEN Append(list, AlTells(x)) ELSE list
            IN  notes' = Told(Told(Told(Al!Cancelled(K), "sip"), "sms"), "module")
    BY <1>3, <1>5
  <1> QED
    BY <1>7, <1>8, <1>9, <1>10, <1>11 DEF on

\* Counting a result keeps the counts, and tells of the streaks that begin.
LEMMA AlObserve ==
    ASSUME AlInv, NEW k \in Al!Kinds, NEW id \in Nat \ {0}, NEW g \in BOOLEAN, Al!Observe(k, id, g, id),
           UNCHANGED <<epoch, limit, telegram, alWorker, troubles>>, polls' \in Nat,
           attempt' \in [Attempts -> [kind : Al!SimKinds \cup {"none"}, epoch : Nat,
                                      state : {"idle", "open", "good", "bad", "excused", "unknown"}]],
           \A a \in Attempts : attempt'[a].state # "idle" => attempt'[a].kind \in Al!SimKinds
    PROVE  AlGood
  <1> DEFINE F(x) == AlFailures(x, id, g)
  <1> PICK on, up : on = AlOn(k, id, g) /\ up = AlRaised(k, id, g)
    OBVIOUS
  <1>1. on \subseteq Al!Kinds /\ up \subseteq on
    BY DEF AlOn, AlRaised, Al!Kinds
  <1>2. ASSUME NEW x \in Al!Kinds, x \notin on
        PROVE  counter'[x] = counter[x] /\ outcomes'[x] = outcomes[x] /\ evidence'[x] = evidence[x]
    BY <1>2, AlObserved
  <1>3. ASSUME NEW x \in on
        PROVE  /\ counter'[x] = [failures |-> F(x), active |-> F(x) >= limit[x],
                                 cycle |-> counter[x].cycle + (IF x \in up THEN 1 ELSE 0),
                                 observed |-> Al!Max({id, counter[x].observed})]
               /\ outcomes'[x] = Al!Recent(Al!Merge(outcomes[x], id, g, id))
               /\ evidence'[x] = Al!Merge(evidence[x], id, g, id)
    <2>1. x \in Al!Kinds /\ x \in AlOn(k, id, g)
      BY <1>1
    <2>2. AlCounts(x, k, id, g)
      BY <2>1, AlObserved
    <2> QED
      BY <2>2 DEF AlCounts
  <1>4. \A x \in on : x \in up <=> F(x) >= limit[x] /\ ~ counter[x].active
    BY DEF AlRaised
  <1>5. \A x \in Al!Kinds : AlCount(x)
    BY DEF AlInv
  <1>6. /\ counter \in [Al!Kinds -> [failures : Nat, active : BOOLEAN, cycle : Nat, observed : Nat]]
        /\ limit \in [Al!Kinds -> Nat]
    BY AlertBounds DEF AlInv, AlTypes, Al!AlertConstants
  <1>7. ASSUME NEW x \in on
        PROVE  /\ AlResults(evidence'[x]) /\ outcomes'[x] = Al!Recent(evidence'[x])
               /\ F(x) = Cardinality(Al!Streak(evidence'[x]))
    <2>1. AlResults(evidence[x]) /\ outcomes[x] = Al!Recent(evidence[x])
      BY <1>1, <1>5 DEF AlCount
    <2>2. evidence'[x] = Al!Merge(evidence[x], id, g, id)
      BY <1>3
    <2>3. AlResults(evidence'[x])
      BY <2>1, <2>2, AlMerged
    <2>4. /\ Al!Streak(Al!Merge(outcomes[x], id, g, id)) = Al!Streak(evidence'[x])
          /\ Al!Recent(Al!Merge(outcomes[x], id, g, id)) = Al!Recent(evidence'[x])
      BY <2>1, <2>2, AlKept
    <2>5. F(x) = Cardinality(Al!Streak(evidence'[x]))
      BY <2>4, AlCounting DEF AlFailures
    <2> QED
      BY <1>3, <2>3, <2>4, <2>5
  <1>8. ASSUME NEW x \in on PROVE F(x) \in Nat
    <2>1. IsFiniteSet(evidence'[x]) /\ F(x) = Cardinality(Al!Streak(evidence'[x]))
      BY <1>7 DEF AlResults
    <2>2. IsFiniteSet(Al!Streak(evidence'[x]))
      <3>1. Al!Streak(evidence'[x]) \subseteq evidence'[x]
        BY DEF Al!Streak
      <3> QED
        BY <2>1, <3>1, FS_Subset
    <2> QED
      BY <2>1, <2>2, FS_CardinalityType
  <1> HIDE DEF F
  <1>9. ASSUME NEW x \in on
        PROVE  /\ counter'[x].failures = F(x) /\ (counter'[x].active <=> F(x) >= limit[x])
               /\ counter'[x].cycle = counter[x].cycle + (IF x \in up THEN 1 ELSE 0)
    <2> DEFINE a == F(x)  b == F(x) >= limit[x]  c == counter[x].cycle + (IF x \in up THEN 1 ELSE 0)
               d == Al!Max({id, counter[x].observed})
    <2>1. counter'[x] = [failures |-> a, active |-> b, cycle |-> c, observed |-> d]
      BY <1>3
    <2> HIDE DEF a, b, c, d
    <2>2. counter'[x].failures = a /\ counter'[x].active = b /\ counter'[x].cycle = c
      BY <2>1
    <2> QED
      BY <2>2 DEF a, b, c
  <1>10. ASSUME NEW x \in Al!Kinds PROVE AlCount(x)'
    <2>1. CASE x \in on
      BY <1>7, <1>9, <2>1 DEF AlCount
    <2>2. CASE x \notin on
      BY <1>2, <1>5, <2>2 DEF AlCount
    <2> QED
      BY <2>1, <2>2
  <1>11. ASSUME NEW x \in Al!Kinds
         PROVE  counter'[x] \in [failures : Nat, active : BOOLEAN, cycle : Nat, observed : Nat]
    <2>1. CASE x \in on
      <3>1. Al!Max({id, counter[x].observed}) \in Nat
        <4>1. id \in Nat /\ counter[x].observed \in Nat
          BY <1>6
        <4>2. Al!Max({id, counter[x].observed}) \in {id, counter[x].observed}
          BY <4>1, LaterTime
        <4> QED
          BY <4>1, <4>2
      <3>2. counter[x].cycle + (IF x \in up THEN 1 ELSE 0) \in Nat
        BY <1>6
      <3>3. F(x) \in Nat
        BY <1>8, <2>1
      <3> DEFINE b == F(x) >= limit[x]  c == counter[x].cycle + (IF x \in up THEN 1 ELSE 0)
                 d == Al!Max({id, counter[x].observed})
      <3>4. counter'[x] = [failures |-> F(x), active |-> b, cycle |-> c, observed |-> d]
        BY <1>3, <2>1
      <3>5. b \in BOOLEAN /\ c \in Nat /\ d \in Nat
        BY <3>1, <3>2
      <3> HIDE DEF b, c, d
      <3> QED
        BY <3>3, <3>4, <3>5
    <2>2. CASE x \notin on
      BY <1>2, <1>6, <2>2
    <2> QED
      BY <2>1, <2>2
  <1>12. counter' \in [Al!Kinds -> [failures : Nat, active : BOOLEAN, cycle : Nat, observed : Nat]]
    <2>1. counter' = [x \in Al!Kinds |-> counter'[x]]
      BY AlObserved
    <2> QED
      BY <1>11, <2>1
  <1>13. ASSUME NEW x \in Al!Kinds
         PROVE  /\ counter[x].cycle <= counter'[x].cycle
                /\ counter'[x].active /\ counter'[x].cycle = counter[x].cycle => counter[x].active
    <2>1. counter[x].cycle \in Nat /\ counter[x].active \in BOOLEAN
      BY <1>6
    <2>2. CASE x \in on
      <3>1. /\ counter'[x].active <=> F(x) >= limit[x]
            /\ counter'[x].cycle = counter[x].cycle + (IF x \in up THEN 1 ELSE 0)
        BY <1>9, <2>2
      <3>2. counter[x].cycle <= counter'[x].cycle /\ (x \in up => counter'[x].cycle # counter[x].cycle)
        BY <2>1, <3>1
      <3> QED
        BY <1>4, <2>2, <3>1, <3>2
    <2>3. CASE x \notin on
      BY <1>2, <2>1, <2>3
    <2> QED
      BY <2>2, <2>3
  <1>14. AlLater
    <2>1. epoch <= epoch' /\ telegram.revision <= telegram'.revision
      BY DEF AlInv, AlTypes
    <2> QED
      BY <1>13, <2>1 DEF AlLater
  <1>15. \E K \in SUBSET up : AlGrown(notes', K)
    <2> PICK C :
            LET b(x) == x \in up /\ telegram.on
                Told(list, x) == IF b(x) THEN Append(list, AlTells(x)) ELSE list
            IN  notes' = Told(Told(Told(Al!Cancelled(C), "sip"), "sms"), "module")
      BY AlObserved
    <2> DEFINE b(x) == x \in up /\ telegram.on
               s0 == Al!Cancelled(C)
               s1 == IF b("sip") THEN Append(s0, AlTells("sip")) ELSE s0
               s2 == IF b("sms") THEN Append(s1, AlTells("sms")) ELSE s1
               s3 == IF b("module") THEN Append(s2, AlTells("module")) ELSE s2
               K1 == {y \in {"sip"} : b("sip")}
               K2 == K1 \cup {y \in {"sms"} : b("sms")}
               K3 == K2 \cup {y \in {"module"} : b("module")}
    <2>1. notes' = s3
      OBVIOUS
    <2>2. "sip" \in Al!Kinds /\ "sms" \in Al!Kinds /\ "module" \in Al!Kinds
      BY DEF Al!Kinds, Al!SimKinds
    <2>3. "sip" \notin {} /\ "sms" \notin K1 /\ "module" \notin K2 /\ K3 \subseteq up
      OBVIOUS
    <2>4. b("sip") \in BOOLEAN /\ b("sms") \in BOOLEAN /\ b("module") \in BOOLEAN
      BY DEF AlInv, AlTypes
    <2> HIDE DEF b
    <2>5. AlTypes
      BY DEF AlInv
    <2>6. AlGrown(s0, {})
      <3> HIDE DEF s0
      <3>1. /\ s0 \in Seq(AlNotes) /\ DOMAIN s0 = DOMAIN notes
            /\ \A n \in DOMAIN notes :
                  \/ s0[n] = notes[n]
                  \/ notes[n].state = "pending" /\ s0[n] = [notes[n] EXCEPT !.state = "cancelled"]
        BY <2>5, AlCancelled DEF s0
      <3> QED
        BY <3>1 DEF AlGrown
    <2> HIDE DEF s0
    <2>7. AlGrown(s1, K1)
      <3>1. {} \subseteq K1 /\ (b("sip") => "sip" \in K1) /\ "sip" \notin {}
        OBVIOUS
      <3> HIDE DEF K1
      <3> QED
        BY <2>2, <2>4, <2>5, <2>6, <3>1, AlTold
    <2> HIDE DEF s1, K1
    <2>8. AlGrown(s2, K2)
      <3>1. K1 \subseteq K2 /\ (b("sms") => "sms" \in K2)
        OBVIOUS
      <3> HIDE DEF K2
      <3> QED
        BY <2>2, <2>3, <2>4, <2>5, <2>7, <3>1, AlTold
    <2> HIDE DEF s2, K2
    <2>9. AlGrown(s3, K3)
      <3>1. K2 \subseteq K3 /\ (b("module") => "module" \in K3)
        OBVIOUS
      <3> HIDE DEF K3
      <3> QED
        BY <2>2, <2>3, <2>4, <2>5, <2>8, <3>1, AlTold
    <2> HIDE DEF s3, K3
    <2> QED
      BY <2>1, <2>3, <2>9
  <1> PICK K \in SUBSET up : AlGrown(notes', K)
    BY <1>15
  <1>16. AlTypes'
    <2>1. notes' \in Seq(AlNotes)
      BY DEF AlGrown
    <2>2. DOMAIN outcomes' = Al!Kinds /\ DOMAIN evidence' = Al!Kinds
      BY AlObserved
    <2> QED
      BY <1>12, <2>1, <2>2 DEF AlInv, AlTypes
  <1>17. \A x \in K : counter'[x].cycle = counter[x].cycle + 1
    BY <1>1, <1>9
  <1>18. K \subseteq Al!Kinds
    BY <1>1
  <1>19. AlSame /\ Al!OnePerStreak' /\ (\A n \in DOMAIN notes : AlNote(notes[n]))' /\ AlWorker'
    BY <1>14, <1>16, <1>17, <1>18, AlGrownWell
  <1> QED
    BY <1>10, <1>14, <1>16, <1>19 DEF AlGood

-----------------------------------------------------------------------------
\* A step that leaves settings, counts and notifications alone.
LEMMA AlQuiet ==
    ASSUME AlInv, UNCHANGED <<epoch, limit, telegram, counter, outcomes, evidence, notes, alWorker, troubles>>,
           polls' \in Nat,
           attempt' \in [Attempts -> [kind : Al!SimKinds \cup {"none"}, epoch : Nat,
                                      state : {"idle", "open", "good", "bad", "excused", "unknown"}]],
           \A a \in Attempts : attempt'[a].state # "idle" => attempt'[a].kind \in Al!SimKinds
    PROVE  AlGood
  <1>1. AlTypes'
    BY DEF AlInv, AlTypes
  <1>2. AlWorker'
    BY DEF AlInv, AlWorker
  <1>3. AlLater
    BY DEF AlInv, AlTypes, AlLater
  <1>4. AlSame
    BY DEF AlSame
  <1>5. Al!OnePerStreak'
    BY DEF AlInv, Al!OnePerStreak
  <1>6. \A k \in Al!Kinds : AlCount(k)'
    BY DEF AlInv, AlCount
  <1>7. ASSUME NEW n \in DOMAIN notes' PROVE AlNote(notes[n])'
    <2>1. AlNote(notes[n])
      BY <1>7 DEF AlInv
    <2> QED
      BY <2>1 DEF AlNote, Al!EpochOf
  <1> QED
    BY <1>1, <1>2, <1>3, <1>4, <1>5, <1>6, <1>7 DEF AlGood

\* A step of the worker: it changes notifications.
LEMMA AlDelivered ==
    ASSUME AlInv, UNCHANGED <<epoch, limit, telegram, attempt, counter, outcomes, evidence, polls>>,
           troubles' \in 0 .. MaxTroubles, notes' \in Seq(AlNotes), DOMAIN notes' = DOMAIN notes, AlSame,
           \A n \in DOMAIN notes : AlState(notes'[n]), AlWorker'
    PROVE  AlGood
  <1>1. AlTypes'
    BY DEF AlInv, AlTypes
  <1>2. AlLater
    BY DEF AlInv, AlTypes, AlLater
  <1>3. \A k \in Al!Kinds : AlCount(k)'
    BY DEF AlInv, AlCount
  <1>4. Al!OnePerStreak' /\ (\A n \in DOMAIN notes : AlNote(notes[n]))'
    BY <1>1, <1>2, AlNotesKept
  <1> QED
    BY <1>1, <1>2, <1>3, <1>4 DEF AlGood

\* Cancelling is not noticed by the worker.
LEMMA AlCancels ==
    ASSUME AlInv, NEW kinds, notes' = Al!Cancelled(kinds), UNCHANGED alWorker
    PROVE  /\ notes' \in Seq(AlNotes) /\ DOMAIN notes' = DOMAIN notes /\ AlSame
           /\ (\A n \in DOMAIN notes : AlState(notes'[n])) /\ AlWorker'
  <1>1. /\ notes' \in Seq(AlNotes) /\ DOMAIN notes' = DOMAIN notes
        /\ \A n \in DOMAIN notes :
              \/ notes'[n] = notes[n]
              \/ notes[n].state = "pending" /\ notes'[n] = [notes[n] EXCEPT !.state = "cancelled"]
    BY AlCancelled DEF AlInv
  <1>2. ASSUME NEW n \in DOMAIN notes
        PROVE  /\ n \in DOMAIN notes' /\ notes'[n].kind = notes[n].kind /\ notes'[n].epoch = notes[n].epoch
               /\ notes'[n].cycle = notes[n].cycle /\ notes'[n].revision = notes[n].revision
               /\ AlState(notes'[n])
    <2>1. AlNote(notes[n]) /\ notes[n] \in AlNotes
      BY <1>2 DEF AlInv, AlNote
    <2>2. CASE notes'[n] = notes[n]
      BY <1>1, <2>1, <2>2 DEF AlNote, AlState
    <2>3. CASE notes'[n] = [notes[n] EXCEPT !.state = "cancelled"]
      BY <1>1, <2>1, <2>3 DEF AlNotes, AlState
    <2> QED
      BY <1>1, <2>2, <2>3
  <1>3. AlSame
    BY <1>2 DEF AlSame
  <1>4. AlWorker'
    <2>1. \A n \in DOMAIN notes : notes[n].state = "sending" => notes'[n] = notes[n]
      BY <1>1
    <2> QED
      BY <1>1, <2>1 DEF AlInv, AlWorker
  <1> QED
    BY <1>1, <1>2, <1>3, <1>4

\* Nothing is counted of nothing.
LEMMA AlNothing ==
    AlResults({}) /\ Al!Recent({}) = {} /\ Cardinality(Al!Streak({})) = 0
  <1>1. Al!Recent({}) = {} /\ Al!Streak({}) = {}
    BY DEF Al!Recent, Al!Streak
  <1>2. AlResults({})
    BY FS_EmptySet DEF AlResults
  <1> QED
    BY <1>1, <1>2, FS_EmptySet

\* A message or a call begins.
LEMMA AlBegin ==
    ASSUME AlInv, NEW a \in Attempts, NEW s \in Al!SimKinds, Al!Begin(a, s)
    PROVE  AlGood
  <1>1. attempt' = [attempt EXCEPT ![a] = [kind |-> s, epoch |-> epoch, state |-> "open"]]
    BY DEF Al!Begin
  <1>2. [kind |-> s, epoch |-> epoch, state |-> "open"]
            \in [kind : Al!SimKinds \cup {"none"}, epoch : Nat,
                 state : {"idle", "open", "good", "bad", "excused", "unknown"}]
    BY AlertBounds DEF AlInv, AlTypes, Al!AlertConstants
  <1>3. /\ attempt' \in [Attempts -> [kind : Al!SimKinds \cup {"none"}, epoch : Nat,
                                      state : {"idle", "open", "good", "bad", "excused", "unknown"}]]
        /\ \A b \in Attempts : attempt'[b].state # "idle" => attempt'[b].kind \in Al!SimKinds
    BY <1>1, <1>2 DEF AlInv, AlTypes
  <1>4. UNCHANGED <<epoch, limit, telegram, counter, outcomes, evidence, notes, alWorker, troubles>> /\ polls' \in Nat
    BY DEF Al!Begin, Al!counts, Al!health, AlInv, AlTypes
  <1> QED
    BY <1>3, <1>4, AlQuiet

\* A result comes in.
LEMMA AlResult ==
    ASSUME AlInv, NEW a \in Attempts, NEW r \in {"good", "bad", "excused", "unknown"}, Al!Result(a, r)
    PROVE  AlGood
  <1>1. attempt' = [attempt EXCEPT ![a].state = r] /\ attempt[a].state # "idle"
    BY DEF Al!Result
  <1>2. attempt[a].kind \in Al!SimKinds /\ a \in Nat \ {0}
    BY <1>1, AlertBounds DEF AlInv, AlTypes, Al!AlertConstants
  <1>3. attempt' \in [Attempts -> [kind : Al!SimKinds \cup {"none"}, epoch : Nat,
                                   state : {"idle", "open", "good", "bad", "excused", "unknown"}]]
    <2> DEFINE T == [kind : Al!SimKinds \cup {"none"}, epoch : Nat,
                     state : {"idle", "open", "good", "bad", "excused", "unknown"}]
               v == [attempt[a] EXCEPT !.state = r]
    <2>1. attempt \in [Attempts -> T] /\ attempt' = [attempt EXCEPT ![a] = v]
      BY <1>1 DEF AlInv, AlTypes
    <2>2. attempt[a] \in T
      BY <2>1
    <2>3. v \in T
      BY <2>2
    <2> HIDE DEF T, v
    <2>4. attempt' \in [Attempts -> T]
      BY <2>1, <2>3
    <2> QED
      BY <2>4 DEF T
  <1>4. ASSUME NEW b \in Attempts, attempt'[b].state # "idle" PROVE attempt'[b].kind \in Al!SimKinds
    <2>1. attempt'[b].kind = attempt[b].kind /\ (b # a => attempt'[b] = attempt[b])
      BY <1>1 DEF AlInv, AlTypes
    <2> QED
      BY <1>2, <1>4, <2>1 DEF AlInv, AlTypes
  <1>5. UNCHANGED <<epoch, limit, telegram, alWorker, troubles>> /\ polls' \in Nat
    BY DEF Al!Result, Al!health, AlInv, AlTypes
  <1>6. CASE r # "excused" /\ attempt[a].epoch = epoch
    <2> DEFINE g == r = "good"
    <2>1. Al!Observe(attempt[a].kind, a, g, a)
      BY <1>6 DEF Al!Result
    <2>2. g \in BOOLEAN
      OBVIOUS
    <2>3. attempt[a].kind \in Al!Kinds
      BY <1>2 DEF Al!Kinds
    <2> HIDE DEF g
    <2> QED
      BY <1>2, <1>3, <1>4, <1>5, <2>1, <2>2, <2>3, AlObserve
  <1>7. CASE ~ (r # "excused" /\ attempt[a].epoch = epoch)
    <2>1. UNCHANGED <<counter, outcomes, evidence, notes>>
      BY <1>7 DEF Al!Result, Al!counts
    <2> QED
      BY <1>3, <1>4, <1>5, <2>1, AlQuiet
  <1> QED
    BY <1>6, <1>7

\* Another card: its streaks are over, and they are numbered on.
LEMMA AlCardChanged ==
    ASSUME AlInv, Al!CardChanged
    PROVE  AlGood
  <1>1. /\ epoch' = epoch + 1 /\ epoch < MaxEpoch
        /\ counter' = [k \in Al!Kinds |-> IF k = "module" THEN counter[k]
                                          ELSE [Al!NoCounter EXCEPT !.cycle = counter[k].cycle]]
        /\ outcomes' = [k \in Al!Kinds |-> IF k = "module" THEN outcomes[k] ELSE {}]
        /\ evidence' = [k \in Al!Kinds |-> IF k = "module" THEN evidence[k] ELSE {}]
        /\ notes' = Al!Cancelled(Al!SimKinds)
        /\ UNCHANGED <<limit, telegram, attempt, polls, alWorker, troubles>>
    BY DEF Al!CardChanged, Al!health
  <1>2. counter \in [Al!Kinds -> [failures : Nat, active : BOOLEAN, cycle : Nat, observed : Nat]]
    BY DEF AlInv, AlTypes
  <1>3. epoch' \in 1 .. MaxEpoch /\ epoch <= epoch'
    BY <1>1, AlertBounds DEF AlInv, AlTypes, Al!AlertConstants
  <1>4. counter' \in [Al!Kinds -> [failures : Nat, active : BOOLEAN, cycle : Nat, observed : Nat]]
    BY <1>1, <1>2 DEF Al!NoCounter
  <1>5. notes' \in Seq(AlNotes) /\ DOMAIN notes' = DOMAIN notes /\ AlSame
        /\ (\A n \in DOMAIN notes : AlState(notes'[n])) /\ AlWorker'
    BY <1>1, AlCancels
  <1>6. AlTypes'
    BY <1>1, <1>3, <1>4, <1>5 DEF AlInv, AlTypes
  <1>7. AlLater
    <2>1. ASSUME NEW k \in Al!Kinds
          PROVE  /\ counter[k].cycle <= counter'[k].cycle
                 /\ counter'[k].active /\ counter'[k].cycle = counter[k].cycle => counter[k].active
      BY <1>1, <1>2 DEF Al!NoCounter
    <2>2. telegram.revision <= telegram'.revision
      BY <1>1 DEF AlInv, AlTypes
    <2> QED
      BY <1>3, <2>1, <2>2 DEF AlLater
  <1>8. ASSUME NEW k \in Al!Kinds PROVE AlCount(k)'
    <2>1. CASE k = "module"
      BY <1>1, <2>1 DEF AlCount, AlInv
    <2>2. CASE k # "module"
      <3>1. evidence'[k] = {} /\ outcomes'[k] = {} /\ counter'[k].failures = 0
        BY <1>1, <2>2 DEF Al!NoCounter
      <3> QED
        BY <3>1, AlNothing DEF AlCount
    <2> QED
      BY <2>1, <2>2
  <1>9. Al!OnePerStreak' /\ (\A n \in DOMAIN notes : AlNote(notes[n]))'
    BY <1>5, <1>6, <1>7, AlNotesKept
  <1> QED
    BY <1>5, <1>6, <1>7, <1>8, <1>9 DEF AlGood

\* A limit changes; without one there are no streaks.
LEMMA AlSetLimit ==
    ASSUME AlInv, NEW k \in Al!Kinds, NEW l \in Limits, Al!SetLimit(k, l)
    PROVE  AlGood
  <1>1. /\ limit' = [limit EXCEPT ![k] = l] /\ troubles < MaxTroubles /\ troubles' = troubles + 1
        /\ UNCHANGED <<epoch, telegram, attempt, polls, alWorker>>
    BY DEF Al!SetLimit, Al!Trouble, Al!health
  <1>2. /\ counter \in [Al!Kinds -> [failures : Nat, active : BOOLEAN, cycle : Nat, observed : Nat]]
        /\ DOMAIN outcomes = Al!Kinds /\ DOMAIN evidence = Al!Kinds
    BY DEF AlInv, AlTypes
  <1>3. \/ /\ counter' = [counter EXCEPT ![k] = Al!Closed(k)] /\ outcomes' = [outcomes EXCEPT ![k] = {}]
           /\ evidence' = [evidence EXCEPT ![k] = {}] /\ notes' = Al!Cancelled({k})
        \/ UNCHANGED <<counter, outcomes, evidence, notes>>
    BY DEF Al!SetLimit, Al!counts
  <1>4. limit' \in [Al!Kinds -> Limits] /\ troubles' \in 0 .. MaxTroubles
    BY <1>1, AlertBounds DEF AlInv, AlTypes, Al!AlertConstants
  <1>5. telegram.revision <= telegram'.revision /\ epoch <= epoch'
    BY <1>1 DEF AlInv, AlTypes
  <1>6. /\ notes' \in Seq(AlNotes) /\ DOMAIN notes' = DOMAIN notes /\ AlSame
        /\ (\A n \in DOMAIN notes : AlState(notes'[n])) /\ AlWorker'
    <2>1. CASE notes' = Al!Cancelled({k})
      BY <1>1, <2>1, AlCancels
    <2>2. CASE notes' = notes
      BY <1>1, <2>2 DEF AlInv, AlTypes, AlSame, AlState, AlNote, AlWorker
    <2> QED
      BY <1>3, <2>1, <2>2
  <1>7. ASSUME NEW x \in Al!Kinds
        PROVE  /\ counter'[x] \in [failures : Nat, active : BOOLEAN, cycle : Nat, observed : Nat]
               /\ counter[x].cycle <= counter'[x].cycle
               /\ counter'[x].active /\ counter'[x].cycle = counter[x].cycle => counter[x].active
               /\ AlCount(x)'
    <2>1. AlCount(x)
      BY DEF AlInv
    <2>2. CASE UNCHANGED <<counter, outcomes, evidence, notes>>
      BY <1>2, <2>1, <2>2 DEF AlCount
    <2>3. CASE counter' = [counter EXCEPT ![k] = Al!Closed(k)] /\ outcomes' = [outcomes EXCEPT ![k] = {}]
               /\ evidence' = [evidence EXCEPT ![k] = {}]
      <3>1. CASE x = k
        <4>1. counter'[x] = [counter[x] EXCEPT !.failures = 0, !.active = FALSE]
          BY <1>2, <2>3, <3>1 DEF Al!Closed
        <4>2. outcomes'[x] = {} /\ evidence'[x] = {}
          BY <1>2, <2>3, <3>1
        <4>3. counter[x] \in [failures : Nat, active : BOOLEAN, cycle : Nat, observed : Nat]
          BY <1>2
        <4>4. counter'[x].failures = 0 /\ counter'[x].cycle = counter[x].cycle /\ counter'[x].active = FALSE
          BY <4>1, <4>3
        <4>5. AlCount(x)'
          BY <4>2, <4>4, AlNothing DEF AlCount
        <4> PICK c : c = counter[x]
          OBVIOUS
        <4>6. counter'[x] \in [failures : Nat, active : BOOLEAN, cycle : Nat, observed : Nat]
          <5>1. c \in [failures : Nat, active : BOOLEAN, cycle : Nat, observed : Nat]
            BY <4>3
          <5>2. [c EXCEPT !.failures = 0, !.active = FALSE]
                    \in [failures : Nat, active : BOOLEAN, cycle : Nat, observed : Nat]
            BY <5>1
          <5> QED
            BY <4>1, <5>2
        <4>7. counter[x].cycle <= counter'[x].cycle
          BY <4>3, <4>4
        <4> QED
          BY <4>4, <4>5, <4>6, <4>7
      <3>2. CASE x # k
        BY <1>2, <2>1, <2>3, <3>2 DEF AlCount
      <3> QED
        BY <3>1, <3>2
    <2> QED
      BY <1>3, <2>2, <2>3
  <1>8. counter' = [x \in Al!Kinds |-> counter'[x]] /\ DOMAIN outcomes' = Al!Kinds /\ DOMAIN evidence' = Al!Kinds
    BY <1>2, <1>3
  <1>9. counter' \in [Al!Kinds -> [failures : Nat, active : BOOLEAN, cycle : Nat, observed : Nat]]
    BY <1>7, <1>8
  <1>10. AlTypes'
    BY <1>1, <1>4, <1>6, <1>8, <1>9 DEF AlInv, AlTypes
  <1>11. AlLater
    BY <1>5, <1>7 DEF AlLater
  <1>12. Al!OnePerStreak' /\ (\A n \in DOMAIN notes : AlNote(notes[n]))'
    BY <1>6, <1>10, <1>11, AlNotesKept
  <1> QED
    BY <1>6, <1>7, <1>10, <1>11, <1>12 DEF AlGood

\* Another destination.
LEMMA AlSetTelegram ==
    ASSUME AlInv, Al!SetTelegram
    PROVE  AlGood
  <1>1. PICK yes \in BOOLEAN : telegram' = [on |-> yes, revision |-> telegram.revision + 1]
    BY DEF Al!SetTelegram
  <1>2. /\ troubles < MaxTroubles /\ troubles' = troubles + 1 /\ notes' = Al!Cancelled(Al!Kinds)
        /\ UNCHANGED <<epoch, limit, attempt, counter, outcomes, evidence, polls, alWorker>>
    BY DEF Al!SetTelegram, Al!Trouble, Al!counts, Al!health
  <1>3. /\ notes' \in Seq(AlNotes) /\ DOMAIN notes' = DOMAIN notes /\ AlSame
        /\ (\A n \in DOMAIN notes : AlState(notes'[n])) /\ AlWorker'
    BY <1>2, AlCancels
  <1>4. /\ telegram' \in [on : BOOLEAN, revision : Nat] /\ telegram.revision <= telegram'.revision
        /\ troubles' \in 0 .. MaxTroubles
    BY <1>1, <1>2, AlertBounds DEF AlInv, AlTypes, Al!AlertConstants
  <1>5. AlTypes'
    BY <1>2, <1>3, <1>4 DEF AlInv, AlTypes
  <1>6. AlLater
    BY <1>2, <1>4 DEF AlInv, AlTypes, AlLater
  <1>7. \A k \in Al!Kinds : AlCount(k)'
    BY <1>2 DEF AlInv, AlCount
  <1>8. Al!OnePerStreak' /\ (\A n \in DOMAIN notes : AlNote(notes[n]))'
    BY <1>3, <1>5, <1>6, AlNotesKept
  <1> QED
    BY <1>3, <1>5, <1>6, <1>7, <1>8 DEF AlGood

\* A poll of the module's health.
LEMMA AlPoll ==
    ASSUME AlInv, NEW found, NEW registered \in BOOLEAN, NEW fresh \in BOOLEAN, Al!Poll(found, registered, fresh)
    PROVE  AlGood
  <1>1. /\ polls' = polls + 1 /\ UNCHANGED <<epoch, limit, telegram, attempt, alWorker, troubles>>
    BY DEF Al!Poll
  <1>2. polls' \in Nat /\ polls + 1 \in Nat \ {0}
    BY <1>1 DEF AlInv, AlTypes
  <1>3. \/ Al!Observe("module", polls + 1, TRUE, polls + 1)
        \/ Al!Observe("module", polls + 1, FALSE, polls + 1)
        \/ UNCHANGED <<counter, outcomes, evidence, notes>>
    BY DEF Al!Poll, Al!counts
  <1>4. /\ attempt' \in [Attempts -> [kind : Al!SimKinds \cup {"none"}, epoch : Nat,
                                      state : {"idle", "open", "good", "bad", "excused", "unknown"}]]
        /\ \A a \in Attempts : attempt'[a].state # "idle" => attempt'[a].kind \in Al!SimKinds
    BY <1>1 DEF AlInv, AlTypes
  <1>5. CASE UNCHANGED <<counter, outcomes, evidence, notes>>
    BY <1>1, <1>2, <1>4, <1>5, AlQuiet
  <1>6. "module" \in Al!Kinds
    BY DEF Al!Kinds
  <1>7. ASSUME NEW g \in BOOLEAN, Al!Observe("module", polls + 1, g, polls + 1) PROVE AlGood
    BY <1>1, <1>2, <1>4, <1>6, <1>7, AlObserve
  <1> QED
    BY <1>3, <1>5, <1>7

-----------------------------------------------------------------------------
\* One notification changes, and stays what it is about.
AlTouches(w, v) ==
    /\ notes' = [notes EXCEPT ![w] = v] /\ v \in AlNotes /\ AlState(v)
    /\ v.kind = notes[w].kind /\ v.epoch = notes[w].epoch
    /\ v.cycle = notes[w].cycle /\ v.revision = notes[w].revision

\* A step of the worker that touches one notification, or none.
LEMMA AlTouched ==
    ASSUME AlInv, UNCHANGED <<epoch, limit, telegram, attempt, counter, outcomes, evidence, polls>>,
           troubles' \in 0 .. MaxTroubles, AlWorker', NEW w \in DOMAIN notes, NEW v,
           AlTouches(w, v)
    PROVE  AlGood
  <1>1. notes \in Seq(AlNotes) /\ \A n \in DOMAIN notes : AlNote(notes[n])
    BY DEF AlInv, AlTypes
  <1>2. notes' = [notes EXCEPT ![w] = v] /\ v \in AlNotes
    BY DEF AlTouches
  <1>3. /\ notes' \in Seq(AlNotes) /\ DOMAIN notes' = DOMAIN notes /\ notes'[w] = v
        /\ \A m \in DOMAIN notes : m # w => notes'[m] = notes[m]
    BY <1>1, <1>2, AlOne
  <1>4. AlSame
    BY <1>3 DEF AlSame, AlTouches
  <1>5. \A n \in DOMAIN notes : AlState(notes'[n])
    BY <1>1, <1>3 DEF AlNote, AlState, AlTouches
  <1> QED
    BY <1>3, <1>4, <1>5, AlDelivered

\* A step of the worker that touches nothing.
LEMMA AlUntouched ==
    ASSUME AlInv, UNCHANGED <<epoch, limit, telegram, attempt, counter, outcomes, evidence, polls>>,
           troubles' \in 0 .. MaxTroubles, AlWorker', notes' = notes
    PROVE  AlGood
  <1>1. notes \in Seq(AlNotes) /\ \A n \in DOMAIN notes : AlNote(notes[n])
    BY DEF AlInv, AlTypes
  <1>2. AlSame /\ \A n \in DOMAIN notes : AlState(notes'[n])
    BY <1>1 DEF AlSame, AlNote, AlState
  <1> QED
    BY <1>1, <1>2, AlDelivered

\* What the worker counts of trouble.
LEMMA AlTroubles ==
    ASSUME AlInv, Al!Quiet \/ Al!Trouble
    PROVE  troubles' \in 0 .. MaxTroubles
  BY AlertBounds DEF AlInv, AlTypes, Al!Quiet, Al!Trouble, Al!AlertConstants

\* A claim is written before anything is sent.
LEMMA AlClaim ==
    ASSUME AlInv, NEW n \in DOMAIN notes, Al!Claim(n)
    PROVE  AlGood
  <1> DEFINE v == [notes[n] EXCEPT !.state = "sending", !.posts = notes[n].posts + 1]
  <1>1. /\ alWorker.at = "idle" /\ notes[n].state = "pending" /\ notes' = [notes EXCEPT ![n] = v]
        /\ UNCHANGED <<epoch, limit, telegram, attempt, counter, outcomes, evidence, polls>>
        /\ \/ alWorker' = [Al!Idle EXCEPT !.at = "claimed", !.note = n]
           \/ alWorker' = alWorker
        /\ (Al!Quiet \/ Al!Trouble)
    BY DEF Al!Claim, Al!At, Al!Others, Al!counts, Al!health
  <1>2. AlNote(notes[n]) /\ notes[n] \in AlNotes /\ notes \in Seq(AlNotes)
    BY DEF AlInv, AlTypes, AlNote
  <1>3. notes[n].posts \in 0 .. MaxPosts /\ notes[n].posts < MaxPosts /\ notes[n].taken = 0
    BY <1>1, <1>2 DEF AlNote, AlNotes
  <1>4. notes[n].posts + 1 \in 0 .. MaxPosts /\ notes[n].posts + 1 > 0
    BY <1>3, AlertBounds DEF Al!AlertConstants
  <1>5. /\ v \in AlNotes /\ v.state = "sending" /\ v.posts = notes[n].posts + 1 /\ v.taken = 0
        /\ v.kind = notes[n].kind /\ v.epoch = notes[n].epoch
        /\ v.cycle = notes[n].cycle /\ v.revision = notes[n].revision
    BY <1>2, <1>3, <1>4 DEF AlNotes
  <1> HIDE DEF v
  <1>6. AlTouches(n, v)
    BY <1>1, <1>4, <1>5 DEF AlTouches, AlState
  <1>7. AlWorker'
    <2>1. DOMAIN notes' = DOMAIN notes /\ notes'[n] = v /\ n \in Nat
      BY <1>1, <1>2, LenProperties
    <2>2. CASE alWorker' = [Al!Idle EXCEPT !.at = "claimed", !.note = n]
      BY <1>5, <2>1, <2>2 DEF AlWorker, Al!Idle
    <2>3. CASE alWorker' = alWorker
      BY <1>1, <2>3 DEF AlWorker, AlInv
    <2> QED
      BY <1>1, <2>2, <2>3
  <1>8. troubles' \in 0 .. MaxTroubles
    BY <1>1, AlTroubles
  <1> QED
    BY <1>1, <1>6, <1>7, <1>8, AlTouched

\* What the worker has in hand, and what is known of it.
LEMMA AlHand ==
    ASSUME AlInv, alWorker.at # "idle"
    PROVE  LET w == alWorker.note IN
           /\ w \in DOMAIN notes /\ w \in Nat /\ notes[w] \in AlNotes /\ notes[w].state = "sending"
           /\ notes[w].posts \in 0 .. MaxPosts /\ notes[w].posts > 0 /\ Al!Note = notes[w]
           /\ alWorker.at \in {"claimed", "post"} => notes[w].taken = 0
           /\ alWorker.at = "save" => alWorker.result \in {"pending", "failed", "unknown", "sent"}
           /\ alWorker.at = "save" /\ alWorker.result = "pending" =>
                  notes[w].taken = 0 /\ notes[w].posts < MaxPosts
  <1>1. /\ alWorker.note \in DOMAIN notes /\ alWorker.note \in Nat /\ notes[alWorker.note].state = "sending"
        /\ alWorker.at \in {"claimed", "post"} => notes[alWorker.note].taken = 0
        /\ alWorker.at = "save" => alWorker.result \in {"pending", "failed", "unknown", "sent"}
        /\ alWorker.at = "save" /\ alWorker.result = "pending" =>
               notes[alWorker.note].taken = 0 /\ notes[alWorker.note].posts < MaxPosts
    BY DEF AlInv, AlWorker
  <1>2. AlNote(notes[alWorker.note])
    BY <1>1 DEF AlInv
  <1>3. notes[alWorker.note] \in AlNotes /\ notes[alWorker.note].posts > 0
    BY <1>1, <1>2 DEF AlNote
  <1>4. notes[alWorker.note].posts \in 0 .. MaxPosts
    BY <1>3 DEF AlNotes
  <1> QED
    BY <1>1, <1>3, <1>4 DEF Al!Note

\* With nothing in hand, the worker is sound.
LEMMA AlIdles ==
    ASSUME alWorker' = Al!Idle
    PROVE  AlWorker'
  BY DEF AlWorker, Al!Idle

\* It is looked at again.
LEMMA AlRecheck ==
    ASSUME AlInv, Al!Recheck
    PROVE  AlGood
  <1> PICK w : w = alWorker.note
    OBVIOUS
  <1>1. /\ alWorker.at = "claimed" /\ (Al!Quiet \/ Al!Trouble)
        /\ UNCHANGED <<epoch, limit, telegram, attempt, counter, outcomes, evidence, polls>>
        /\ \/ alWorker' = [alWorker EXCEPT !.at = "post"] /\ notes' = notes
           \/ /\ alWorker' = Al!Idle
              /\ \E s \in {"pending", "cancelled"} :
                    notes' = [notes EXCEPT ![w] = [notes[w] EXCEPT !.state = s, !.posts = notes[w].posts - 1]]
           \/ alWorker' = Al!Idle /\ notes' = [notes EXCEPT ![w] = [notes[w] EXCEPT !.state = "cancelled"]]
           \/ alWorker' = Al!Idle /\ notes' = notes
    BY DEF Al!Recheck, Al!At, Al!Others, Al!counts, Al!health, Al!wifiAlertDelivery
  <1>2. /\ w \in DOMAIN notes /\ notes[w] \in AlNotes /\ notes[w].state = "sending" /\ notes[w].taken = 0
        /\ notes[w].posts \in 0 .. MaxPosts /\ notes[w].posts > 0
    BY <1>1, AlHand
  <1>3. troubles' \in 0 .. MaxTroubles
    BY <1>1, AlTroubles
  <1>4. ASSUME alWorker' = [alWorker EXCEPT !.at = "post"], notes' = notes PROVE AlGood
    <2>1. AlWorker'
      BY <1>1, <1>2, <1>4 DEF AlWorker, AlInv
    <2> QED
      BY <1>1, <1>3, <1>4, <2>1, AlUntouched
  <1>5. ASSUME alWorker' = Al!Idle, notes' = notes PROVE AlGood
    BY <1>1, <1>3, <1>5, AlIdles, AlUntouched
  <1>6. ASSUME NEW s \in {"pending", "cancelled"}, NEW p \in {notes[w].posts, notes[w].posts - 1},
               s = "pending" => p = notes[w].posts - 1, alWorker' = Al!Idle,
               notes' = [notes EXCEPT ![w] = [notes[w] EXCEPT !.state = s, !.posts = p]]
        PROVE  AlGood
    <2> DEFINE v == [notes[w] EXCEPT !.state = s, !.posts = p]
    <2>1. p \in 0 .. MaxPosts /\ (s = "pending" => p < MaxPosts)
      BY <1>2, <1>6, AlertBounds DEF Al!AlertConstants
    <2>2. /\ v \in AlNotes /\ v.state = s /\ v.posts = p /\ v.taken = 0
          /\ v.kind = notes[w].kind /\ v.epoch = notes[w].epoch
          /\ v.cycle = notes[w].cycle /\ v.revision = notes[w].revision
      BY <1>2, <2>1 DEF AlNotes
    <2> HIDE DEF v
    <2>3. AlTouches(w, v)
      BY <1>6, <2>1, <2>2 DEF AlTouches, AlState, v
    <2> QED
      BY <1>1, <1>2, <1>3, <1>6, <2>3, AlIdles, AlTouched
  <1>7. ASSUME notes' = [notes EXCEPT ![w] = [notes[w] EXCEPT !.state = "cancelled"]]
        PROVE  notes' = [notes EXCEPT ![w] = [notes[w] EXCEPT !.state = "cancelled", !.posts = notes[w].posts]]
    BY <1>2, <1>7 DEF AlNotes
  <1> QED
    BY <1>1, <1>4, <1>5, <1>6, <1>7

\* It is posted: what may have been taken is not to be posted again.
LEMMA AlPost ==
    ASSUME AlInv, NEW answer \in {"sent", "unreachable", "busy", "refused", "silent"}, Al!Post(answer)
    PROVE  AlGood
  <1> PICK w : w = alWorker.note
    OBVIOUS
  <1> DEFINE r == Al!Learned(answer)
             q == IF r = "pending" /\ notes[w].posts >= MaxPosts THEN "failed" ELSE r
             v == [notes[w] EXCEPT !.taken = notes[w].taken + 1]
  <1>1. alWorker.at = "post" /\ (Al!Quiet \/ Al!Trouble)
    BY DEF Al!Post, Al!At
  <1>2. /\ w \in DOMAIN notes /\ w \in Nat /\ notes[w] \in AlNotes /\ notes[w].state = "sending" /\ notes[w].taken = 0
        /\ notes[w].posts \in 0 .. MaxPosts /\ notes[w].posts > 0 /\ Al!Note = notes[w]
    BY <1>1, AlHand
  <1>3. /\ alWorker' = [alWorker EXCEPT !.at = "save", !.result = q]
        /\ UNCHANGED <<epoch, limit, telegram, attempt, counter, outcomes, evidence, polls>>
        /\ \/ notes' = [notes EXCEPT ![w] = v] /\ answer \in {"sent", "silent"}
           \/ notes' = notes
    BY <1>2 DEF Al!Post, Al!Others, Al!counts, Al!health
  <1>4. /\ r \in {"pending", "failed", "unknown", "sent"}
        /\ answer \in {"sent", "silent"} => r \in {"unknown", "sent"}
    BY DEF Al!Learned
  <1>5. /\ q \in {"pending", "failed", "unknown", "sent"} /\ (q = "pending" => notes[w].posts < MaxPosts)
        /\ answer \in {"sent", "silent"} => q # "pending"
    <2> HIDE DEF r
    <2> QED
      BY <1>2, <1>4, AlertBounds DEF Al!AlertConstants
  <1>6. troubles' \in 0 .. MaxTroubles
    BY <1>1, AlTroubles
  <1> HIDE DEF r, q
  <1>7. /\ alWorker'.at = "save" /\ alWorker'.note = w /\ alWorker'.result = q
        /\ alWorker' \in [at : {"idle", "claimed", "post", "save"}, note : Nat,
                          result : {"none", "pending", "failed", "unknown", "sent"}]
    <2>1. alWorker \in [at : {"idle", "claimed", "post", "save"}, note : Nat,
                        result : {"none", "pending", "failed", "unknown", "sent"}]
      BY DEF AlInv, AlWorker
    <2> QED
      BY <1>3, <1>5, <2>1
  <1>8. CASE notes' = notes
    <2>1. AlWorker'
      BY <1>2, <1>5, <1>7, <1>8 DEF AlWorker
    <2> QED
      BY <1>3, <1>6, <1>8, <2>1, AlUntouched
  <1>9. CASE notes' = [notes EXCEPT ![w] = v] /\ answer \in {"sent", "silent"}
    <2>1. /\ v \in AlNotes /\ v.state = "sending" /\ v.posts = notes[w].posts
          /\ v.kind = notes[w].kind /\ v.epoch = notes[w].epoch
          /\ v.cycle = notes[w].cycle /\ v.revision = notes[w].revision
      BY <1>2 DEF AlNotes
    <2> HIDE DEF v
    <2>2. DOMAIN notes' = DOMAIN notes /\ notes'[w] = v
      BY <1>2, <1>9
    <2>3. AlWorker'
      BY <1>2, <1>5, <1>7, <1>9, <2>1, <2>2 DEF AlWorker
    <2>4. AlTouches(w, v)
      BY <1>2, <1>9, <2>1 DEF AlTouches, AlState
    <2> QED
      BY <1>2, <1>3, <1>6, <2>3, <2>4, AlTouched
  <1> QED
    BY <1>3, <1>8, <1>9

\* Its result is written, or not.
LEMMA AlSave ==
    ASSUME AlInv, Al!Save
    PROVE  AlGood
  <1> PICK w, q : w = alWorker.note /\ q = alWorker.result
    OBVIOUS
  <1> DEFINE v == [notes[w] EXCEPT !.state = q]
  <1>1. /\ alWorker.at = "save" /\ (Al!Quiet \/ Al!Trouble) /\ alWorker' = Al!Idle
        /\ UNCHANGED <<epoch, limit, telegram, attempt, counter, outcomes, evidence, polls>>
        /\ notes' = [notes EXCEPT ![w] = v] \/ notes' = notes
    BY DEF Al!Save, Al!At, Al!Others, Al!counts, Al!health
  <1>2. /\ w \in DOMAIN notes /\ notes[w] \in AlNotes /\ q \in {"pending", "failed", "unknown", "sent"}
        /\ q = "pending" => notes[w].taken = 0 /\ notes[w].posts < MaxPosts
    BY <1>1, AlHand
  <1>3. troubles' \in 0 .. MaxTroubles
    BY <1>1, AlTroubles
  <1>4. AlWorker'
    BY <1>1, AlIdles
  <1>5. CASE notes' = notes
    BY <1>1, <1>3, <1>4, <1>5, AlUntouched
  <1>6. CASE notes' = [notes EXCEPT ![w] = v]
    <2>1. /\ v \in AlNotes /\ v.state = q /\ v.posts = notes[w].posts /\ v.taken = notes[w].taken
          /\ v.kind = notes[w].kind /\ v.epoch = notes[w].epoch
          /\ v.cycle = notes[w].cycle /\ v.revision = notes[w].revision
      BY <1>2 DEF AlNotes
    <2> HIDE DEF v
    <2>2. AlTouches(w, v)
      BY <1>2, <1>6, <2>1 DEF AlTouches, AlState
    <2> QED
      BY <1>1, <1>2, <1>3, <1>4, <2>2, AlTouched
  <1> QED
    BY <1>1, <1>5, <1>6

\* A program that starts again does not know of what was being sent.
LEMMA AlRestart ==
    ASSUME AlInv, Al!Restart
    PROVE  AlGood
  <1>1. /\ alWorker' = Al!Idle /\ Al!Trouble
        /\ UNCHANGED <<epoch, limit, telegram, attempt, counter, outcomes, evidence, polls>>
        /\ notes' = [n \in DOMAIN notes |-> IF notes[n].state = "sending"
                        THEN [notes[n] EXCEPT !.state = "unknown"] ELSE notes[n]]
    BY DEF Al!Restart, Al!counts, Al!Interrupted
  <1>2. notes \in Seq(AlNotes) /\ \A n \in DOMAIN notes : AlNote(notes[n]) /\ notes[n] \in AlNotes
    BY DEF AlInv, AlTypes, AlNote
  <1>3. DOMAIN notes' = DOMAIN notes /\ notes' = [n \in DOMAIN notes' |-> notes'[n]]
    BY <1>1
  <1>4. ASSUME NEW n \in DOMAIN notes
        PROVE  /\ notes'[n] \in AlNotes /\ AlState(notes'[n])
               /\ n \in DOMAIN notes' /\ notes'[n].kind = notes[n].kind /\ notes'[n].epoch = notes[n].epoch
               /\ notes'[n].cycle = notes[n].cycle /\ notes'[n].revision = notes[n].revision
    <2>1. CASE notes[n].state = "sending"
      <3>1. notes'[n] = [notes[n] EXCEPT !.state = "unknown"]
        BY <1>1, <2>1
      <3> QED
        BY <1>2, <1>3, <3>1 DEF AlNotes, AlState
    <2>2. CASE notes[n].state # "sending"
      <3>1. notes'[n] = notes[n]
        BY <1>1, <2>2
      <3> QED
        BY <1>2, <1>3, <3>1 DEF AlNote, AlState
    <2> QED
      BY <2>1, <2>2
  <1>5. notes' \in Seq(AlNotes)
    BY <1>2, <1>3, <1>4, AlList
  <1>6. AlSame /\ AlWorker' /\ troubles' \in 0 .. MaxTroubles
    BY <1>1, <1>4, AlIdles, AlTroubles DEF AlSame
  <1> QED
    BY <1>1, <1>3, <1>4, <1>5, <1>6, AlDelivered

-----------------------------------------------------------------------------
\* Alerts start out so.
LEMMA AlInit ==
    ASSUME Al!Init
    PROVE  AlInv
  <1>1. /\ epoch = 1 /\ limit \in [Al!Kinds -> Limits \ {0}] /\ telegram = [on |-> TRUE, revision |-> 1]
        /\ attempt = [a \in Attempts |-> Al!NoAttempt] /\ counter = [k \in Al!Kinds |-> Al!NoCounter]
        /\ outcomes = [k \in Al!Kinds |-> {}] /\ evidence = [k \in Al!Kinds |-> {}] /\ polls = 0
        /\ notes = <<>> /\ ended = {} /\ alWorker = Al!Idle /\ troubles = 0
    BY DEF Al!Init
  <1>2. notes \in Seq(AlNotes) /\ DOMAIN notes = {}
    BY <1>1
  <1>3. AlTypes
    BY <1>1, <1>2, AlertBounds DEF AlTypes, Al!AlertConstants, Al!NoAttempt, Al!NoCounter
  <1>4. AlWorker
    BY <1>1 DEF AlWorker, Al!Idle
  <1>5. AlEnded /\ Al!OnePerStreak
    BY <1>1, <1>2 DEF AlEnded, Al!OnePerStreak
  <1>6. \A k \in Al!Kinds : AlCount(k)
    BY <1>1, AlNothing DEF AlCount, Al!NoCounter
  <1> QED
    BY <1>2, <1>3, <1>4, <1>5, <1>6 DEF AlInv

\* Each step of the alerts keeps them so.
LEMMA AlStep ==
    ASSUME AlInv, Al!Next
    PROVE  AlInv'
  <1>1. Al!Step /\ ended' = ended \cup {n \in DOMAIN notes' : ~ Al!Current(notes[n])'}
    BY DEF Al!Next
  <1>2. AlGood
    BY <1>1, AlBegin, AlResult, AlCardChanged, AlSetLimit, AlSetTelegram, AlPoll, AlClaim, AlRecheck, AlPost,
       AlSave, AlRestart DEF Al!Step
  <1> QED
    BY <1>1, <1>2, AlEndedKept

\* A step that leaves the alerts alone keeps them so.
LEMMA AlStutter ==
    ASSUME AlInv, UNCHANGED varsAl
    PROVE  AlInv'
  BY DEF varsAl, AlInv, AlTypes, AlWorker, AlEnded, AlCount, AlNote, Al!OnePerStreak, Al!Current, Al!Active,
         Al!EpochOf

\* What holds in every state of the alerts is what they promise.
LEMMA AlPromise ==
    ASSUME AlInv
    PROVE  Al!AlertsSound
  <1>1. \A n \in DOMAIN notes : AlNote(notes[n]) /\ notes[n] \in AlNotes
    BY DEF AlInv, AlNote
  <1>2. \A n \in DOMAIN notes :
            /\ notes[n].kind \in Al!Kinds /\ notes[n].posts \in 0 .. MaxPosts
            /\ notes[n].state \in {"pending", "sending", "sent", "failed", "unknown", "cancelled"}
            /\ notes[n].taken <= 1
    BY <1>1 DEF AlNotes
  <1>3. Al!TypeOK
    BY <1>2 DEF AlInv, AlTypes, Al!TypeOK
  <1>4. Al!NeverTwice
    BY <1>2 DEF Al!NeverTwice
  <1>5. Al!CountsStreak
    BY AlCounting DEF AlInv, AlCount, Al!CountsStreak
  <1>6. Al!StaysEnded
    BY DEF AlInv, AlEnded, Al!StaysEnded
  <1> QED
    BY <1>3, <1>4, <1>5, <1>6 DEF AlInv, Al!AlertsSound

\* The invariant of the alerts: what is kept of the results counts as all there were, a
\* notification is of a streak there was, one of each, and what is over is over.
THEOREM AlertsInvariant == Behaviour => [](part = "alerts" => AlInv)
  <1>1. InitAll => (part = "alerts" => AlInv)
    BY AlInit DEF InitAll
  <1>2. (part = "alerts" => AlInv) /\ [NextAll]_all => (part = "alerts" => AlInv)'
    <2> SUFFICES ASSUME part = "alerts" => AlInv, [NextAll]_all, part' = "alerts" PROVE AlInv'
      OBVIOUS
    <2>1. CASE UNCHANGED all
      BY <2>1, AlStutter DEF all
    <2>2. CASE NextAll
      <3>1. part = "alerts" /\ (Al!Next \/ UNCHANGED varsAl)
        BY <2>2 DEF NextAll
      <3> QED
        BY <3>1, AlStep, AlStutter
    <2> QED
      BY <2>1, <2>2
  <1> QED
    BY <1>1, <1>2, PTL DEF Behaviour

\* An alert tells of the failures there were, once, and not after its end was seen (Alerts): for
\* all attempts, limits and bounds.
THEOREM AlertsAreSound == Behaviour => []AlertsSound
  <1>1. (part = "alerts" => AlInv) => AlertsSound
    BY AlPromise DEF AlertsSound
  <1> QED
    BY <1>1, AlertsInvariant, PTL

=============================================================================
