--------------------------- MODULE MessagesProofs ---------------------------
(***************************************************************************)
(* Proofs about Messages, for any number of messages and of faults, and    *)
(* about Webhook, for any number of events, destinations and resources, as *)
(* MCMessages puts them together:                                          *)
(*                                                                         *)
(*   MessagesInvariant  the inductive invariant Inv                        *)
(*   MessagesOnce       no message goes to the carrier twice, and nothing  *)
(*                      stored or under way can make it eligible again     *)
(*   MessagesAreSound   a row says what happened, the journal holds one    *)
(*                      outcome, only what is stored is acknowledged       *)
(*   MessagesKept       withdrawn messages stay unsent, final states final *)
(*   WebhookInvariant   the inductive invariant of the event log           *)
(*   WebhookSound       deliveries are honest, the newest status is kept,  *)
(*                      readers miss nothing                               *)
(*                                                                         *)
(* The invariant says of each message where its outcome can be: with the   *)
(* worker, which has then no record of it, or in the journal, whose copies *)
(* agree and one of which the worker or the replay holds locked; and that  *)
(* each outcome, wherever it is, fits what the carrier did.                *)
(***************************************************************************)
EXTENDS MCMessages, TLAPS, FiniteSetTheorems, WellFoundedInduction

Pcs == {"idle", "selected", "eligible", "claimed", "submitted", "record", "save", "apply", "remove", "ack"}
Before == {"selected", "eligible", "claimed", "submitted"}     \* no outcome yet
Carrier == [sent : Nat, taken : {"nothing", "all", "some", "refused"}, acked : BOOLEAN]
Step == [pc : Pcs, id : Msgs \cup {None}, seen : Rows \cup {None}, out : Outcomes \cup {None}]

\* What must be true of the two actors: one has a message unless it is idle, an outcome from
\* "record" on, and works only in the phases that let it.
WorkerOK(w, ph) ==
    /\ w.pc = "idle" <=> w.id = None
    /\ w.pc \in Before \cup {"idle"} <=> w.out = None
    /\ w.pc # "idle" => w.seen \in Rows /\ w.seen.state \in Waiting
    /\ ph # "run" => w.pc = "idle"
ReplayOK(p, ph) ==
    /\ p.pc \in {"idle", "apply", "remove"}
    /\ p.pc = "idle" <=> p.id = None
    /\ p.pc = "idle" <=> p.out = None
    /\ ph \notin {"recover", "run"} => p.pc = "idle"

(* What must be true of a message m, of which the row is r, the carrier's  *)
(* side n, the records in memory and in the file a and f, the record on    *)
(* the disk s, while the actors are w and p in the phase ph.               *)

Has(w, m, pcs) == w.id = m /\ w.pc \in pcs
NoRecord(a, f, s) == a = None /\ f = None /\ s = None

\* Where a record can be in each phase of the program.
RecordOK(ph, a, f, s) ==
    /\ ph # "run" => a = None /\ f \in {None, s}
    /\ ph = "recover" => f = s
    /\ ph \in {"interrupt", "resume"} => NoRecord(a, f, s)
    /\ ph = "run" => f \in {None, a} /\ s \in {None, a}

\* The worker that passed the check of the journal has the message for itself; the replay
\* holds the record there is.
LockOK(m, ph, w, p, a, f, s) ==
    /\ Has(w, m, {"eligible", "claimed", "submitted", "record", "ack"}) => NoRecord(a, f, s)
    /\ Has(w, m, {"save", "apply", "remove"}) => a = w.out
    /\ p.id = m => /\ w.id = m => w.pc = "selected"
                   /\ p.out = IF ph = "run" THEN a ELSE f

Answers == {"accepted", "partial", "failed", "unknown"}

\* An outcome fits what the carrier did.
Fits(n, out) ==
    /\ n.sent > 0 => out.state \in Answers
    /\ out.state = "accepted" => n.taken = "all"
    /\ out.state = "partial" => n.taken \in {"all", "some"}
    /\ out.state = "cancelled" \/ out.issue = "MESSAGE_EXPIRED" => n.sent = 0

\* What the carrier has had of an outgoing message, and what may then be outstanding.
SentOK(m, w, r, n, a, f, s) ==
    r.mine =>
        /\ n.sent <= 1
        /\ n.sent = 0 => n.taken = "nothing"
        /\ Has(w, m, {"selected", "eligible", "claimed"}) => n.sent = 0
        /\ Has(w, m, {"submitted"}) => n.sent = 1 /\ n.taken # "nothing"
        /\ n.sent > 0 => r.state \notin Waiting
        /\ (a # None => Fits(n, a)) /\ (f # None => Fits(n, f)) /\ (s # None => Fits(n, s))
        /\ w.id = m /\ w.out # None => Fits(n, w.out)

\* Its row is true, also while the worker is about to submit it.
RowOK(m, w, r, n, a, f, s) ==
    /\ r.mine =>
        /\ r.state \in {"accepted", "delivered"} => n.taken = "all"
        /\ r.state = "partial" => n.taken \in {"all", "some"}
        /\ r.state = "cancelled" \/ r.issue = "MESSAGE_EXPIRED" => n.sent = 0
        /\ Has(w, m, {"claimed"}) => \/ r.state = "sending" /\ r.issue = "none"
                                     \/ r.state = "failed" /\ r.issue = "RESULT_TIMEOUT"
    /\ r.state = "unknown" /\ r.issue = "SEND_INTERRUPTED" => NoRecord(a, f, s) /\ w.id # m

\* A download: the content that the worker has is stored before it is acknowledged.
StoreOK(m, w, r, n) ==
    ~ r.mine =>
        /\ n.acked => r.state = "received" \/ r.deleted
        /\ Has(w, m, {"claimed"}) \/ (Has(w, m, {"record", "save", "apply"}) /\ w.out.state = "received")
           => r.state = "downloading" \/ r.deleted
        /\ Has(w, m, {"remove", "ack"}) /\ w.out.state = "received" => r.state = "received" \/ r.deleted
        /\ Has(w, m, {"ack"}) => w.out.state = "received"
        /\ ~ Has(w, m, {"submitted"})

Good(m, ph, w, p, r, n, a, f, s) ==
    /\ RecordOK(ph, a, f, s) /\ LockOK(m, ph, w, p, a, f, s)
    /\ SentOK(m, w, r, n, a, f, s) /\ RowOK(m, w, r, n, a, f, s) /\ StoreOK(m, w, r, n)

MsgInv(m) == Good(m, phase, job.worker, job.replay, row[m], net[m], memory[m], file[m], stable[m])

JobOK == /\ job \in [worker : Step, replay : Step]
         /\ WorkerOK(job.worker, phase) /\ ReplayOK(job.replay, phase)

Inv == TypeOK /\ JobOK /\ \A m \in Msgs : MsgInv(m)

-----------------------------------------------------------------------------
(* A step of one message leaves the others alone.                          *)

\* The phase stays, or a failed replay starts the preparation again.
SamePhase == phase' = phase \/ (phase = "recover" /\ phase' = "prepare" /\ job'.replay = Idle)

\* The invariant of a message that the step does not touch.
LEMMA Others ==
    ASSUME NEW e \in Msgs, MsgInv(e), SamePhase, None \notin Msgs,
           row'[e] = row[e], net'[e] = net[e], memory'[e] = memory[e], file'[e] = file[e], stable'[e] = stable[e],
           job'.worker = job.worker \/ (job.worker.id # e /\ job'.worker.id # e),
           job'.replay = job.replay \/ (job.replay.id # e /\ job'.replay.id # e)
    PROVE  MsgInv(e)'
<1> DEFINE w == job.worker  v == job'.worker  p == job.replay  q == job'.replay
           r == row[e]  n == net[e]  a == memory[e]  f == file[e]  s == stable[e]
<1>1. RecordOK(phase', a, f, s)  BY DEF MsgInv, Good, RecordOK, NoRecord, SamePhase
<1>2. LockOK(e, phase', v, q, a, f, s)
  BY DEF MsgInv, Good, LockOK, NoRecord, Has, SamePhase, Idle
<1>3. SentOK(e, v, r, n, a, f, s)  BY DEF MsgInv, Good, SentOK, Has
<1>4. RowOK(e, v, r, n, a, f, s)  BY DEF MsgInv, Good, RowOK, Has
<1>5. StoreOK(e, v, r, n)  BY DEF MsgInv, Good, StoreOK, Has
<1>6. Good(e, phase', v, q, r, n, a, f, s)  BY <1>1, <1>2, <1>3, <1>4, <1>5 DEF Good
<1> QED  BY <1>6 DEF MsgInv

\* A step of m gives it the row r, the carrier's side n and the records a, f and s, and the
\* actors w and p; nobody else's worker or replay is touched.
Updated(m, w, p, r, n, a, f, s) ==
    /\ w \in Step /\ p \in Step /\ r \in Rows /\ n \in Carrier
    /\ a \in Outcomes \cup {None} /\ f \in Outcomes \cup {None} /\ s \in Outcomes \cup {None}
    /\ row' = [row EXCEPT ![m] = r] /\ net' = [net EXCEPT ![m] = n]
    /\ memory' = [memory EXCEPT ![m] = a] /\ file' = [file EXCEPT ![m] = f] /\ stable' = [stable EXCEPT ![m] = s]
    /\ job' = [worker |-> w, replay |-> p] /\ aged' \subseteq Msgs /\ faults' \in 0 .. MaxFaults /\ SamePhase
    /\ w = job.worker \/ (w.id \in {m, None} /\ job.worker.id \in {m, None})
    /\ p = job.replay \/ (p.id \in {m, None} /\ job.replay.id \in {m, None})

\* A step that leaves every other message alone keeps the invariant if it keeps that message's.
LEMMA Update ==
    ASSUME Inv, NEW m \in Msgs, NEW w, NEW p, NEW r, NEW n, NEW a, NEW f, NEW s,
           Updated(m, w, p, r, n, a, f, s),
           WorkerOK(w, phase'), ReplayOK(p, phase'), Good(m, phase', w, p, r, n, a, f, s)
    PROVE  Inv'
<1> USE DEF Updated
<1>1. TypeOK  BY DEF Inv
<1>2. phase' \in {"prepare", "recover", "interrupt", "resume", "run"}  BY <1>1 DEF TypeOK, SamePhase
<1>3. TypeOK'  BY <1>1, <1>2 DEF TypeOK, Step, Pcs, Carrier, ReplayOK
<1>4. JobOK'  BY DEF JobOK
<1>5. MsgInv(m)'  BY <1>1 DEF TypeOK, MsgInv
<1>6. ASSUME NEW e \in Msgs, e # m  PROVE MsgInv(e)'
  <2>1. /\ row'[e] = row[e] /\ net'[e] = net[e] /\ memory'[e] = memory[e]
        /\ file'[e] = file[e] /\ stable'[e] = stable[e]
    BY <1>1, <1>6 DEF TypeOK
  <2>2. MsgInv(e) /\ None \notin Msgs  BY MessagesConstants DEF Inv
  <2>3. job'.worker = w /\ job'.replay = p  OBVIOUS
  <2>4. job'.worker = job.worker \/ (job.worker.id # e /\ job'.worker.id # e)  BY <1>6, <2>2, <2>3
  <2>5. job'.replay = job.replay \/ (job.replay.id # e /\ job'.replay.id # e)  BY <1>6, <2>2, <2>3
  <2> QED  BY <2>1, <2>2, <2>4, <2>5, Others
<1> QED  BY <1>3, <1>4, <1>5, <1>6 DEF Inv

\* What Inv says of the values that a step of m finds.
LEMMA Parts ==
    ASSUME Inv, NEW m \in Msgs
    PROVE  /\ row[m] \in Rows /\ net[m] \in Carrier /\ job.worker \in Step /\ job.replay \in Step
           /\ {memory[m], file[m], stable[m]} \subseteq Outcomes \cup {None}
           /\ job = [worker |-> job.worker, replay |-> job.replay]
           /\ row = [row EXCEPT ![m] = row[m]] /\ net = [net EXCEPT ![m] = net[m]]
           /\ memory = [memory EXCEPT ![m] = memory[m]] /\ file = [file EXCEPT ![m] = file[m]]
           /\ stable = [stable EXCEPT ![m] = stable[m]]
           /\ aged \subseteq Msgs /\ faults \in 0 .. MaxFaults
           /\ WorkerOK(job.worker, phase) /\ ReplayOK(job.replay, phase)
           /\ Good(m, phase, job.worker, job.replay, row[m], net[m], memory[m], file[m], stable[m])
           /\ None \notin Msgs \cup Outcomes
BY MessagesConstants DEF Inv, TypeOK, JobOK, MsgInv, Carrier

\* A step that writes only the row of m.
LEMMA RowOnly ==
    ASSUME Inv, NEW m \in Msgs, NEW r \in Rows, row' = [row EXCEPT ![m] = r], aged' \subseteq Msgs,
           UNCHANGED <<job, phase, journal, net, faults>>, r.mine = row[m].mine,
           SentOK(m, job.worker, r, net[m], memory[m], file[m], stable[m]),
           RowOK(m, job.worker, r, net[m], memory[m], file[m], stable[m]),
           StoreOK(m, job.worker, r, net[m])
    PROVE  Inv'
<1>1. Good(m, phase, job.worker, job.replay, r, net[m], memory[m], file[m], stable[m])  BY Parts DEF Good
<1>2. /\ net' = [net EXCEPT ![m] = net[m]] /\ memory' = [memory EXCEPT ![m] = memory[m]]
      /\ file' = [file EXCEPT ![m] = file[m]] /\ stable' = [stable EXCEPT ![m] = stable[m]]
      /\ job' = [worker |-> job.worker, replay |-> job.replay] /\ phase' = phase /\ faults' = faults
  BY Parts DEF journal
<1>3. /\ net[m] \in Carrier /\ job.worker \in Step /\ job.replay \in Step /\ faults \in 0 .. MaxFaults
      /\ memory[m] \in Outcomes \cup {None} /\ file[m] \in Outcomes \cup {None} /\ stable[m] \in Outcomes \cup {None}
      /\ WorkerOK(job.worker, phase) /\ ReplayOK(job.replay, phase)
  BY Parts
<1>4. Updated(m, job.worker, job.replay, r, net[m], memory[m], file[m], stable[m])
  BY <1>2, <1>3 DEF Updated, SamePhase
<1> QED  BY <1>1, <1>2, <1>3, <1>4, Update

\* A step that only takes the worker, which is with m or idle, on.
LEMMA WorkerOnly ==
    ASSUME Inv, NEW m \in Msgs, NEW w \in Step, job' = [job EXCEPT !.worker = w],
           UNCHANGED <<row, aged, phase, journal, net, faults>>, w.id \in {m, None}, job.worker.id \in {m, None},
           WorkerOK(w, phase), LockOK(m, phase, w, job.replay, memory[m], file[m], stable[m]),
           SentOK(m, w, row[m], net[m], memory[m], file[m], stable[m]),
           RowOK(m, w, row[m], net[m], memory[m], file[m], stable[m]),
           StoreOK(m, w, row[m], net[m])
    PROVE  Inv'
<1>1. Good(m, phase, w, job.replay, row[m], net[m], memory[m], file[m], stable[m])  BY Parts DEF Good
<1>2. job' = [worker |-> w, replay |-> job.replay]  BY Parts
<1>3. /\ row' = [row EXCEPT ![m] = row[m]]
      /\ net' = [net EXCEPT ![m] = net[m]] /\ memory' = [memory EXCEPT ![m] = memory[m]]
      /\ file' = [file EXCEPT ![m] = file[m]] /\ stable' = [stable EXCEPT ![m] = stable[m]]
      /\ phase' = phase /\ faults' = faults /\ aged' = aged
  BY Parts DEF journal
<1>4. /\ row[m] \in Rows /\ net[m] \in Carrier /\ job.replay \in Step /\ faults \in 0 .. MaxFaults /\ aged \subseteq Msgs
      /\ memory[m] \in Outcomes \cup {None} /\ file[m] \in Outcomes \cup {None} /\ stable[m] \in Outcomes \cup {None}
      /\ ReplayOK(job.replay, phase)
  BY Parts
<1>5. Updated(m, w, job.replay, row[m], net[m], memory[m], file[m], stable[m])
  BY <1>2, <1>3, <1>4 DEF Updated, SamePhase
<1> QED  BY <1>1, <1>3, <1>4, <1>5, Update

States == {"waiting_network", "expired", "cancelled", "failed", "unknown", "accepted", "partial", "received"}
Stored == Issues \ {"SEND_INTERRUPTED", "RESULT_TIMEOUT"}

\* What the constructor of outcomes returns.
LEMMA OutcomeFields ==
    ASSUME NEW t \in States, NEW i \in Stored
    PROVE  Outcome(t, i) \in Outcomes /\ Outcome(t, i).state = t /\ Outcome(t, i).issue = i
BY DEF Outcome, Outcomes, States, Stored, MaxDownloads

\* The same outcome with or without a result that reports can be matched with.
LEMMA OutcomeResult ==
    ASSUME NEW t \in States, NEW i \in Stored
    PROVE  \A b \in BOOLEAN :
              /\ [Outcome(t, i) EXCEPT !.result = b] \in Outcomes
              /\ [Outcome(t, i) EXCEPT !.result = b].state = t /\ [Outcome(t, i) EXCEPT !.result = b].issue = i
BY DEF Outcome, Outcomes, States, Stored, MaxDownloads

\* The same outcome after k attempts to download.
LEMMA OutcomeAttempts ==
    ASSUME NEW t \in States, NEW i \in Stored
    PROVE  \A k \in 0 .. MaxDownloads :
              /\ [Outcome(t, i) EXCEPT !.attempts = k] \in Outcomes
              /\ [Outcome(t, i) EXCEPT !.attempts = k].state = t /\ [Outcome(t, i) EXCEPT !.attempts = k].issue = i
BY DEF Outcome, Outcomes, States, Stored

-----------------------------------------------------------------------------
(* Others write the row of m.                                              *)

\* The user deletes m.
LEMMA DeleteStep ==
    ASSUME Inv, NEW m \in Msgs, Delete(m)
    PROVE  Inv'
<1> DEFINE r == [row[m] EXCEPT !.deleted = TRUE,
                               !.state = IF @ \in {"queued", "waiting_network"} THEN "cancelled" ELSE @]
<1>0. /\ row[m] \in Rows /\ aged \subseteq Msgs /\ net[m].sent \in Nat
      /\ Good(m, phase, job.worker, job.replay, row[m], net[m], memory[m], file[m], stable[m])
  BY Parts DEF Carrier
<1>1. /\ r \in Rows /\ r.mine = row[m].mine /\ r.deleted /\ r.issue = row[m].issue
      /\ r.state = row[m].state \/ (row[m].state \in {"queued", "waiting_network"} /\ r.state = "cancelled")
  BY <1>0 DEF Rows
<1>2. row' = [row EXCEPT ![m] = r] /\ UNCHANGED <<aged, job, phase, journal, net, faults>>
  BY DEF Delete, Inv, TypeOK, Rows
<1> HIDE DEF r
<1>3. SentOK(m, job.worker, r, net[m], memory[m], file[m], stable[m])
  BY <1>0, <1>1 DEF Good, SentOK, Waiting
<1>4. RowOK(m, job.worker, r, net[m], memory[m], file[m], stable[m])
  <2>1. row[m].mine /\ row[m].state \in {"queued", "waiting_network"} => net[m].sent = 0 /\ ~ Has(job.worker, m, {"claimed"})
    <3>1. row[m].mine /\ row[m].state \in {"queued", "waiting_network"} => net[m].sent = 0
      BY <1>0 DEF Good, SentOK, Waiting
    <3>2. row[m].mine /\ row[m].state \in {"queued", "waiting_network"} => ~ Has(job.worker, m, {"claimed"})
      BY <1>0 DEF Good, RowOK
    <3> QED  BY <3>1, <3>2
  <2>2. CASE r.state = row[m].state  BY <1>0, <1>1, <2>2 DEF Good, RowOK
  <2>3. CASE r.state # row[m].state  BY <1>0, <1>1, <2>1, <2>3 DEF RowOK
  <2> QED  BY <2>2, <2>3
<1>5. StoreOK(m, job.worker, r, net[m])  BY <1>0, <1>1 DEF Good, StoreOK
<1> QED  BY <1>0, <1>1, <1>2, <1>3, <1>4, <1>5, RowOnly

\* Time passes for m.
LEMMA AgeStep ==
    ASSUME Inv, NEW m \in Msgs, Age(m)
    PROVE  Inv'
<1>1. aged' \subseteq Msgs /\ UNCHANGED <<row, job, phase, journal, net, faults>>  BY Parts DEF Age
<1>2. row' = [row EXCEPT ![m] = row[m]] /\ row[m] \in Rows  BY <1>1, Parts
<1>3. Good(m, phase, job.worker, job.replay, row[m], net[m], memory[m], file[m], stable[m])  BY Parts
<1> QED  BY <1>1, <1>2, <1>3, RowOnly DEF Good

\* It had no result for too long.
LEMMA ExpireStep ==
    ASSUME Inv, NEW m \in Msgs, Expire(m)
    PROVE  Inv'
<1>0. /\ row[m] \in Rows /\ aged \subseteq Msgs
      /\ Good(m, phase, job.worker, job.replay, row[m], net[m], memory[m], file[m], stable[m])
  BY Parts
<1>1. PICK i \in {"RESULT_TIMEOUT", "MESSAGE_EXPIRED"} :
        /\ row' = [row EXCEPT ![m].state = "failed", ![m].issue = i]
        /\ i = "RESULT_TIMEOUT" => row[m].state \in {"sending", "unknown"}
        /\ i = "MESSAGE_EXPIRED" => row[m].state \in {"queued", "waiting_network"}
  BY DEF Expire
<1> DEFINE r == [row[m] EXCEPT !.state = "failed", !.issue = i]
<1>2. r \in Rows /\ r.mine = row[m].mine /\ r.mine /\ r.deleted = row[m].deleted /\ r.issue = i /\ r.state = "failed"
  BY <1>0 DEF Rows, Issues, Expire, Out
<1>3. row' = [row EXCEPT ![m] = r] /\ UNCHANGED <<aged, job, phase, journal, net, faults>>
  BY <1>1 DEF Expire, Inv, TypeOK, Rows
<1> HIDE DEF r
<1>4. SentOK(m, job.worker, r, net[m], memory[m], file[m], stable[m])
  BY <1>0, <1>2 DEF Good, SentOK, Waiting
<1>5. RowOK(m, job.worker, r, net[m], memory[m], file[m], stable[m])
  <2>1. net[m].sent \in Nat  BY Parts DEF Carrier
  <2>2. row[m].mine  BY DEF Expire, Out
  <2>3. i = "MESSAGE_EXPIRED" => net[m].sent = 0 /\ ~ Has(job.worker, m, {"claimed"})
    <3>1. i = "MESSAGE_EXPIRED" => net[m].sent = 0  BY <1>0, <1>1, <2>1, <2>2 DEF Good, SentOK, Waiting
    <3>2. i = "MESSAGE_EXPIRED" => ~ Has(job.worker, m, {"claimed"})  BY <1>0, <1>1, <2>2 DEF Good, RowOK
    <3> QED  BY <3>1, <3>2
  <2> QED  BY <1>0, <1>1, <1>2, <2>3 DEF Good, RowOK
<1>6. StoreOK(m, job.worker, r, net[m])  BY <1>2 DEF StoreOK
<1> QED  BY <1>0, <1>2, <1>3, <1>4, <1>5, <1>6, RowOnly

\* A delivery report arrives.
LEMMA ReportStep ==
    ASSUME Inv, NEW m \in Msgs, Report(m)
    PROVE  Inv'
<1>0. /\ row[m] \in Rows /\ aged \subseteq Msgs /\ net[m].sent \in Nat
      /\ Good(m, phase, job.worker, job.replay, row[m], net[m], memory[m], file[m], stable[m])
  BY Parts DEF Carrier
<1>1. PICK t \in {"delivered", "failed"}, i \in {"none", "OTHER"} :
        /\ row' = [row EXCEPT ![m].state = t, ![m].issue = i]
        /\ t = "delivered" => net[m].taken = "all"
  BY DEF Report
<1> DEFINE r == [row[m] EXCEPT !.state = t, !.issue = i]
<1>2. r \in Rows /\ r.mine = row[m].mine /\ r.mine /\ r.issue = i /\ r.state = t
  BY <1>0 DEF Rows, Issues, Report, AwaitsReport, Out
<1>3. row' = [row EXCEPT ![m] = r] /\ UNCHANGED <<aged, job, phase, journal, net, faults>>
  BY <1>1 DEF Report, Inv, TypeOK, Rows
<1> HIDE DEF r
<1>4. SentOK(m, job.worker, r, net[m], memory[m], file[m], stable[m])
  BY <1>0, <1>2 DEF Good, SentOK, Waiting
<1>5. RowOK(m, job.worker, r, net[m], memory[m], file[m], stable[m])
  <2>1. ~ Has(job.worker, m, {"claimed"})  BY <1>0, <1>2 DEF Good, SentOK, Report, Has
  <2> QED  BY <1>1, <1>2, <2>1 DEF RowOK
<1>6. StoreOK(m, job.worker, r, net[m])  BY <1>2 DEF StoreOK
<1> QED  BY <1>0, <1>2, <1>3, <1>4, <1>5, <1>6, RowOnly

-----------------------------------------------------------------------------
(* processMessage                                                          *)

\* The worker stops with m.
LEMMA WorkerStops ==
    ASSUME Inv, NEW m \in Msgs, job.worker.id = m, Stop("worker"),
           UNCHANGED <<row, aged, phase, journal, net, faults>>
    PROVE  Inv'
<1> DEFINE a == memory[m]  f == file[m]  s == stable[m]  r == row[m]  n == net[m]
<1>0. /\ WorkerOK(job.worker, phase) /\ None \notin Msgs
      /\ Good(m, phase, job.worker, job.replay, r, n, a, f, s)
  BY Parts
<1>1. Idle \in Step /\ job' = [job EXCEPT !.worker = Idle] /\ Idle.id = None /\ Idle.pc = "idle" /\ Idle.out = None
  BY DEF Idle, Step, Pcs, Stop, Set
<1>2. WorkerOK(Idle, phase)  BY <1>1 DEF WorkerOK
<1>3. LockOK(m, phase, Idle, job.replay, a, f, s)  BY <1>0, <1>1 DEF Good, LockOK, Has
<1>4. SentOK(m, Idle, r, n, a, f, s)  BY <1>0, <1>1 DEF Good, SentOK, Has
<1>5. RowOK(m, Idle, r, n, a, f, s)  BY <1>0, <1>1 DEF Good, RowOK, Has
<1>6. StoreOK(m, Idle, r, n)  BY <1>0, <1>1 DEF Good, StoreOK, Has
<1> QED  BY <1>0, <1>1, <1>2, <1>3, <1>4, <1>5, <1>6, WorkerOnly

\* The SELECT.
LEMMA SelectStep ==
    ASSUME Inv, NEW m \in Msgs, Select(m)
    PROVE  Inv'
<1> DEFINE a == memory[m]  f == file[m]  s == stable[m]  r == row[m]  n == net[m]
           w == [pc |-> "selected", id |-> m, seen |-> row[m], out |-> None]
<1>0. /\ WorkerOK(job.worker, phase) /\ None \notin Msgs /\ r \in Rows /\ r.state \in Waiting /\ phase = "run"
      /\ Good(m, phase, job.worker, job.replay, r, n, a, f, s) /\ n.sent \in Nat
  BY Parts DEF Select, Carrier
<1>1. /\ w \in Step /\ job' = [job EXCEPT !.worker = w] /\ w.id = m /\ w.pc = "selected" /\ w.out = None /\ w.seen = row[m]
      /\ job.worker.pc = "idle" /\ UNCHANGED <<row, aged, phase, journal, net, faults>>
  BY <1>0 DEF Step, Pcs, Set, Select
<1> HIDE DEF w
<1>2. WorkerOK(w, phase) /\ job.worker.id = None  BY <1>0, <1>1 DEF WorkerOK, Before
<1>3. LockOK(m, phase, w, job.replay, a, f, s)  BY <1>0, <1>1 DEF Good, LockOK, Has
<1>4. SentOK(m, w, r, n, a, f, s)  BY <1>0, <1>1 DEF Good, SentOK, Has
<1>5. RowOK(m, w, r, n, a, f, s)  BY <1>0, <1>1 DEF Good, RowOK, Has, Waiting
<1>6. StoreOK(m, w, r, n)  BY <1>0, <1>1 DEF Good, StoreOK, Has
<1> QED  BY <1>0, <1>1, <1>2, <1>3, <1>4, <1>5, <1>6, WorkerOnly

\* messageResults.Pending: a message whose outcome is in the journal is left.
LEMMA CheckPendingStep ==
    ASSUME Inv, NEW m \in Msgs, CheckPending(m)
    PROVE  Inv'
<1> DEFINE a == memory[m]  f == file[m]  s == stable[m]  r == row[m]  n == net[m]
           w == [job.worker EXCEPT !.pc = "eligible"]
<1>0. /\ WorkerOK(job.worker, phase) /\ None \notin Msgs \cup Outcomes /\ job.worker \in Step
      /\ Good(m, phase, job.worker, job.replay, r, n, a, f, s) /\ ReplayOK(job.replay, phase)
      /\ job.worker.pc = "selected" /\ job.worker.id = m /\ UNCHANGED <<row, aged, phase, journal, net, faults>>
  BY Parts DEF CheckPending
<1>1. CASE Stop("worker")  BY <1>0, <1>1, WorkerStops
<1>2. CASE Goto("worker", "eligible") /\ ~ Pending(m)
  <2>1. w \in Step /\ job' = [job EXCEPT !.worker = w]  BY <1>0, <1>2, Parts DEF Step, Pcs, Goto
  <2>2. w.id = m /\ w.pc = "eligible" /\ w.out = job.worker.out /\ w.seen = job.worker.seen  BY <1>0 DEF Step
  <2> HIDE DEF w
  <2>3. WorkerOK(w, phase)  BY <1>0, <2>2 DEF WorkerOK, Before
  <2>4. phase = "run" /\ NoRecord(a, f, s) /\ job.replay.id # m
    <3>1. phase = "run" /\ a = None /\ f = None  BY <1>0, <1>2 DEF WorkerOK, Pending
    <3>2. s = None  BY <1>0, <3>1 DEF Good, RecordOK
    <3>3. job.replay.id # m  BY <1>0, <3>1 DEF Good, LockOK, ReplayOK
    <3> QED  BY <3>1, <3>2, <3>3 DEF NoRecord
  <2>5. LockOK(m, phase, w, job.replay, a, f, s)  BY <2>2, <2>4 DEF LockOK, Has
  <2>6. SentOK(m, w, r, n, a, f, s)  BY <1>0, <2>2 DEF Good, SentOK, Has
  <2>7. RowOK(m, w, r, n, a, f, s)  BY <1>0, <2>2 DEF Good, RowOK, Has
  <2>8. StoreOK(m, w, r, n)  BY <1>0, <2>2 DEF Good, StoreOK, Has
  <2> QED  BY <1>0, <2>1, <2>2, <2>3, <2>5, <2>6, <2>7, <2>8, WorkerOnly
<1> QED  BY <1>1, <1>2 DEF CheckPending

\* The worker has an outcome, of which nothing is stored yet.
LEMMA FinishStep ==
    ASSUME Inv, NEW m \in Msgs, job.worker.id = m, job.worker.pc \in {"eligible", "claimed", "submitted"},
           NEW o \in Outcomes, Finish(o), UNCHANGED <<row, aged, phase, journal, net, faults>>,
           row[m].mine => Fits(net[m], o), ~ row[m].mine /\ o.state = "received" => job.worker.pc = "claimed"
    PROVE  Inv'
<1> DEFINE a == memory[m]  f == file[m]  s == stable[m]  r == row[m]  n == net[m]
           w == [job.worker EXCEPT !.pc = "record", !.out = o]
<1>0. /\ WorkerOK(job.worker, phase) /\ None \notin Msgs \cup Outcomes /\ job.worker \in Step
      /\ Good(m, phase, job.worker, job.replay, r, n, a, f, s)
  BY Parts
<1>1. w \in Step /\ job' = [job EXCEPT !.worker = w]  BY <1>0, Parts DEF Step, Pcs, Finish
<1>2. w.id = m /\ w.pc = "record" /\ w.out = o /\ w.seen = job.worker.seen  BY <1>0 DEF Step
<1> HIDE DEF w
<1>3. WorkerOK(w, phase)  BY <1>0, <1>2 DEF WorkerOK, Before
<1>4. LockOK(m, phase, w, job.replay, a, f, s)  BY <1>0, <1>2 DEF Good, LockOK, Has
<1>5. SentOK(m, w, r, n, a, f, s)  BY <1>0, <1>2 DEF Good, SentOK, Has
<1>6. RowOK(m, w, r, n, a, f, s)  BY <1>0, <1>2 DEF Good, RowOK, Has
<1>7. StoreOK(m, w, r, n)  BY <1>0, <1>2 DEF Good, StoreOK, Has
<1> QED  BY <1>0, <1>1, <1>2, <1>3, <1>4, <1>5, <1>6, <1>7, WorkerOnly

\* A message that is too old, or of another card, or has no network.
LEMMA RefuseStep ==
    ASSUME Inv, NEW m \in Msgs, Refuse(m)
    PROVE  Inv'
<1>1. PICK o \in Refusals(m, job.worker.seen) : Finish(o)  BY DEF Refuse
<1>2. o \in Outcomes /\ o.state \in {"expired", "failed", "cancelled", "waiting_network"} /\ (row[m].mine => o.state # "expired")
  <2>1. PICK t \in {"expired", "failed", "cancelled", "waiting_network"}, i \in {"MESSAGE_EXPIRED", "OTHER"} :
          o = Outcome(t, i) /\ (row[m].mine => t # "expired")
    BY <1>1 DEF Refusals, In, Out
  <2>2. t \in States /\ i \in Stored  BY DEF States, Stored, Issues
  <2> QED  BY <2>1, <2>2, OutcomeFields
<1>3. row[m].mine => net[m].sent = 0  BY Parts DEF Good, SentOK, Has, Refuse
<1>4. row[m].mine => Fits(net[m], o)  BY <1>2, <1>3 DEF Fits
<1> QED  BY <1>1, <1>2, <1>4, FinishStep DEF Refuse

\* The module has other work.
LEMMA NoReservationStep ==
    ASSUME Inv, NEW m \in Msgs, NoReservation(m)
    PROVE  Inv'
BY WorkerStops DEF NoReservation

\* Nothing left for the carrier, or the download failed.
LEMMA NotSentStep ==
    ASSUME Inv, NEW m \in Msgs, NotSent(m)
    PROVE  Inv'
<1>0. job.worker.seen \in Rows  BY Parts DEF NotSent, WorkerOK
<1>1. PICK o \in IF m \in In THEN DownloadFailures(job.worker.seen.attempts) ELSE Unsent : Finish(o)  BY DEF NotSent
<1>2. o \in Outcomes /\ o.state \in {"failed", "waiting_network", "unknown"} /\ o.issue # "MESSAGE_EXPIRED"
  <2>1. CASE m \in In
    <3>1. job.worker.seen.attempts \in 0 .. MaxDownloads  BY <1>0 DEF Rows
    <3>2. Counted(job.worker.seen.attempts) \in 0 .. MaxDownloads  BY <3>1 DEF Counted, MaxDownloads
    <3>3. PICK t \in {"waiting_network", "failed"}, i \in {"OTHER", "LOCATION"}, k \in 0 .. MaxDownloads :
             o = [Outcome(t, i) EXCEPT !.attempts = k]
      BY <1>1, <2>1, <3>1, <3>2 DEF DownloadFailures, MaxDownloads
    <3>4. t \in States /\ i \in Stored  BY DEF States, Stored, Issues
    <3> QED  BY <3>3, <3>4, OutcomeAttempts
  <2>2. CASE m \notin In
    <3>1. PICK t \in {"waiting_network", "failed", "unknown"} : o = Outcome(t, "OTHER")  BY <1>1, <2>2 DEF Unsent
    <3>2. t \in States /\ "OTHER" \in Stored  BY DEF States, Stored, Issues
    <3> QED  BY <3>1, <3>2, OutcomeFields
  <2> QED  BY <2>1, <2>2
<1>3. row[m].mine => net[m].sent = 0  BY Parts DEF Good, SentOK, Has, NotSent
<1>4. row[m].mine => Fits(net[m], o)  BY <1>2, <1>3 DEF Fits
<1> QED  BY <1>1, <1>2, <1>4, FinishStep DEF NotSent

\* The carrier's answer, or none.
LEMMA AnswerStep ==
    ASSUME Inv, NEW m \in Msgs, Answer(m)
    PROVE  Inv'
<1>1. PICK o \in Reported(net[m].taken) : Finish(o)  BY DEF Answer
<1>2. row[m].mine => net[m].sent = 1 /\ net[m].taken \in {"all", "some", "refused"}
  BY Parts DEF Good, SentOK, Has, Answer, Carrier
<1>3. job.worker.pc = "submitted" /\ job.worker.id = m  BY DEF Answer
<1>4. row[m].mine  BY <1>3, Parts DEF Good, StoreOK, Has
<1>5. PICK t \in Answers, i \in {"none", "OTHER"} :
        /\ o \in {Outcome(t, i), [Outcome(t, i) EXCEPT !.result = TRUE]}
        /\ t = "accepted" => net[m].taken = "all"
        /\ t = "partial" => net[m].taken \in {"all", "some"}
  BY <1>1, <1>2, <1>4 DEF Reported, Answers
<1>6. o \in Outcomes /\ o.state = t /\ o.issue = i
  <2>1. t \in States /\ i \in Stored  BY DEF Answers, States, Stored, Issues
  <2>2. CASE o = Outcome(t, i)  BY <2>1, <2>2, OutcomeFields
  <2>3. CASE o = [Outcome(t, i) EXCEPT !.result = TRUE]  BY <2>1, <2>3, OutcomeResult
  <2> QED  BY <1>5, <2>2, <2>3
<1>7. Fits(net[m], o) /\ o.state # "received"  BY <1>5, <1>6 DEF Fits, Answers
<1> QED  BY <1>1, <1>3, <1>4, <1>6, <1>7, FinishStep DEF Answer

\* The content arrived.
LEMMA RetrieveStep ==
    ASSUME Inv, NEW m \in Msgs, Retrieve(m)
    PROVE  Inv'
<1> DEFINE o == [Outcome("received", "none") EXCEPT !.attempts = job.worker.seen.attempts]
<1>0. job.worker.seen \in Rows /\ job.worker.pc = "claimed" /\ job.worker.id = m /\ ~ row[m].mine
  BY Parts DEF Retrieve, WorkerOK, In, Out
<1>1. o \in Outcomes
  <2>1. "received" \in States /\ "none" \in Stored  BY DEF States, Stored, Issues
  <2> QED  BY <1>0, <2>1, OutcomeAttempts DEF Rows
<1>2. Finish(o) /\ UNCHANGED <<row, aged, phase, journal, net, faults>>  BY DEF Retrieve
<1> HIDE DEF o
<1> QED  BY <1>0, <1>1, <1>2, FinishStep

\* The carrier is told that the content arrived.
LEMMA AcknowledgeStep ==
    ASSUME Inv, NEW m \in Msgs, Acknowledge(m)
    PROVE  Inv'
<1> DEFINE a == memory[m]  f == file[m]  s == stable[m]  r == row[m]  p == job.replay
           n == [net[m] EXCEPT !.acked = TRUE]
<1>0. /\ WorkerOK(job.worker, phase) /\ ReplayOK(p, phase) /\ None \notin Msgs /\ net[m] \in Carrier
      /\ Good(m, phase, job.worker, p, r, net[m], a, f, s) /\ Has(job.worker, m, {"ack"})
  BY Parts DEF Acknowledge, Has
<1>1. n \in Carrier /\ n.sent = net[m].sent /\ n.taken = net[m].taken /\ n.acked  BY <1>0 DEF Carrier
<1>2. Idle \in Step /\ Idle.id = None /\ Idle.pc = "idle" /\ Idle.out = None  BY DEF Idle, Step, Pcs
<1>3. net' = [net EXCEPT ![m] = n] /\ job' = [worker |-> Idle, replay |-> p] /\ UNCHANGED <<row, aged, phase, journal, faults>>
  BY Parts DEF Acknowledge, Stop, Set, Inv, TypeOK
<1> HIDE DEF n
<1>4. Updated(m, Idle, p, r, n, a, f, s)
  <2>1. /\ p \in Step /\ r \in Rows /\ {a, f, s} \subseteq Outcomes \cup {None} /\ aged \subseteq Msgs /\ faults \in 0 .. MaxFaults
        /\ row = [row EXCEPT ![m] = r] /\ memory = [memory EXCEPT ![m] = a] /\ file = [file EXCEPT ![m] = f]
        /\ stable = [stable EXCEPT ![m] = s]
    BY Parts
  <2> QED  BY <1>0, <1>1, <1>2, <1>3, <2>1 DEF Updated, SamePhase, journal, Has
<1>5. WorkerOK(Idle, phase)  BY <1>2 DEF WorkerOK
<1>6. RecordOK(phase, a, f, s) /\ LockOK(m, phase, Idle, p, a, f, s)  BY <1>0, <1>2 DEF Good, LockOK, Has
<1>7. SentOK(m, Idle, r, n, a, f, s)  BY <1>0, <1>1, <1>2 DEF Good, SentOK, Fits, Has
<1>8. RowOK(m, Idle, r, n, a, f, s)  BY <1>0, <1>1, <1>2 DEF Good, RowOK, Has
<1>9. StoreOK(m, Idle, r, n)  BY <1>0, <1>1, <1>2 DEF Good, StoreOK, Has
<1>10. Good(m, phase, Idle, p, r, n, a, f, s)  BY <1>6, <1>7, <1>8, <1>9 DEF Good
<1>11. phase' = phase  BY <1>3
<1> QED  BY <1>0, <1>4, <1>5, <1>10, <1>11, Update

\* The compare-and-set of the claim, which may fail after it was committed.
LEMMA TakeClaimStep ==
    ASSUME Inv, NEW m \in Msgs, TakeClaim(m)
    PROVE  Inv'
<1> DEFINE a == memory[m]  f == file[m]  s == stable[m]  n == net[m]  p == job.replay
           c == [row[m] EXCEPT !.state = IF m \in In THEN "downloading" ELSE "sending", !.issue = "none"]
           w == [job.worker EXCEPT !.pc = "claimed"]
<1>0. /\ WorkerOK(job.worker, phase) /\ ReplayOK(p, phase) /\ None \notin Msgs /\ row[m] \in Rows /\ job.worker \in Step
      /\ Good(m, phase, job.worker, p, row[m], n, a, f, s) /\ job.worker.pc = "eligible" /\ job.worker.id = m /\ n.sent \in Nat
  BY Parts DEF TakeClaim, Carrier
<1>1. /\ c \in Rows /\ c.mine = row[m].mine /\ c.deleted = row[m].deleted /\ c.issue = "none"
      /\ c.state \in {"sending", "downloading"} /\ (row[m].mine => c.state = "sending") /\ (~ row[m].mine => c.state = "downloading")
  BY <1>0 DEF Rows, Issues, Claimed, In, Out
<1>2. w \in Step /\ w.pc = "claimed" /\ w.id = m /\ w.out = job.worker.out /\ w.seen = job.worker.seen  BY <1>0 DEF Step, Pcs
<1>3. Idle \in Step /\ Idle.id = None /\ Idle.pc = "idle" /\ Idle.out = None  BY DEF Idle, Step, Pcs
<1>4. faults' \in 0 .. MaxFaults  BY Parts, MessagesConstants DEF TakeClaim, Fault
<1>5. UNCHANGED <<aged, phase, journal, net>>  BY DEF TakeClaim
<1>6. PICK r \in {row[m], c}, x \in {w, Idle} :
        /\ row' = [row EXCEPT ![m] = r] /\ job' = [worker |-> x, replay |-> p]
        /\ \/ r = c /\ Claimable(m, job.worker.seen)
           \/ r = row[m] /\ x = Idle
  <2>1. row = [row EXCEPT ![m] = row[m]] /\ job = [worker |-> job.worker, replay |-> p]  BY Parts
  <2>2. Claim(m) = [row EXCEPT ![m] = c]  BY DEF Claim, Inv, TypeOK, Rows
  <2>3. Goto("worker", "claimed") => job' = [worker |-> w, replay |-> p]  BY <2>1 DEF Goto, Step
  <2>4. Stop("worker") => job' = [worker |-> Idle, replay |-> p]  BY <2>1 DEF Stop, Set
  <2> HIDE DEF c, w
  <2>5. CASE Claimable(m, job.worker.seen) /\ row' = Claim(m) /\ (Goto("worker", "claimed") \/ Stop("worker"))
    BY <2>2, <2>3, <2>4, <2>5
  <2>6. CASE row' = row /\ Stop("worker")  BY <2>1, <2>4, <2>6
  <2> QED  BY <2>5, <2>6 DEF TakeClaim
<1> HIDE DEF c, w
<1>7. Updated(m, x, p, r, n, a, f, s)
  <2>1. /\ p \in Step /\ n \in Carrier /\ {a, f, s} \subseteq Outcomes \cup {None} /\ aged \subseteq Msgs
        /\ net = [net EXCEPT ![m] = n] /\ memory = [memory EXCEPT ![m] = a] /\ file = [file EXCEPT ![m] = f]
        /\ stable = [stable EXCEPT ![m] = s]
    BY Parts
  <2> QED  BY <1>0, <1>1, <1>2, <1>3, <1>4, <1>5, <1>6, <2>1 DEF Updated, SamePhase, journal
<1>8. WorkerOK(x, phase)  BY <1>0, <1>2, <1>3, <1>6 DEF WorkerOK, Before
<1>9. RecordOK(phase, a, f, s) /\ LockOK(m, phase, x, p, a, f, s)  BY <1>0, <1>2, <1>3, <1>6 DEF Good, LockOK, Has
<1>10. job.worker.out = None /\ (row[m].mine => n.sent = 0)  BY <1>0 DEF WorkerOK, Before, Good, SentOK, Has
<1>11. SentOK(m, x, r, n, a, f, s)  BY <1>0, <1>1, <1>2, <1>3, <1>6, <1>10 DEF Good, SentOK, Has
<1>12. RowOK(m, x, r, n, a, f, s)
  <2>1. CASE r = c  BY <1>0, <1>1, <1>2, <1>3, <1>6, <2>1 DEF RowOK, Has
  <2>2. CASE r = row[m] /\ x = Idle  BY <1>0, <1>3, <1>6, <2>2 DEF Good, RowOK, Has
  <2> QED  BY <1>6, <2>1, <2>2
<1>13. StoreOK(m, x, r, n)
  <2>1. Claimable(m, job.worker.seen) /\ ~ row[m].mine => ~ n.acked
    BY <1>0 DEF Claimable, WorkerOK, Waiting, Good, StoreOK
  <2>2. CASE r = row[m] /\ x = Idle  BY <1>0, <1>3, <2>2 DEF Good, StoreOK, Has
  <2>3. CASE r = c /\ Claimable(m, job.worker.seen)  BY <1>0, <1>1, <1>2, <1>3, <1>6, <2>1, <2>3 DEF StoreOK, Has
  <2> QED  BY <1>6, <2>2, <2>3
<1>14. Good(m, phase, x, p, r, n, a, f, s)  BY <1>9, <1>11, <1>12, <1>13 DEF Good
<1>15. phase' = phase  BY <1>5
<1> QED  BY <1>0, <1>7, <1>8, <1>14, <1>15, Update

\* The carrier gets m.
LEMMA SubmitStep ==
    ASSUME Inv, NEW m \in Msgs, NEW taken \in {"all", "some", "refused"}, Submit(m, taken)
    PROVE  Inv'
<1> DEFINE a == memory[m]  f == file[m]  s == stable[m]  r == row[m]  p == job.replay
           n == [net[m] EXCEPT !.sent = @ + 1, !.taken = taken]
           w == [job.worker EXCEPT !.pc = "submitted"]
<1>0. /\ WorkerOK(job.worker, phase) /\ ReplayOK(p, phase) /\ None \notin Msgs /\ net[m] \in Carrier /\ job.worker \in Step
      /\ Good(m, phase, job.worker, p, r, net[m], a, f, s) /\ job.worker.pc = "claimed" /\ job.worker.id = m /\ r.mine
  BY Parts DEF Submit, Out
<1>1. net[m].sent = 0  BY <1>0 DEF Good, SentOK, Has
<1>2. n \in Carrier /\ n.sent = 1 /\ n.taken = taken /\ n.acked = net[m].acked
  <2>1. n = [net[m] EXCEPT !.sent = 1, !.taken = taken]  BY <1>1
  <2>2. 1 \in Nat /\ taken \in {"nothing", "all", "some", "refused"}  OBVIOUS
  <2> QED  BY <1>0, <2>1, <2>2 DEF Carrier
<1>3. w \in Step /\ w.pc = "submitted" /\ w.id = m /\ w.out = job.worker.out /\ w.seen = job.worker.seen  BY <1>0 DEF Step, Pcs
<1>4. /\ net' = [net EXCEPT ![m] = n] /\ job' = [worker |-> w, replay |-> p]
      /\ UNCHANGED <<row, aged, phase, journal, faults>>
  <2>1. net' = [net EXCEPT ![m] = n]  BY DEF Submit, Inv, TypeOK
  <2>2. job' = [worker |-> w, replay |-> p]  BY Parts DEF Submit, Goto, Step
  <2> QED  BY <2>1, <2>2 DEF Submit
<1> HIDE DEF n, w
<1>5. Updated(m, w, p, r, n, a, f, s)
  <2>1. /\ p \in Step /\ r \in Rows /\ {a, f, s} \subseteq Outcomes \cup {None} /\ aged \subseteq Msgs /\ faults \in 0 .. MaxFaults
        /\ row = [row EXCEPT ![m] = r] /\ memory = [memory EXCEPT ![m] = a] /\ file = [file EXCEPT ![m] = f]
        /\ stable = [stable EXCEPT ![m] = s]
    BY Parts
  <2> QED  BY <1>0, <1>2, <1>3, <1>4, <2>1 DEF Updated, SamePhase, journal
<1>6. WorkerOK(w, phase) /\ w.out = None  BY <1>0, <1>3 DEF WorkerOK, Before
<1>7. RecordOK(phase, a, f, s) /\ LockOK(m, phase, w, p, a, f, s) /\ NoRecord(a, f, s)  BY <1>0, <1>3 DEF Good, LockOK, Has
<1>8. r.state \in {"sending", "failed"} /\ r.issue \in {"none", "RESULT_TIMEOUT"}  BY <1>0 DEF Good, RowOK, Has
<1>9. SentOK(m, w, r, n, a, f, s)  BY <1>2, <1>3, <1>6, <1>7, <1>8 DEF SentOK, NoRecord, Waiting, Has
<1>10. RowOK(m, w, r, n, a, f, s)  BY <1>2, <1>3, <1>8 DEF RowOK, Has
<1>11. StoreOK(m, w, r, n)  BY <1>0 DEF StoreOK
<1>12. Good(m, phase, w, p, r, n, a, f, s)  BY <1>7, <1>9, <1>10, <1>11 DEF Good
<1>13. phase' = phase  BY <1>4
<1> QED  BY <1>0, <1>5, <1>6, <1>12, <1>13, Update

-----------------------------------------------------------------------------
(* The journal.                                                            *)

\* The outcome is remembered.
LEMMA RecordStep ==
    ASSUME Inv, NEW m \in Msgs, Record(m)
    PROVE  Inv'
<1> DEFINE a == memory[m]  f == file[m]  s == stable[m]  r == row[m]  p == job.replay  n == net[m]
           w == [job.worker EXCEPT !.pc = "save"]  o == job.worker.out
<1>0. /\ WorkerOK(job.worker, phase) /\ ReplayOK(p, phase) /\ None \notin Msgs /\ job.worker \in Step
      /\ Good(m, phase, job.worker, p, r, n, a, f, s) /\ job.worker.pc = "record" /\ job.worker.id = m
  BY Parts DEF Record
<1>1. w \in Step /\ w.pc = "save" /\ w.id = m /\ w.out = o /\ w.seen = job.worker.seen  BY <1>0 DEF Step, Pcs
<1>2. o \in Outcomes  BY <1>0 DEF WorkerOK, Before, Step
<1>3. /\ memory' = [memory EXCEPT ![m] = o] /\ job' = [worker |-> w, replay |-> p]
      /\ UNCHANGED <<row, aged, phase, file, stable, net, faults>>
  BY Parts DEF Record, Goto, Step
<1> HIDE DEF w
<1>4. Updated(m, w, p, r, n, o, f, s)
  <2>1. /\ p \in Step /\ r \in Rows /\ n \in Carrier /\ {f, s} \subseteq Outcomes \cup {None}
        /\ aged \subseteq Msgs /\ faults \in 0 .. MaxFaults
        /\ row = [row EXCEPT ![m] = r] /\ net = [net EXCEPT ![m] = n] /\ file = [file EXCEPT ![m] = f]
        /\ stable = [stable EXCEPT ![m] = s]
    BY Parts
  <2> QED  BY <1>0, <1>1, <1>2, <1>3, <2>1 DEF Updated, SamePhase
<1>5. WorkerOK(w, phase) /\ phase = "run"  BY <1>0, <1>1 DEF WorkerOK, Before
<1>6. RecordOK(phase, o, f, s) /\ LockOK(m, phase, w, p, o, f, s)  BY <1>0, <1>1, <1>5 DEF Good, RecordOK, LockOK, NoRecord, Has
<1>7. SentOK(m, w, r, n, o, f, s)  BY <1>0, <1>1 DEF Good, SentOK, Has
<1>8. RowOK(m, w, r, n, o, f, s)  BY <1>0, <1>1 DEF Good, RowOK, Has
<1>9. StoreOK(m, w, r, n)  BY <1>0, <1>1 DEF Good, StoreOK, Has
<1>10. Good(m, phase, w, p, r, n, o, f, s)  BY <1>6, <1>7, <1>8, <1>9 DEF Good
<1>11. phase' = phase  BY <1>3
<1> QED  BY <1>0, <1>4, <1>5, <1>10, <1>11, Update

\* It is written to its file, or not.
LEMMA SaveStep ==
    ASSUME Inv, NEW m \in Msgs, Save(m)
    PROVE  Inv'
<1> DEFINE a == memory[m]  r == row[m]  p == job.replay  n == net[m]
           w == [job.worker EXCEPT !.pc = "apply"]  o == job.worker.out
<1>0. /\ WorkerOK(job.worker, phase) /\ ReplayOK(p, phase) /\ None \notin Msgs /\ job.worker \in Step
      /\ Good(m, phase, job.worker, p, r, n, a, file[m], stable[m]) /\ job.worker.pc = "save" /\ job.worker.id = m
  BY Parts DEF Save
<1>1. w \in Step /\ w.pc = "apply" /\ w.id = m /\ w.out = o /\ w.seen = job.worker.seen  BY <1>0 DEF Step, Pcs
<1>2. o \in Outcomes /\ a = o /\ phase = "run"  BY <1>0 DEF WorkerOK, Before, Step, Good, LockOK, Has
<1>3. job' = [worker |-> w, replay |-> p] /\ UNCHANGED <<row, aged, phase, memory, net>>  BY Parts DEF Save, Goto, Step
<1>4. PICK f \in {file[m], o}, s \in {stable[m], o} : file' = [file EXCEPT ![m] = f] /\ stable' = [stable EXCEPT ![m] = s]
  BY Parts DEF Save
<1>5. faults' \in 0 .. MaxFaults  BY Parts, MessagesConstants DEF Save, Fault
<1> HIDE DEF w
<1>6. Updated(m, w, p, r, n, a, f, s)
  <2>1. /\ p \in Step /\ r \in Rows /\ n \in Carrier /\ {file[m], stable[m]} \subseteq Outcomes \cup {None}
        /\ aged \subseteq Msgs
        /\ row = [row EXCEPT ![m] = r] /\ net = [net EXCEPT ![m] = n] /\ memory = [memory EXCEPT ![m] = a]
    BY Parts
  <2> QED  BY <1>0, <1>1, <1>2, <1>3, <1>4, <1>5, <2>1 DEF Updated, SamePhase
<1>7. WorkerOK(w, phase)  BY <1>0, <1>1 DEF WorkerOK, Before
<1>8. RecordOK(phase, a, f, s) /\ LockOK(m, phase, w, p, a, f, s)
  BY <1>0, <1>1, <1>2, <1>4 DEF Good, RecordOK, LockOK, Has
<1>9. SentOK(m, w, r, n, a, f, s)  BY <1>0, <1>1, <1>2, <1>4 DEF Good, SentOK, Has
<1>10. RowOK(m, w, r, n, a, f, s)  BY <1>0, <1>1 DEF Good, RowOK, Has
<1>11. StoreOK(m, w, r, n)  BY <1>0, <1>1 DEF Good, StoreOK, Has
<1>12. Good(m, phase, w, p, r, n, a, f, s)  BY <1>8, <1>9, <1>10, <1>11 DEF Good
<1>13. phase' = phase  BY <1>3
<1> QED  BY <1>0, <1>6, <1>7, <1>12, <1>13, Update

\* The replay takes the record there is.
LEMMA ReplayBeginStep ==
    ASSUME Inv, NEW m \in Msgs, ReplayBegin(m)
    PROVE  Inv'
<1> DEFINE a == memory[m]  f == file[m]  s == stable[m]  r == row[m]  n == net[m]  w == job.worker
           o == IF a # None THEN a ELSE f
           p == [Idle EXCEPT !.pc = "apply", !.id = m, !.out = o]
<1>0. /\ WorkerOK(w, phase) /\ ReplayOK(job.replay, phase) /\ None \notin Msgs /\ w \in Step
      /\ {a, f, s} \subseteq Outcomes \cup {None}
      /\ Good(m, phase, w, job.replay, r, n, a, f, s) /\ job.replay.pc = "idle" /\ phase \in {"recover", "run"}
      /\ (a # None \/ f # None)
  BY Parts DEF ReplayBegin, Pending
<1>1. o \in Outcomes /\ o = (IF phase = "run" THEN a ELSE f) /\ o # None  BY <1>0, Parts DEF Good, RecordOK
<1>2. p \in Step /\ p.pc = "apply" /\ p.id = m /\ p.out = o  BY <1>1 DEF Step, Pcs, Idle
<1>3. job' = [worker |-> w, replay |-> p] /\ UNCHANGED <<row, aged, phase, journal, net, faults>>
  BY Parts DEF ReplayBegin, Set
<1> HIDE DEF p, o
<1>4. Updated(m, w, p, r, n, a, f, s)
  <2>1. /\ r \in Rows /\ n \in Carrier /\ aged \subseteq Msgs /\ faults \in 0 .. MaxFaults
        /\ row = [row EXCEPT ![m] = r] /\ net = [net EXCEPT ![m] = n] /\ memory = [memory EXCEPT ![m] = a]
        /\ file = [file EXCEPT ![m] = f] /\ stable = [stable EXCEPT ![m] = s]
    BY Parts
  <2>2. job.replay.id = None  BY <1>0 DEF ReplayOK
  <2> QED  BY <1>0, <1>2, <1>3, <2>1, <2>2 DEF Updated, SamePhase, journal
<1>5. ReplayOK(p, phase)  BY <1>0, <1>1, <1>2 DEF ReplayOK
<1>6. w.id = m => w.pc = "selected"
  <2>1. w.id = m => w.pc \notin {"eligible", "claimed", "submitted", "record", "ack"}
    BY <1>0 DEF Good, LockOK, NoRecord, Has
  <2>2. w.id = m => w.pc \notin {"save", "apply", "remove"}  BY DEF ReplayBegin, Holds
  <2>3. w.id = m => w.pc # "idle"  BY <1>0 DEF WorkerOK
  <2> QED  BY <1>0, <2>1, <2>2, <2>3 DEF Step, Pcs
<1>7. RecordOK(phase, a, f, s) /\ LockOK(m, phase, w, p, a, f, s)  BY <1>0, <1>1, <1>2, <1>6 DEF Good, LockOK, Has
<1>8. Good(m, phase, w, p, r, n, a, f, s)  BY <1>0, <1>7 DEF Good
<1>9. phase' = phase  BY <1>3
<1> QED  BY <1>0, <1>4, <1>5, <1>8, <1>9, Update

\* What writing an outcome does to the row: it takes the state and the issue of the outcome, if it
\* is not deleted and was not final, or stays.
LEMMA AppliedRow ==
    ASSUME Inv, NEW m \in Msgs, NEW o \in Outcomes
    PROVE  \E r \in Rows :
              /\ Applied(m, o) = [row EXCEPT ![m] = r] /\ r.mine = row[m].mine
              /\ \/ /\ Accepts(m, o) /\ r.state = o.state /\ r.issue = o.issue
                 \/ ~ Accepts(m, o) /\ r = row[m]
<1>1. CASE Accepts(m, o)
  <2> DEFINE r == [row[m] EXCEPT !.state = o.state, !.issue = o.issue, !.result = @ \/ o.result,
                                 !.attempts = IF m \in In THEN o.attempts ELSE @]
  <2>1. row[m] \in Rows  BY Parts
  <2>2. o.state \in States /\ o.issue \in Issues /\ o.result \in BOOLEAN /\ o.attempts \in 0 .. MaxDownloads
    BY DEF Outcomes, States
  <2>3. r \in Rows /\ r.mine = row[m].mine /\ r.state = o.state /\ r.issue = o.issue
    BY <2>1, <2>2 DEF Rows, States, Waiting
  <2>4. Applied(m, o) = [row EXCEPT ![m] = r]  BY <1>1 DEF Applied, Inv, TypeOK, Rows
  <2> QED  BY <1>1, <2>3, <2>4
<1>2. CASE ~ Accepts(m, o)  BY <1>2, Parts DEF Applied
<1> QED  BY <1>1, <1>2

\* The row of m after an outcome of m was written, or not, is still true of m.
LEMMA AppliedGood ==
    ASSUME Inv, NEW m \in Msgs, NEW o \in Outcomes, NEW r \in Rows, r.mine = row[m].mine,
           row[m].mine => Fits(net[m], o),
           \/ Accepts(m, o) /\ r.state = o.state /\ r.issue = o.issue
           \/ r = row[m],
           ~ Has(job.worker, m, {"eligible", "claimed", "submitted", "record", "save", "ack"}),
           Has(job.worker, m, {"apply", "remove"}) => job.worker.pc = "apply" /\ job.worker.out = o
    PROVE  /\ SentOK(m, job.worker, r, net[m], memory[m], file[m], stable[m])
           /\ RowOK(m, job.worker, r, net[m], memory[m], file[m], stable[m])
           /\ net[m].acked /\ ~ r.mine => r.state = "received" \/ r.deleted
<1> DEFINE a == memory[m]  f == file[m]  s == stable[m]  n == net[m]  w == job.worker
<1>0. /\ Good(m, phase, w, job.replay, row[m], n, a, f, s) /\ n.sent \in Nat  BY Parts DEF Carrier
<1>1. CASE r = row[m]  BY <1>0, <1>1 DEF Good, StoreOK
<1>2. CASE Accepts(m, o) /\ r.state = o.state /\ r.issue = o.issue
  <2>1. SentOK(m, w, r, n, a, f, s)  BY <1>0, <1>2 DEF Good, SentOK, Fits, Answers, Waiting
  <2>2. o.state # "delivered" /\ o.issue # "SEND_INTERRUPTED"  BY DEF Outcomes
  <2>3. ~ Has(w, m, {"claimed"})  BY DEF Has
  <2>4. RowOK(m, w, r, n, a, f, s)  BY <1>0, <1>2, <2>2, <2>3 DEF RowOK, Fits
  <2>5. ~ row[m].mine => ~ n.acked  BY <1>0, <1>2 DEF Good, StoreOK, Accepts, Waiting, Claimed
  <2> QED  BY <2>1, <2>4, <2>5
<1> QED  BY <1>1, <1>2

\* The worker writes its outcome to the row; a failed write may have been committed.
LEMMA WorkerApplies ==
    ASSUME Inv, NEW m \in Msgs, ApplyOutcome("worker", m)
    PROVE  Inv'
<1> DEFINE a == memory[m]  f == file[m]  s == stable[m]  n == net[m]  p == job.replay
           o == job.worker.out  w == [job.worker EXCEPT !.pc = "remove"]
<1>0. /\ WorkerOK(job.worker, phase) /\ ReplayOK(p, phase) /\ None \notin Msgs /\ job.worker \in Step
      /\ Good(m, phase, job.worker, p, row[m], n, a, f, s) /\ job.worker.pc = "apply" /\ job.worker.id = m
  BY Parts DEF ApplyOutcome
<1>1. w \in Step /\ w.pc = "remove" /\ w.id = m /\ w.out = o /\ w.seen = job.worker.seen  BY <1>0 DEF Step, Pcs
<1>2. Idle \in Step /\ Idle.id = None /\ Idle.pc = "idle" /\ Idle.out = None  BY DEF Idle, Step, Pcs
<1>3. o \in Outcomes /\ a = o /\ phase = "run"  BY <1>0 DEF WorkerOK, Before, Step, Good, LockOK, Has
<1>4. PICK u \in Rows : /\ Applied(m, o) = [row EXCEPT ![m] = u] /\ u.mine = row[m].mine
                        /\ \/ Accepts(m, o) /\ u.state = o.state /\ u.issue = o.issue
                           \/ ~ Accepts(m, o) /\ u = row[m]
  BY <1>3, AppliedRow
<1>5. PICK r \in {row[m], u}, x \in {w, Idle} :
        row' = [row EXCEPT ![m] = r] /\ job' = [worker |-> x, replay |-> p] /\ (x = w => r = u)
  <2>1. row = [row EXCEPT ![m] = row[m]] /\ job = [worker |-> job.worker, replay |-> p]  BY Parts
  <2>2. Goto("worker", "remove") => job' = [worker |-> w, replay |-> p]  BY <2>1 DEF Goto, Step
  <2>3. GiveUp("worker") => job' = [worker |-> Idle, replay |-> p]  BY <2>1 DEF GiveUp, Stop, Set
  <2> HIDE DEF w
  <2>4. CASE row' = Applied(m, o) /\ Goto("worker", "remove")  BY <1>4, <2>2, <2>4
  <2>5. CASE row' = Applied(m, o) /\ GiveUp("worker")  BY <1>4, <2>3, <2>5
  <2>6. CASE row' = row /\ GiveUp("worker")
    <3>1. Idle # w  BY <1>1, <1>2
    <3> QED  BY <2>1, <2>3, <2>6, <3>1
  <2> QED  BY <2>4, <2>5, <2>6 DEF ApplyOutcome
<1>6. UNCHANGED <<aged, phase, journal, net>> /\ faults' \in 0 .. MaxFaults
  BY <1>3, Parts, MessagesConstants DEF ApplyOutcome, Fault, GiveUp
<1> HIDE DEF w
<1>7. Updated(m, x, p, r, n, a, f, s)
  <2>1. /\ p \in Step /\ n \in Carrier /\ row[m] \in Rows /\ {a, f, s} \subseteq Outcomes \cup {None} /\ aged \subseteq Msgs
        /\ net = [net EXCEPT ![m] = n] /\ memory = [memory EXCEPT ![m] = a] /\ file = [file EXCEPT ![m] = f]
        /\ stable = [stable EXCEPT ![m] = s]
    BY Parts
  <2> QED  BY <1>0, <1>1, <1>2, <1>4, <1>5, <1>6, <2>1 DEF Updated, SamePhase, journal
<1>8. WorkerOK(x, phase)  BY <1>0, <1>1, <1>2, <1>5 DEF WorkerOK, Before
<1>9. RecordOK(phase, a, f, s) /\ LockOK(m, phase, x, p, a, f, s)
  BY <1>0, <1>1, <1>2, <1>3, <1>5 DEF Good, LockOK, Has
<1>10. r.mine = row[m].mine /\ (row[m].mine => Fits(n, o))  BY <1>0, <1>3, <1>4, <1>5 DEF Good, SentOK, WorkerOK, Before
<1>11. /\ SentOK(m, job.worker, r, n, a, f, s) /\ RowOK(m, job.worker, r, n, a, f, s)
       /\ n.acked /\ ~ r.mine => r.state = "received" \/ r.deleted
  BY <1>0, <1>3, <1>4, <1>5, <1>10, Parts, AppliedGood DEF Has
<1>12. SentOK(m, x, r, n, a, f, s)  BY <1>0, <1>1, <1>2, <1>5, <1>11 DEF SentOK, Has
<1>13. RowOK(m, x, r, n, a, f, s)  BY <1>0, <1>1, <1>2, <1>5, <1>11 DEF RowOK, Has
<1>14. StoreOK(m, x, r, n)
  <2>1. CASE x = Idle  BY <1>0, <1>2, <1>11, <2>1 DEF StoreOK, Has
  <2>2. CASE x = w /\ r = u
    <3>1. ~ row[m].mine /\ o.state = "received" => row[m].state = "downloading" \/ row[m].deleted
      BY <1>0 DEF Good, StoreOK, Has
    <3>2. ~ row[m].mine /\ o.state = "received" => Accepts(m, o) \/ row[m].deleted  BY <3>1 DEF Accepts, Claimed
    <3>3. ~ row[m].mine /\ o.state = "received" => r.state = "received" \/ r.deleted  BY <1>4, <2>2, <3>2
    <3> QED  BY <1>1, <1>10, <1>11, <2>2, <3>3 DEF StoreOK, Has
  <2> QED  BY <1>5, <2>1, <2>2
<1>15. Good(m, phase, x, p, r, n, a, f, s)  BY <1>9, <1>12, <1>13, <1>14 DEF Good
<1>16. phase' = phase  BY <1>6
<1> QED  BY <1>0, <1>7, <1>8, <1>15, <1>16, Update

\* The replay writes a recorded outcome to the row.
LEMMA ReplayApplies ==
    ASSUME Inv, NEW m \in Msgs, ApplyOutcome("replay", m)
    PROVE  Inv'
<1> DEFINE a == memory[m]  f == file[m]  s == stable[m]  n == net[m]  w == job.worker
           o == job.replay.out  p == [job.replay EXCEPT !.pc = "remove"]
<1>0. /\ WorkerOK(w, phase) /\ ReplayOK(job.replay, phase) /\ None \notin Msgs /\ job.replay \in Step
      /\ Good(m, phase, w, job.replay, row[m], n, a, f, s) /\ job.replay.pc = "apply" /\ job.replay.id = m
  BY Parts DEF ApplyOutcome
<1>1. p \in Step /\ p.pc = "remove" /\ p.id = m /\ p.out = o /\ p.seen = job.replay.seen  BY <1>0 DEF Step, Pcs
<1>2. Idle \in Step /\ Idle.id = None /\ Idle.pc = "idle" /\ Idle.out = None  BY DEF Idle, Step, Pcs
<1>3. o \in Outcomes /\ o \in {a, f} /\ phase \in {"recover", "run"} /\ (w.id = m => w.pc = "selected")
  BY <1>0, Parts DEF ReplayOK, Step, Good, LockOK
<1>4. PICK u \in Rows : /\ Applied(m, o) = [row EXCEPT ![m] = u] /\ u.mine = row[m].mine
                        /\ \/ Accepts(m, o) /\ u.state = o.state /\ u.issue = o.issue
                           \/ ~ Accepts(m, o) /\ u = row[m]
  BY <1>3, AppliedRow
<1>5. PICK r \in {row[m], u}, x \in {p, Idle} :
        /\ row' = [row EXCEPT ![m] = r] /\ job' = [worker |-> w, replay |-> x]
        /\ phase' = phase \/ (phase = "recover" /\ phase' = "prepare" /\ x = Idle)
  <2>1. row = [row EXCEPT ![m] = row[m]] /\ job = [worker |-> w, replay |-> job.replay]  BY Parts
  <2>2. Goto("replay", "remove") => job' = [worker |-> w, replay |-> p]  BY <2>1 DEF Goto, Step
  <2>3. GiveUp("replay") => /\ job' = [worker |-> w, replay |-> Idle]
                            /\ phase' = phase \/ (phase = "recover" /\ phase' = "prepare")
    BY <2>1 DEF GiveUp, Stop, Set
  <2> HIDE DEF p
  <2>4. CASE row' = Applied(m, o) /\ Goto("replay", "remove") /\ phase' = phase  BY <1>4, <2>2, <2>4
  <2>5. CASE GiveUp("replay") /\ (row' = row \/ row' = Applied(m, o))
    <3>1. PICK r \in {row[m], u} : row' = [row EXCEPT ![m] = r]  BY <1>4, <2>1, <2>5
    <3>2. /\ job' = [worker |-> w, replay |-> Idle]
          /\ phase' = phase \/ (phase = "recover" /\ phase' = "prepare")
      BY <2>3, <2>5
    <3> QED  BY <3>1, <3>2
  <2> QED  BY <2>4, <2>5 DEF ApplyOutcome
<1>6. UNCHANGED <<aged, journal, net>> /\ faults' \in 0 .. MaxFaults
  BY Parts, MessagesConstants DEF ApplyOutcome, Fault
<1> HIDE DEF p
<1>7. Updated(m, w, x, r, n, a, f, s)
  <2>1. /\ w \in Step /\ n \in Carrier /\ row[m] \in Rows /\ {a, f, s} \subseteq Outcomes \cup {None} /\ aged \subseteq Msgs
        /\ net = [net EXCEPT ![m] = n] /\ memory = [memory EXCEPT ![m] = a] /\ file = [file EXCEPT ![m] = f]
        /\ stable = [stable EXCEPT ![m] = s]
    BY Parts
  <2>2. SamePhase  BY <1>5 DEF SamePhase
  <2> QED  BY <1>0, <1>1, <1>2, <1>4, <1>5, <1>6, <2>1, <2>2 DEF Updated, journal
<1>8. WorkerOK(w, phase') /\ ReplayOK(x, phase')  BY <1>0, <1>1, <1>2, <1>3, <1>5 DEF WorkerOK, ReplayOK
<1>9. RecordOK(phase', a, f, s)  BY <1>0, <1>5 DEF Good, RecordOK
<1>10. LockOK(m, phase', w, x, a, f, s)  BY <1>0, <1>1, <1>2, <1>3, <1>5 DEF Good, LockOK, Has
<1>11. r.mine = row[m].mine /\ (row[m].mine => Fits(n, o))  BY <1>0, <1>3, <1>4, <1>5, Parts DEF Good, SentOK
<1>12. /\ SentOK(m, w, r, n, a, f, s) /\ RowOK(m, w, r, n, a, f, s)
       /\ n.acked /\ ~ r.mine => r.state = "received" \/ r.deleted
  <2>1. r \in Rows  BY <1>4, <1>5, Parts
  <2> QED  BY <1>3, <1>4, <1>5, <1>11, <2>1, AppliedGood DEF Has
<1>13. StoreOK(m, w, r, n)  BY <1>3, <1>12 DEF StoreOK, Has
<1>14. Good(m, phase', w, x, r, n, a, f, s)  BY <1>9, <1>10, <1>12, <1>13 DEF Good
<1> QED  BY <1>0, <1>7, <1>8, <1>14, Update

\* The worker removes the record; only content that is stored is then acknowledged.
LEMMA WorkerRemoves ==
    ASSUME Inv, NEW m \in Msgs, Remove("worker", m)
    PROVE  Inv'
<1> DEFINE r == row[m]  n == net[m]  p == job.replay  o == job.worker.out  w == [job.worker EXCEPT !.pc = "ack"]
<1>0. /\ WorkerOK(job.worker, phase) /\ ReplayOK(p, phase) /\ None \notin Msgs /\ job.worker \in Step
      /\ Good(m, phase, job.worker, p, r, n, memory[m], file[m], stable[m]) /\ job.worker.pc = "remove" /\ job.worker.id = m
  BY Parts DEF Remove
<1>1. w \in Step /\ w.pc = "ack" /\ w.id = m /\ w.out = o /\ w.seen = job.worker.seen  BY <1>0 DEF Step, Pcs
<1>2. Idle \in Step /\ Idle.id = None /\ Idle.pc = "idle" /\ Idle.out = None  BY DEF Idle, Step, Pcs
<1>3. phase = "run"  BY <1>0 DEF WorkerOK
<1>4. PICK a \in {memory[m], None}, f \in {file[m], None}, s \in {stable[m], None}, x \in {w, Idle} :
        /\ memory' = [memory EXCEPT ![m] = a] /\ file' = [file EXCEPT ![m] = f] /\ stable' = [stable EXCEPT ![m] = s]
        /\ job' = [worker |-> x, replay |-> p]
        /\ NoRecord(a, f, s) \/ (a = memory[m] /\ s = stable[m] /\ x = Idle)
        /\ x = w => o.state = "received" /\ NoRecord(a, f, s)
  <2>1. /\ job = [worker |-> job.worker, replay |-> p] /\ memory = [memory EXCEPT ![m] = memory[m]]
        /\ file = [file EXCEPT ![m] = file[m]] /\ stable = [stable EXCEPT ![m] = stable[m]]
    BY Parts
  <2>2. Done("worker") => \/ job' = [worker |-> w, replay |-> p] /\ o.state = "received"
                          \/ job' = [worker |-> Idle, replay |-> p]
    BY <2>1 DEF Done, Goto, Stop, Set, Step
  <2>3. GiveUp("worker") => job' = [worker |-> Idle, replay |-> p]  BY <2>1 DEF GiveUp, Stop, Set
  <2> HIDE DEF w
  <2>4. CASE /\ file' = [file EXCEPT ![m] = None] /\ stable' = [stable EXCEPT ![m] = None]
             /\ memory' = [memory EXCEPT ![m] = None] /\ Done("worker")
    <3>1. NoRecord(None, None, None)  BY DEF NoRecord
    <3>2. CASE job' = [worker |-> w, replay |-> p] /\ o.state = "received"  BY <2>4, <3>1, <3>2
    <3>3. CASE job' = [worker |-> Idle, replay |-> p]  BY <1>1, <1>2, <2>4, <3>1, <3>3
    <3> QED  BY <2>2, <2>4, <3>2, <3>3
  <2>5. CASE GiveUp("worker") /\ file' = file /\ UNCHANGED <<memory, stable>>
    BY <1>1, <1>2, <2>1, <2>3, <2>5
  <2>6. CASE GiveUp("worker") /\ file' = [file EXCEPT ![m] = None] /\ UNCHANGED <<memory, stable>>
    BY <1>1, <1>2, <2>1, <2>3, <2>6
  <2> QED  BY <2>4, <2>5, <2>6 DEF Remove
<1>5. UNCHANGED <<row, aged, phase, net>> /\ faults' \in 0 .. MaxFaults
  BY <1>3, Parts, MessagesConstants DEF Remove, Fault, GiveUp
<1> HIDE DEF w
<1>6. Updated(m, x, p, r, n, a, f, s)
  <2>1. /\ p \in Step /\ r \in Rows /\ n \in Carrier /\ {memory[m], file[m], stable[m]} \subseteq Outcomes \cup {None}
        /\ aged \subseteq Msgs /\ net = [net EXCEPT ![m] = n] /\ row = [row EXCEPT ![m] = r]
    BY Parts
  <2> QED  BY <1>0, <1>1, <1>2, <1>4, <1>5, <2>1 DEF Updated, SamePhase
<1>7. WorkerOK(x, phase)  BY <1>0, <1>1, <1>2, <1>4 DEF WorkerOK, Before
<1>8. RecordOK(phase, a, f, s)  BY <1>0, <1>3, <1>4 DEF Good, RecordOK, NoRecord
<1>9. LockOK(m, phase, x, p, a, f, s)  BY <1>0, <1>1, <1>2, <1>4 DEF Good, LockOK, Has
<1>10. SentOK(m, x, r, n, a, f, s)  BY <1>0, <1>1, <1>2, <1>4 DEF Good, SentOK, Has
<1>11. RowOK(m, x, r, n, a, f, s)  BY <1>0, <1>1, <1>2, <1>4 DEF Good, RowOK, Has
<1>12. StoreOK(m, x, r, n)  BY <1>0, <1>1, <1>2, <1>4 DEF Good, StoreOK, Has
<1>13. Good(m, phase, x, p, r, n, a, f, s)  BY <1>8, <1>9, <1>10, <1>11, <1>12 DEF Good
<1>14. phase' = phase  BY <1>5
<1> QED  BY <1>0, <1>6, <1>7, <1>13, <1>14, Update

\* The replay removes the record.
LEMMA ReplayRemoves ==
    ASSUME Inv, NEW m \in Msgs, Remove("replay", m)
    PROVE  Inv'
<1> DEFINE r == row[m]  n == net[m]  w == job.worker
<1>0. /\ WorkerOK(w, phase) /\ ReplayOK(job.replay, phase) /\ None \notin Msgs /\ job.replay \in Step
      /\ Good(m, phase, w, job.replay, r, n, memory[m], file[m], stable[m]) /\ job.replay.pc = "remove" /\ job.replay.id = m
  BY Parts DEF Remove
<1>1. Idle \in Step /\ Idle.id = None /\ Idle.pc = "idle" /\ Idle.out = None  BY DEF Idle, Step, Pcs
<1>2. phase \in {"recover", "run"} /\ (w.id = m => w.pc = "selected")  BY <1>0 DEF ReplayOK, Good, LockOK
<1>3. PICK a \in {memory[m], None}, f \in {file[m], None}, s \in {stable[m], None} :
        /\ memory' = [memory EXCEPT ![m] = a] /\ file' = [file EXCEPT ![m] = f] /\ stable' = [stable EXCEPT ![m] = s]
        /\ job' = [worker |-> w, replay |-> Idle]
        /\ \/ NoRecord(a, f, s) /\ phase' = phase
           \/ a = memory[m] /\ s = stable[m] /\ phase' = (IF phase = "recover" THEN "prepare" ELSE phase)
  <2>1. /\ job = [worker |-> w, replay |-> job.replay] /\ memory = [memory EXCEPT ![m] = memory[m]]
        /\ file = [file EXCEPT ![m] = file[m]] /\ stable = [stable EXCEPT ![m] = stable[m]]
    BY Parts
  <2>2. Done("replay") => job' = [worker |-> w, replay |-> Idle]  BY <2>1 DEF Done, Stop, Set
  <2>3. GiveUp("replay") => /\ job' = [worker |-> w, replay |-> Idle]
                            /\ phase' = (IF phase = "recover" THEN "prepare" ELSE phase)
    BY <2>1 DEF GiveUp, Stop, Set
  <2>4. CASE /\ file' = [file EXCEPT ![m] = None] /\ stable' = [stable EXCEPT ![m] = None]
             /\ memory' = [memory EXCEPT ![m] = None] /\ Done("replay") /\ phase' = phase
    BY <2>2, <2>4 DEF NoRecord
  <2>5. CASE /\ GiveUp("replay") /\ (file' = file \/ file' = [file EXCEPT ![m] = None])
             /\ UNCHANGED <<memory, stable>>
    BY <2>1, <2>3, <2>5
  <2> QED  BY <2>4, <2>5 DEF Remove
<1>4. UNCHANGED <<row, aged, net>> /\ faults' \in 0 .. MaxFaults  BY Parts, MessagesConstants DEF Remove, Fault
<1>5. Updated(m, w, Idle, r, n, a, f, s)
  <2>1. /\ w \in Step /\ r \in Rows /\ n \in Carrier /\ {memory[m], file[m], stable[m]} \subseteq Outcomes \cup {None}
        /\ aged \subseteq Msgs /\ net = [net EXCEPT ![m] = n] /\ row = [row EXCEPT ![m] = r]
    BY Parts
  <2>2. SamePhase  BY <1>3 DEF SamePhase
  <2> QED  BY <1>0, <1>1, <1>3, <1>4, <2>1, <2>2 DEF Updated
<1>6. WorkerOK(w, phase') /\ ReplayOK(Idle, phase')  BY <1>0, <1>1, <1>2, <1>3 DEF WorkerOK, ReplayOK
<1>7. RecordOK(phase', a, f, s)  BY <1>0, <1>2, <1>3 DEF Good, RecordOK, NoRecord
<1>8. LockOK(m, phase', w, Idle, a, f, s)  BY <1>0, <1>1, <1>2, <1>3 DEF Good, LockOK, Has
<1>9. SentOK(m, w, r, n, a, f, s)  BY <1>0, <1>3 DEF Good, SentOK
<1>10. RowOK(m, w, r, n, a, f, s)  BY <1>0, <1>3 DEF Good, RowOK, NoRecord
<1>11. StoreOK(m, w, r, n)  BY <1>0 DEF Good
<1>12. Good(m, phase', w, Idle, r, n, a, f, s)  BY <1>7, <1>8, <1>9, <1>10, <1>11 DEF Good
<1> QED  BY <1>0, <1>5, <1>6, <1>12, Update

-----------------------------------------------------------------------------
(* Steps of all messages: the SIM, the start of the program and its end.   *)

\* The card of the module changed: every row is stale.
LEMMA CardChangedStep ==
    ASSUME Inv, CardChanged
    PROVE  Inv'
<1>1. ASSUME NEW m \in Msgs
      PROVE  /\ row'[m] \in Rows /\ row'[m].mine = row[m].mine /\ row'[m].deleted = row[m].deleted
             /\ row'[m].state = row[m].state /\ row'[m].issue = row[m].issue
  BY <1>1, Parts DEF CardChanged, Rows
<1>2. UNCHANGED <<aged, job, phase, memory, file, stable, net, faults>>  BY DEF CardChanged, journal
<1>3. TypeOK' /\ JobOK'
  <2>1. row' \in [Msgs -> Rows]  BY <1>1 DEF CardChanged
  <2> QED  BY <1>2, <2>1 DEF Inv, TypeOK, JobOK
<1>4. ASSUME NEW m \in Msgs  PROVE MsgInv(m)'
  <2> DEFINE w == job.worker  n == net[m]  a == memory[m]  f == file[m]  s == stable[m]  r == row'[m]
  <2>1. Good(m, phase, w, job.replay, row[m], n, a, f, s)  BY Parts
  <2>2. SentOK(m, w, r, n, a, f, s)  BY <1>1, <2>1 DEF Good, SentOK
  <2>3. RowOK(m, w, r, n, a, f, s)  BY <1>1, <2>1 DEF Good, RowOK
  <2>4. StoreOK(m, w, r, n)  BY <1>1, <2>1 DEF Good, StoreOK
  <2>5. Good(m, phase, w, job.replay, r, n, a, f, s)  BY <2>1, <2>2, <2>3, <2>4 DEF Good
  <2> QED  BY <1>2, <2>5 DEF MsgInv
<1> QED  BY <1>3, <1>4 DEF Inv

\* Nobody works while the program prepares.
LEMMA NobodyWorks ==
    ASSUME Inv, phase # "run"
    PROVE  /\ job.worker.pc = "idle" /\ job.worker.id = None /\ job.worker.out = None
           /\ job.replay.pc = "idle" \/ phase = "recover"
           /\ job.replay.pc = "idle" => job.replay.id = None
           /\ None \notin Msgs
BY MessagesConstants DEF Inv, JobOK, WorkerOK, ReplayOK, TypeOK, Before

\* The journal's directory is synced.
LEMMA PrepareSyncs ==
    ASSUME Inv, Prepare
    PROVE  Inv'
<1>1. phase = "prepare" /\ phase' = "recover" /\ stable' = file /\ UNCHANGED <<row, aged, job, memory, file, net, faults>>
  BY DEF Prepare
<1>2. TypeOK' /\ JobOK'  BY <1>1, NobodyWorks DEF Inv, TypeOK, JobOK, WorkerOK, ReplayOK
<1>3. ASSUME NEW m \in Msgs  PROVE MsgInv(m)'
  <2> DEFINE w == job.worker  p == job.replay  r == row[m]  n == net[m]  a == memory[m]  f == file[m]
  <2>1. Good(m, phase, w, p, r, n, a, f, stable[m])  BY Parts
  <2>2. RecordOK("recover", a, f, f)  BY <1>1, <2>1 DEF Good, RecordOK
  <2>3. LockOK(m, "recover", w, p, a, f, f)  BY <1>1, NobodyWorks DEF LockOK, Has
  <2>4. SentOK(m, w, r, n, a, f, f) /\ StoreOK(m, w, r, n)  BY <2>1 DEF Good, SentOK
  <2>5. RowOK(m, w, r, n, a, f, f)  BY <2>1 DEF Good, RowOK, NoRecord
  <2>6. Good(m, "recover", w, p, r, n, a, f, f)  BY <2>2, <2>3, <2>4, <2>5 DEF Good
  <2> QED  BY <1>1, <2>6 DEF MsgInv
<1> QED  BY <1>2, <1>3 DEF Inv

\* No record is left.
LEMMA RecoveredStep ==
    ASSUME Inv, Recovered
    PROVE  Inv'
<1>1. /\ phase = "recover" /\ phase' = "interrupt" /\ job.replay.pc = "idle"
      /\ UNCHANGED <<row, aged, job, memory, file, stable, net, faults>>
  BY DEF Recovered, journal
<1>2. TypeOK' /\ JobOK'  BY <1>1, NobodyWorks DEF Inv, TypeOK, JobOK, WorkerOK, ReplayOK
<1>3. ASSUME NEW m \in Msgs  PROVE MsgInv(m)'
  <2> DEFINE w == job.worker  p == job.replay  r == row[m]  n == net[m]  a == memory[m]  f == file[m]  s == stable[m]
  <2>1. Good(m, phase, w, p, r, n, a, f, s)  BY Parts
  <2>2. RecordOK("interrupt", a, f, s)  BY <1>1, <2>1 DEF Good, RecordOK, NoRecord, Recovered, Pending
  <2>3. LockOK(m, "interrupt", w, p, a, f, s)  BY <1>1, NobodyWorks DEF LockOK, Has
  <2>4. Good(m, "interrupt", w, p, r, n, a, f, s)  BY <2>1, <2>2, <2>3 DEF Good
  <2> QED  BY <1>1, <2>4 DEF MsgInv
<1> QED  BY <1>2, <1>3 DEF Inv

\* A row of m that the preparation writes.
LEMMA RowsWritten ==
    ASSUME Inv, phase \in {"interrupt", "resume"}, phase' \in {"prepare", "resume", "run"},
           UNCHANGED <<aged, job, memory, file, stable, net>>, faults' \in 0 .. MaxFaults,
           row' \in [Msgs -> Rows],
           \A m \in Msgs : \/ row'[m] = row[m]
                           \/ /\ row'[m].mine = row[m].mine
                              /\ row[m].mine => row'[m].state = "unknown" /\ row'[m].issue = "SEND_INTERRUPTED"
                              /\ ~ row[m].mine => /\ row'[m].state = "download_pending" /\ ~ row[m].deleted
                                                 /\ row[m].state # "received"
    PROVE  Inv'
<1>1. TypeOK' /\ JobOK'  BY NobodyWorks DEF Inv, TypeOK, JobOK, WorkerOK, ReplayOK
<1>2. ASSUME NEW m \in Msgs  PROVE MsgInv(m)'
  <2> DEFINE w == job.worker  p == job.replay  r == row'[m]  n == net[m]  a == memory[m]  f == file[m]  s == stable[m]
  <2>1. Good(m, phase, w, p, row[m], n, a, f, s) /\ NoRecord(a, f, s)  BY Parts DEF Good, RecordOK
  <2>2. w.id # m /\ p.id # m /\ w.out = None  BY NobodyWorks
  <2>3. RecordOK(phase', a, f, s)  BY <2>1 DEF RecordOK, NoRecord
  <2>4. LockOK(m, phase', w, p, a, f, s)  BY <2>2 DEF LockOK, Has
  <2>5. SentOK(m, w, r, n, a, f, s)  BY <2>1, <2>2 DEF Good, SentOK, Has, NoRecord, Waiting
  <2>6. RowOK(m, w, r, n, a, f, s)  BY <2>1, <2>2 DEF Good, RowOK, Has
  <2>7. StoreOK(m, w, r, n)  BY <2>1, <2>2 DEF Good, StoreOK, Has
  <2>8. Good(m, phase', w, p, r, n, a, f, s)  BY <2>3, <2>4, <2>5, <2>6, <2>7 DEF Good
  <2> QED  BY <2>8 DEF MsgInv
<1> QED  BY <1>1, <1>2 DEF Inv

\* Sends that were under way are now in doubt.
LEMMA InterruptSendsStep ==
    ASSUME Inv, InterruptSends
    PROVE  Inv'
<1>1. /\ phase = "interrupt" /\ phase' \in {"prepare", "resume"} /\ UNCHANGED <<aged, job, memory, file, stable, net>>
      /\ faults' \in 0 .. MaxFaults
  <2>1. UNCHANGED <<aged, job, memory, file, stable, net>>  BY DEF InterruptSends, journal
  <2>2. phase = "interrupt" /\ phase' \in {"prepare", "resume"}  BY DEF InterruptSends
  <2>3. faults' = faults \/ Fault  BY DEF InterruptSends
  <2>4. faults \in 0 .. MaxFaults  BY DEF Inv, TypeOK
  <2>5. faults' \in 0 .. MaxFaults  BY <2>3, <2>4, MessagesConstants DEF Fault
  <2> QED  BY <2>1, <2>2, <2>5
<1>2. CASE row' = row  BY <1>1, <1>2, RowsWritten DEF Inv, TypeOK
<1>3. CASE row' = [m \in Msgs |-> IF m \in Out /\ row[m].state = "sending"
                     THEN [row[m] EXCEPT !.state = "unknown", !.issue = "SEND_INTERRUPTED"] ELSE row[m]]
  <2>1. ASSUME NEW m \in Msgs
        PROVE  /\ row'[m] \in Rows
               /\ \/ row'[m] = row[m]
                  \/ /\ row[m].mine /\ row'[m].mine = row[m].mine
                     /\ row'[m].state = "unknown" /\ row'[m].issue = "SEND_INTERRUPTED"
    BY <1>3, Parts DEF Rows, Issues, Out
  <2>2. row' \in [Msgs -> Rows]  BY <1>3, <2>1
  <2> QED  BY <1>1, <2>1, <2>2, RowsWritten
<1> QED  BY <1>2, <1>3 DEF InterruptSends

\* Downloads that were under way, or whose host was unknown, begin again.
LEMMA ResumeStep ==
    ASSUME Inv, resumeMMSDownloads
    PROVE  Inv'
<1>1. /\ phase = "resume" /\ phase' \in {"prepare", "run"} /\ UNCHANGED <<aged, job, memory, file, stable, net>>
      /\ faults' \in 0 .. MaxFaults
  <2>1. UNCHANGED <<aged, job, memory, file, stable, net>>  BY DEF resumeMMSDownloads, journal
  <2>2. phase = "resume" /\ phase' \in {"prepare", "run"}  BY DEF resumeMMSDownloads
  <2>3. faults' = faults \/ Fault  BY DEF resumeMMSDownloads
  <2>4. faults \in 0 .. MaxFaults  BY DEF Inv, TypeOK
  <2>5. faults' \in 0 .. MaxFaults  BY <2>3, <2>4, MessagesConstants DEF Fault
  <2> QED  BY <2>1, <2>2, <2>5
<1>2. CASE row' = row  BY <1>1, <1>2, RowsWritten DEF Inv, TypeOK
<1>3. CASE row' = [m \in Msgs |-> IF Resumable(m)
                     THEN [row[m] EXCEPT !.state = "download_pending", !.issue = "none"] ELSE row[m]]
  <2>1. ASSUME NEW m \in Msgs
        PROVE  /\ row'[m] \in Rows
               /\ \/ row'[m] = row[m]
                  \/ /\ ~ row[m].mine /\ row'[m].mine = row[m].mine /\ row'[m].state = "download_pending"
                     /\ ~ row[m].deleted /\ row[m].state # "received"
    BY <1>3, Parts DEF Rows, Issues, Waiting, Out, In, Resumable
  <2>2. row' \in [Msgs -> Rows]  BY <1>3, <2>1
  <2> QED  BY <1>1, <2>1, <2>2, RowsWritten
<1> QED  BY <1>2, <1>3 DEF resumeMMSDownloads

\* The program or the machine stops: a file is as it was written, or as it was synced.
LEMMA CrashStep ==
    ASSUME Inv, Crash
    PROVE  Inv'
<1>1. /\ phase' = "prepare" /\ job' = [worker |-> Idle, replay |-> Idle] /\ memory' = [m \in Msgs |-> None]
      /\ stable' = file' /\ UNCHANGED <<row, aged, net>> /\ faults' \in 0 .. MaxFaults
  BY MessagesConstants DEF Crash, Fault, Inv, TypeOK
<1>2. file' \in [Msgs -> Outcomes \cup {None}] /\ \A m \in Msgs : file'[m] \in {file[m], stable[m]}
  <2>1. PICK kept \in SUBSET Msgs : file' = [m \in Msgs |-> IF m \in kept THEN file[m] ELSE stable[m]]  BY DEF Crash
  <2> QED  BY <2>1 DEF Inv, TypeOK
<1>3. Idle \in Step /\ Idle.id = None /\ Idle.pc = "idle" /\ Idle.out = None /\ None \notin Msgs
  BY MessagesConstants DEF Idle, Step, Pcs
<1>4. TypeOK'  BY <1>1, <1>2, <1>3 DEF Inv, TypeOK
<1>5. JobOK'  BY <1>1, <1>3 DEF JobOK, WorkerOK, ReplayOK
<1>6. ASSUME NEW m \in Msgs  PROVE MsgInv(m)'
  <2> DEFINE r == row[m]  n == net[m]  f == file'[m]
  <2>1. Good(m, phase, job.worker, job.replay, r, n, memory[m], file[m], stable[m])  BY Parts
  <2>2. RecordOK("prepare", None, f, f)  BY DEF RecordOK
  <2>3. LockOK(m, "prepare", Idle, Idle, None, f, f)  BY <1>3 DEF LockOK, Has
  <2>4. SentOK(m, Idle, r, n, None, f, f)  BY <1>2, <1>3, <2>1 DEF Good, SentOK, Has
  <2>5. RowOK(m, Idle, r, n, None, f, f)  BY <1>2, <1>3, <2>1 DEF Good, RowOK, NoRecord, Has
  <2>6. StoreOK(m, Idle, r, n)  BY <1>3, <2>1 DEF Good, StoreOK, Has
  <2>7. Good(m, "prepare", Idle, Idle, r, n, None, f, f)  BY <2>2, <2>3, <2>4, <2>5, <2>6 DEF Good
  <2> QED  BY <1>1, <2>7 DEF MsgInv
<1> QED  BY <1>4, <1>5, <1>6 DEF Inv

-----------------------------------------------------------------------------
(* The invariant.                                                          *)

\* Messages as they are inserted.
LEMMA InitInv == Init => Inv
<1> SUFFICES ASSUME Init  PROVE Inv
  OBVIOUS
<1>1. PICK mine \in [Msgs -> BOOLEAN] :
        row = [m \in Msgs |-> [state |-> IF mine[m] THEN "queued" ELSE "download_pending", issue |-> "none", mine |-> mine[m],
                               deleted |-> FALSE, stale |-> FALSE, result |-> FALSE, attempts |-> 0]]
  BY DEF Init
<1>2. ASSUME NEW m \in Msgs
      PROVE  row[m] \in Rows /\ row[m].issue = "none" /\ row[m].state \in {"queued", "download_pending"}
  BY <1>1 DEF Rows, Waiting, Issues, MaxDownloads
<1>3. Idle \in Step /\ Idle.id = None /\ Idle.pc = "idle" /\ Idle.out = None /\ None \notin Msgs
  BY MessagesConstants DEF Idle, Step, Pcs
<1>4. TypeOK
  <2>1. row \in [Msgs -> Rows]  BY <1>1, <1>2
  <2>2. net \in [Msgs -> [sent : Nat, taken : {"nothing", "all", "some", "refused"}, acked : BOOLEAN]]  BY DEF Init
  <2>3. /\ memory \in [Msgs -> Outcomes \cup {None}] /\ file \in [Msgs -> Outcomes \cup {None}]
        /\ stable \in [Msgs -> Outcomes \cup {None}]
    BY DEF Init
  <2> QED  BY <1>3, <2>1, <2>2, <2>3, MessagesConstants DEF Init, TypeOK
<1>5. JobOK  BY <1>3 DEF Init, JobOK, WorkerOK, ReplayOK
<1>6. ASSUME NEW m \in Msgs  PROVE MsgInv(m)
  <2>1. /\ memory[m] = None /\ file[m] = None /\ stable[m] = None /\ net[m].sent = 0 /\ net[m].taken = "nothing"
        /\ ~ net[m].acked /\ job.worker = Idle /\ job.replay = Idle /\ phase = "prepare"
    BY DEF Init
  <2> QED  BY <1>2, <1>3, <2>1 DEF MsgInv, Good, RecordOK, LockOK, SentOK, RowOK, StoreOK, Has
<1> QED  BY <1>4, <1>5, <1>6 DEF Inv

\* Every step keeps the invariant.
LEMMA NextInv == Inv /\ [Next]_vars => Inv'
<1> SUFFICES ASSUME Inv, [Next]_vars  PROVE Inv'
  OBVIOUS
<1>1. CASE UNCHANGED vars
  BY <1>1 DEF vars, journal, Inv, TypeOK, JobOK, MsgInv
<1>2. ASSUME NEW m \in Msgs, Delete(m) \/ Age(m) \/ Expire(m) \/ Report(m) \/ Select(m)  PROVE Inv'
  BY <1>2, DeleteStep, AgeStep, ExpireStep, ReportStep, SelectStep
<1>3. ASSUME NEW m \in Msgs, WorkerStep(m)  PROVE Inv'
  BY <1>3, CheckPendingStep, RefuseStep, NoReservationStep, TakeClaimStep, NotSentStep, AnswerStep, RetrieveStep,
     AcknowledgeStep, RecordStep, SaveStep, SubmitStep, WorkerApplies, WorkerRemoves
  DEF WorkerStep
<1>4. ASSUME NEW m \in Msgs, ReplayStep(m)  PROVE Inv'
  BY <1>4, ReplayBeginStep, ReplayApplies, ReplayRemoves DEF ReplayStep
<1>5. CASE CardChanged \/ PrepareStep \/ Crash
  BY <1>5, CardChangedStep, PrepareSyncs, RecoveredStep, InterruptSendsStep, ResumeStep, CrashStep DEF PrepareStep
<1> QED  BY <1>1, <1>2, <1>3, <1>4, <1>5 DEF Next

\* Where the outcome of each message is, and that it is true, in every reachable state.
THEOREM MessagesInvariant == Spec => []Inv
<1> QED  BY InitInv, NextInv, PTL DEF Spec

-----------------------------------------------------------------------------
(* What follows from it.                                                   *)

\* A message goes to the carrier at most once, because nothing that is stored or under way can
\* make it eligible again (processMessage, prepareMessages).
THEOREM MessagesOnce == Spec => []SentOnce
<1>1. Inv => SentOnce
  <2> SUFFICES ASSUME Inv, NEW m \in Out
               PROVE  /\ net[m].sent <= 1
                      /\ net[m].sent > 0 => /\ row[m].state \notin Waiting
                                            /\ \A out \in Records(m) : out.state \in {"accepted", "partial", "failed", "unknown"}
    BY DEF SentOnce, AtMostOnce, SentIsFinal
  <2>1. /\ m \in Msgs /\ row[m].mine
        /\ Good(m, phase, job.worker, job.replay, row[m], net[m], memory[m], file[m], stable[m])
    BY Parts DEF Out
  <2>2. ASSUME net[m].sent > 0, NEW out \in Records(m)  PROVE out.state \in Answers
    <3>1. out # None /\ (out \in {memory[m], file[m], stable[m]} \/ \E p \in {"worker", "replay"} : job[p].id = m /\ out = job[p].out)
      BY DEF Records
    <3>2. CASE out \in {memory[m], file[m], stable[m]}  BY <2>1, <2>2, <3>1, <3>2 DEF Good, SentOK, Fits
    <3>3. CASE job.worker.id = m /\ out = job.worker.out  BY <2>1, <2>2, <3>1, <3>3 DEF Good, SentOK, Fits
    <3>4. CASE job.replay.id = m /\ out = job.replay.out
      <4>1. out \in {memory[m], file[m]}  BY <2>1, <3>4 DEF Good, LockOK
      <4> QED  BY <2>1, <2>2, <3>1, <4>1 DEF Good, SentOK, Fits
    <3> QED  BY <3>1, <3>2, <3>3, <3>4
  <2> QED  BY <2>1, <2>2 DEF Good, SentOK, Answers
<1> QED  BY <1>1, MessagesInvariant, PTL

\* A row says what happened to its message, the journal holds one outcome until the row has it,
\* and what was acknowledged to the carrier is stored (Journal.Apply, applyMessageOutcome).
THEOREM MessagesAreSound == Spec => []MessagesSound
<1>1. Inv => Truthful
  <2> SUFFICES ASSUME Inv, NEW m \in Out
               PROVE  /\ row[m].state \in {"accepted", "delivered"} => net[m].taken = "all"
                      /\ row[m].state = "partial" => net[m].taken \in {"all", "some"}
                      /\ row[m].state = "cancelled" \/ row[m].issue = "MESSAGE_EXPIRED" => net[m].sent = 0
                      /\ row[m].state = "unknown" /\ row[m].issue = "SEND_INTERRUPTED" => file[m] = None
    BY DEF Truthful
  <2>1. m \in Msgs /\ row[m].mine  BY DEF Out
  <2> QED  BY <2>1, Parts DEF Good, RowOK, NoRecord
<1>2. Inv => OneOutcome
  <2> SUFFICES ASSUME Inv, NEW m \in Msgs  PROVE \A a, b \in {memory[m], file[m], stable[m]} \ {None} : a = b
    BY DEF OneOutcome
  <2>1. phase \in {"prepare", "recover", "interrupt", "resume", "run"}  BY DEF Inv, TypeOK
  <2> QED  BY <2>1, Parts DEF Good, RecordOK, NoRecord
<1>3. Inv => ApplyNeverWaits
  <2> SUFFICES ASSUME Inv, job.worker.pc = "record"  PROVE ~ Holds("replay", job.worker.id)
    BY DEF ApplyNeverWaits
  <2>1. job.worker.id \in Msgs  BY DEF Inv, JobOK, WorkerOK, Step
  <2>2. job.replay.id # job.worker.id  BY <2>1, Parts DEF Good, LockOK
  <2> QED  BY <2>2 DEF Holds
<1>4. Inv => AckedIsStored
  <2> SUFFICES ASSUME Inv, NEW m \in In, net[m].acked  PROVE row[m].state = "received" \/ row[m].deleted
    BY DEF AckedIsStored
  <2>1. m \in Msgs /\ ~ row[m].mine  BY DEF In, Out
  <2> QED  BY <2>1, Parts DEF Good, StoreOK
<1>5. Inv => TypeOK  BY DEF Inv
<1> QED  BY <1>1, <1>2, <1>3, <1>4, <1>5, MessagesInvariant, PTL DEF MessagesSound, JournalSound

-----------------------------------------------------------------------------
(* What no step may do.                                                    *)

\* What a step that writes the rows can do to the row of m.
LEMMA RowChange ==
    ASSUME Inv, Next, NEW m \in Msgs
    PROVE  \/ row'[m].state = row[m].state
           \/ /\ row[m].state \notin {"delivered", "received", "cancelled", "expired"}
              /\ row[m].state = "accepted" => row'[m].state \in {"delivered", "failed"}
              /\ row'[m].state = "sending" => ~ row[m].deleted /\ ~ row[m].stale
<1>0. row \in [Msgs -> Rows]  BY DEF Inv, TypeOK
<1>1. CASE UNCHANGED row  BY <1>1
<1>2. ASSUME NEW e \in Msgs, Delete(e) \/ Expire(e) \/ Report(e)
      PROVE  \/ row'[m].state = row[m].state
             \/ /\ row[m].state \notin {"delivered", "received", "cancelled", "expired"}
                /\ row[m].state = "accepted" => row'[m].state \in {"delivered", "failed"}
                /\ row'[m].state # "sending"
  BY <1>0, <1>2 DEF Delete, Expire, Report, AwaitsReport, Rows
<1>3. ASSUME NEW e \in Msgs, TakeClaim(e)
      PROVE  \/ row'[m].state = row[m].state
             \/ row[m].state \in Waiting /\ ~ row[m].deleted /\ ~ row[m].stale
  <2>1. job.worker.seen.state \in Waiting  BY <1>3 DEF Inv, JobOK, WorkerOK, TakeClaim
  <2>2. row' = row \/ (row' = Claim(e) /\ Claimable(e, job.worker.seen))  BY <1>3 DEF TakeClaim
  <2> QED  BY <1>0, <2>1, <2>2 DEF Claim, Claimable, Rows
<1>4. ASSUME NEW e \in Msgs, NEW p \in {"worker", "replay"}, ApplyOutcome(p, e)
      PROVE  \/ row'[m].state = row[m].state
             \/ /\ row[m].state \in Waiting \cup Claimed \cup {"unknown", "failed"}
                /\ row'[m].state # "sending"
  <2> DEFINE o == job[p].out
  <2>1. o \in Outcomes
    <3>1. CASE p = "worker"  BY <1>4, <3>1 DEF Inv, JobOK, WorkerOK, Before, Step, ApplyOutcome
    <3>2. CASE p = "replay"  BY <1>4, <3>2 DEF Inv, JobOK, ReplayOK, Step, ApplyOutcome
    <3> QED  BY <3>1, <3>2
  <2>2. row' = row \/ row' = Applied(e, o)  BY <1>4 DEF ApplyOutcome
  <2> HIDE DEF o
  <2>3. o.state # "sending"  BY <2>1 DEF Outcomes
  <2>4. PICK r \in Rows : /\ Applied(e, o) = [row EXCEPT ![e] = r]
                          /\ \/ Accepts(e, o) /\ r.state = o.state
                             \/ r = row[e]
    BY <2>1, AppliedRow
  <2>5. CASE row' = [row EXCEPT ![e] = r] /\ e = m /\ Accepts(e, o) /\ r.state = o.state
    BY <1>0, <2>3, <2>5 DEF Accepts
  <2> QED  BY <1>0, <2>2, <2>4, <2>5
<1>5. CASE CardChanged  BY <1>0, <1>5 DEF CardChanged, Rows
<1>6. CASE InterruptSends  BY <1>0, <1>6 DEF InterruptSends, Rows
<1>7. CASE resumeMMSDownloads
  <2>1. CASE row' = row  BY <2>1
  <2>2. CASE row' = [e \in Msgs |-> IF Resumable(e)
                      THEN [row[e] EXCEPT !.state = "download_pending", !.issue = "none"] ELSE row[e]]
    <3>1. CASE Resumable(m)
      <4>1. row'[m].state = "download_pending"  BY <1>0, <2>2, <3>1 DEF Rows
      <4>2. row[m].state \in {"downloading", "failed"}  BY <3>1 DEF Resumable
      <4> QED  BY <4>1, <4>2
    <3>2. CASE ~ Resumable(m)  BY <2>2, <3>2
    <3> QED  BY <3>1, <3>2
  <2> QED  BY <1>7, <2>1, <2>2 DEF resumeMMSDownloads
<1>8. \/ UNCHANGED row \/ CardChanged \/ InterruptSends \/ resumeMMSDownloads
      \/ \E e \in Msgs : \/ Delete(e) \/ Expire(e) \/ Report(e) \/ TakeClaim(e)
                         \/ ApplyOutcome("worker", e) \/ ApplyOutcome("replay", e)
  BY DEF Next, Age, Select, WorkerStep, CheckPending, Refuse, NoReservation, NotSent, Answer, Retrieve, Acknowledge,
         Record, Save, Submit, Remove, ReplayStep, ReplayBegin, PrepareStep, Prepare, Recovered, Crash
<1> QED  BY <1>1, <1>2, <1>3, <1>4, <1>5, <1>6, <1>7, <1>8 DEF Waiting, Claimed

\* Withdrawn messages stay unsent and final states stay final: a late worker, replay or timeout
\* never reopens a row (the WHERE clauses of the claim and of the result).
THEOREM MessagesKept == Spec => RowsKept
<1>1. Inv /\ [Next]_vars =>
        [\A m \in Out : row[m].state \in Waiting \cup {"cancelled"} /\ (row[m].deleted \/ row[m].stale)
            => row'[m].state # "sending"]_vars
  <2> SUFFICES ASSUME Inv, Next, NEW m \in Out, row[m].state \in Waiting \cup {"cancelled"}, row[m].deleted \/ row[m].stale
               PROVE  row'[m].state # "sending"
    OBVIOUS
  <2>1. m \in Msgs  BY DEF Out
  <2> QED  BY <2>1, RowChange DEF Waiting
<1>2. Inv /\ [Next]_vars =>
        [\A m \in Msgs :
            /\ row[m].state \in {"delivered", "received", "cancelled", "expired"} => row'[m].state = row[m].state
            /\ row[m].state = "accepted" => row'[m].state \in {"accepted", "delivered", "failed"}]_vars
  BY RowChange
<1> QED  BY <1>1, <1>2, MessagesInvariant, PTL DEF Spec, RowsKept, WithdrawnNeverSent, FinalStatesKept

-----------------------------------------------------------------------------
(* The webhook.                                                            *)

\* The numbers of events are given in order; the event of an open transaction is the last one
\* and nobody has seen it.
HookIds ==
    /\ log \in [Hook!Events -> Hook!Row \cup {None}]
    /\ jobs \in [Hook!Events -> Hook!Job \cup {None}]
    /\ posts \in [Hook!Events -> Nat]
    /\ reader.at \in {"idle", "rows"} /\ reader.after \in 0 .. seq
    /\ reader = [at |-> reader.at, after |-> reader.after, read |-> reader.read]
    /\ floor <= seq
    /\ \A v \in open : /\ v = [id |-> seq, row |-> v.row] /\ v.row \in Hook!Row /\ seq \in Hook!Events
                       /\ v.row.state \in {"disabled", "pending"} /\ v.row.attempts = 0
                       /\ v.row.round = 0 /\ ~ v.row.superseded
                       /\ floor < seq /\ reader.after < seq
    /\ \A u, v \in open : u = v
    /\ \A e \in Hook!Events :
           e > seq \/ (e = seq /\ open # {}) => log[e] = None /\ jobs[e] = None /\ posts[e] = 0

\* The attempts a row r of event e counts, where j is the delivery under way, k the posts made
\* and a whether a receiver has accepted: a lease is the row's own until the next replay, and
\* the post it stands for is counted before it is made.
EventOK(r, j, k, a) ==
    /\ r.round <= calls
    /\ r.state = "pending" => r.attempts < MaxAttempts
    /\ r.state = "sending" => r.attempts > 0 /\ r.lease = <<r.round, r.attempts - 1>>
    /\ k <= r.attempts
    /\ r.state = "delivered" => a
    /\ j # None /\ j.at \in {"post", "save"} => j.lease[1] <= r.round
    /\ j # None /\ j.at = "post" /\ j.lease[1] = r.round => k < r.attempts
    /\ j # None /\ j.at = "save" /\ j.answer = "2xx" /\ r.state = "sending" /\ r.lease = j.lease => a

HookRows == \A e \in Hook!Events : log[e] # None => EventOK(log[e], jobs[e], posts[e], e \in answered)

HookInv == Hook!TypeOK /\ HookIds /\ HookRows /\ Hook!NewestKept /\ Hook!Continuous

\* What becomes of a row r that is closed, reopened, or whose delay ends.
ClosedOrDue(r, s) ==
    \E x \in {r, Hook!Cancelled(r), Hook!Reopened(r)} :
        \E d \in BOOLEAN : s = x \/ s = [x EXCEPT !.due = d]


\* What changes a row leaves its story, its attempts and its round as they are: the resource it
\* is about, its kind and its receiver.
LEMMA ClosedRows ==
    ASSUME Hook!WebhookConstants, NEW r \in Hook!Row
    PROVE  /\ Hook!Cancelled(r) \in Hook!Row
           /\ Hook!Cancelled(r) = [r EXCEPT !.state = "cancelled", !.lease = <<>>]
           /\ Hook!Reopened(r) \in Hook!Row
           /\ Hook!Reopened(r).state \in {"failed", "pending"}
           /\ Hook!Reopened(r).state = "pending" => r.attempts < MaxAttempts
           /\ \A x \in {Hook!Cancelled(r), Hook!Reopened(r)} :
                  /\ x.resource = r.resource /\ x.hint = r.hint /\ x.to = r.to /\ x.attempts = r.attempts /\ x.round = r.round
                  /\ x.superseded = r.superseded
           /\ Hook!Cancelled(r).state = "cancelled"
  <1>1. r.attempts \in 0 .. MaxAttempts /\ MaxAttempts \in Nat
    BY DEF Hook!Row, Hook!WebhookConstants
  <1>2. /\ Hook!Cancelled(r) \in Hook!Row
        /\ Hook!Cancelled(r) = [r EXCEPT !.state = "cancelled", !.lease = <<>>]
        /\ Hook!Cancelled(r).state = "cancelled"
    BY DEF Hook!Row, Hook!Ended, Hook!Cancelled
  <1>3. Hook!Reopened(r) \in Hook!Row /\ Hook!Reopened(r).state \in {"failed", "pending"}
    BY DEF Hook!Row, Hook!Ended, Hook!Reopened
  <1>4. Hook!Reopened(r).state = "pending" => r.attempts < MaxAttempts
    BY <1>1 DEF Hook!Row, Hook!Reopened, Hook!Exhausted
  <1>5. \A x \in {Hook!Cancelled(r), Hook!Reopened(r)} :
            /\ x.resource = r.resource /\ x.hint = r.hint /\ x.to = r.to /\ x.attempts = r.attempts /\ x.round = r.round
            /\ x.superseded = r.superseded
    BY DEF Hook!Row, Hook!Cancelled, Hook!Reopened
  <1> QED
    BY <1>2, <1>3, <1>4, <1>5

\* A step that keeps the events and the reader, and the story of each row, changes nothing
\* of what a reader was told and what was superseded.
LEMMA SameStory ==
    ASSUME HookIds, Hook!NewestKept, Hook!Continuous,
           UNCHANGED <<reader, floor, skipped>>,
           \A e \in Hook!Events :
               /\ (log'[e] = None) <=> (log[e] = None)
               /\ log[e] # None => /\ log'[e].resource = log[e].resource /\ log'[e].hint = log[e].hint /\ log'[e].to = log[e].to
                                   /\ log'[e].superseded => log[e].superseded
    PROVE  Hook!NewestKept' /\ Hook!Continuous'
  BY DEF Hook!NewestKept, Hook!Newer, Hook!Continuous, Hook!Stored, HookIds

\* The same when the jobs, the posts, the answers and the calls are as they were.
LEMMA SameRows ==
    ASSUME HookInv, Hook!WebhookConstants,
           UNCHANGED <<seq, open, floor, jobs, reader, answered, posts, skipped>>,
           hook' \in Hooks \cup {None}, calls' \in 0 .. MaxCalls, calls <= calls', hookFaults' \in 0 .. 1,
           running' \in BOOLEAN, paused' \in BOOLEAN,
           log' \in [Hook!Events -> Hook!Row \cup {None}],
           \A e \in Hook!Events :
               /\ (log'[e] = None) <=> (log[e] = None)
               /\ log[e] # None =>
                    \/ /\ log'[e].resource = log[e].resource /\ log'[e].hint = log[e].hint /\ log'[e].to = log[e].to
                       /\ log'[e].superseded = log[e].superseded
                       /\ log'[e].attempts = log[e].attempts /\ log'[e].round = log[e].round
                       /\ log'[e].state = log[e].state /\ log'[e].lease = log[e].lease
                    \/ /\ log'[e].resource = log[e].resource /\ log'[e].hint = log[e].hint /\ log'[e].to = log[e].to
                       /\ log'[e].superseded => log[e].superseded
                       /\ log'[e].attempts = log[e].attempts /\ log'[e].round = log[e].round
                       /\ log'[e].state = "pending" => log[e].attempts < MaxAttempts
                       /\ log'[e].state \in {"pending", "failed", "cancelled"}
    PROVE  HookInv'
  <1>1. Hook!NewestKept' /\ Hook!Continuous'
    BY SameStory DEF HookInv
  <1>2. HookIds'
    BY DEF HookInv, HookIds, Hook!Events
  <1>3. Hook!TypeOK'
    BY DEF HookInv, Hook!TypeOK
  <1>4. HookRows'
    <2> SUFFICES ASSUME NEW e \in Hook!Events, log'[e] # None
                 PROVE  EventOK(log[e], jobs[e], posts[e], e \in answered)'
      BY DEF HookRows
    <2>1. log[e] # None /\ EventOK(log[e], jobs[e], posts[e], e \in answered) /\ log[e] \in Hook!Row
      BY DEF HookInv, HookRows, HookIds
    <2>2. log[e].round \in Nat /\ calls \in Nat /\ calls' \in Nat
      BY <2>1 DEF Hook!Row, HookInv, Hook!TypeOK
    <2>3. CASE /\ log'[e].attempts = log[e].attempts /\ log'[e].round = log[e].round
               /\ log'[e].state = log[e].state /\ log'[e].lease = log[e].lease
      BY <2>1, <2>2, <2>3 DEF EventOK
    <2>4. CASE /\ log'[e].attempts = log[e].attempts /\ log'[e].round = log[e].round
               /\ log'[e].state = "pending" => log[e].attempts < MaxAttempts
               /\ log'[e].state \in {"pending", "failed", "cancelled"}
      BY <2>1, <2>2, <2>4 DEF EventOK
    <2> QED
      BY <2>1, <2>3, <2>4
  <1> QED
    BY <1>1, <1>2, <1>3, <1>4 DEF HookInv

\* It holds when the program is first started.
LEMMA HookInit ==
    ASSUME Hook!Init, Hook!WebhookConstants
    PROVE  HookInv
  <1>1. \A e \in Hook!Events : log[e] = None /\ jobs[e] = None /\ posts[e] = 0
    BY DEF Hook!Init
  <1>2. Hook!TypeOK
    <2>1. MaxEvents \in Nat /\ MaxCalls \in Nat
      BY DEF Hook!WebhookConstants
    <2>2. hook \in Hooks \cup {None} /\ running \in BOOLEAN /\ paused \in BOOLEAN
      BY DEF Hook!Init
    <2>3. seq \in 0 .. MaxEvents /\ floor \in 0 .. MaxEvents /\ calls \in 0 .. MaxCalls /\ hookFaults \in 0 .. 1
      BY <2>1 DEF Hook!Init
    <2> QED
      BY <1>1, <2>2, <2>3 DEF Hook!TypeOK
  <1>3. HookIds
    BY DEF Hook!Init, HookIds, Hook!Reset
  <1>4. HookRows /\ Hook!NewestKept /\ Hook!Continuous
    BY <1>1 DEF HookRows, Hook!NewestKept, Hook!Newer, Hook!Continuous, Hook!Stored
  <1> QED
    BY <1>2, <1>3, <1>4 DEF HookInv

\* A new event has a number nobody has used.
LEMMA EmitInv ==
    ASSUME Hook!WebhookConstants, HookInv, NEW r \in Resources, NEW hint \in BOOLEAN,
           Hook!developer_emit(r, hint)
    PROVE  HookInv'
  <1>1. /\ open = {} /\ seq' = seq + 1 /\ seq' \in Hook!Events /\ seq \in Nat
        /\ UNCHANGED <<hook, log, floor, jobs, running, paused, reader, hookFaults, calls,
                       answered, posts, skipped>>
    BY DEF Hook!developer_emit, Hook!EventLock, HookInv, Hook!TypeOK, Hook!Events, Hook!WebhookConstants
  <1>2. Hook!TypeOK'
    BY <1>1 DEF HookInv, Hook!TypeOK, Hook!Events
  <1>3. HookIds'
    <2> DEFINE x == [resource |-> r, hint |-> hint, to |-> hook, due |-> TRUE,
                     state |-> IF hook = None THEN "disabled" ELSE "pending",
                     attempts |-> 0, lease |-> <<>>, round |-> 0, superseded |-> FALSE]
    <2>1. x \in Hook!Row
      BY DEF Hook!Row, Hook!Ended, Hook!WebhookConstants, HookInv, Hook!TypeOK
    <2>2. open' = {[id |-> seq', row |-> x]}
      BY <1>1 DEF Hook!developer_emit
    <2>3. x.state \in {"disabled", "pending"} /\ x.attempts = 0 /\ x.round = 0 /\ ~ x.superseded
      OBVIOUS
    <2> HIDE DEF x
    <2>4. ASSUME NEW v \in open'
          PROVE  /\ v = [id |-> seq', row |-> v.row] /\ v.row \in Hook!Row
                 /\ v.row.state \in {"disabled", "pending"} /\ v.row.attempts = 0
                 /\ v.row.round = 0 /\ ~ v.row.superseded
      BY <2>1, <2>2, <2>3
    <2>5. floor \in Nat /\ floor <= seq /\ reader.after \in 0 .. seq
      BY DEF HookInv, HookIds, Hook!TypeOK
    <2>6. \A e \in Hook!Events : e > seq \/ e >= seq' => log[e] = None /\ jobs[e] = None /\ posts[e] = 0
      BY <1>1 DEF HookInv, HookIds, Hook!Events
    <2>7. \A u, v \in open' : u = v
      BY <2>2
    <2> QED
      BY <1>1, <2>4, <2>5, <2>6, <2>7 DEF HookInv, HookIds, Hook!Events
  <1>4. HookRows' /\ Hook!NewestKept' /\ Hook!Continuous'
    BY <1>1 DEF HookInv, HookRows, EventOK, Hook!NewestKept, Hook!Newer, Hook!Continuous, Hook!Stored
  <1> QED
    BY <1>2, <1>3, <1>4 DEF HookInv

\* The event that is committed lies behind every reader and every cut.
LEMMA CommitInv ==
    ASSUME Hook!WebhookConstants, HookInv, Hook!Commit
    PROVE  HookInv'
  <1> PICK v \in open : log' = [log EXCEPT ![v.id] = v.row] /\ open' = open \ {v}
    BY DEF Hook!Commit
  <1>1. UNCHANGED <<hook, seq, floor, jobs, running, paused, reader, hookFaults, calls, answered,
                    posts, skipped>>
    BY DEF Hook!Commit
  <1>2. /\ v.id = seq /\ v.row \in Hook!Row /\ seq \in Hook!Events
        /\ v.row.state \in {"disabled", "pending"} /\ v.row.attempts = 0 /\ v.row.round = 0
        /\ ~ v.row.superseded /\ floor < seq /\ reader.after < seq
        /\ log[seq] = None /\ jobs[seq] = None /\ posts[seq] = 0
    BY DEF HookInv, HookIds
  <1>3. /\ log' \in [Hook!Events -> Hook!Row \cup {None}] /\ log'[seq] = v.row
        /\ \A e \in Hook!Events : e # seq => log'[e] = log[e]
    BY <1>2 DEF HookInv, HookIds
  <1>4. v.row # None
    BY <1>2 DEF Hook!WebhookConstants
  <1>5. open' = {}
    BY DEF HookInv, HookIds
  <1>6. Hook!TypeOK'
    BY <1>1, <1>3 DEF HookInv, Hook!TypeOK
  <1>7. HookIds'
    BY <1>1, <1>3, <1>5 DEF HookInv, HookIds, Hook!Events
  <1>8. HookRows'
    <2> SUFFICES ASSUME NEW e \in Hook!Events, log'[e] # None
                 PROVE  EventOK(log[e], jobs[e], posts[e], e \in answered)'
      BY DEF HookRows
    <2>1. CASE e = seq
      BY <1>1, <1>2, <1>3, <2>1 DEF EventOK, Hook!WebhookConstants, HookInv, Hook!TypeOK
    <2>2. CASE e # seq
      BY <1>1, <1>3, <2>2 DEF HookInv, HookRows, EventOK
    <2> QED
      BY <2>1, <2>2
  <1>9. Hook!NewestKept'
    BY <1>1, <1>2, <1>3, <1>4 DEF HookInv, Hook!NewestKept, Hook!Newer, Hook!Stored
  <1>10. Hook!Continuous'
    BY <1>1, <1>2, <1>3 DEF HookInv, HookIds, Hook!TypeOK, Hook!Continuous, Hook!Stored, Hook!Events
  <1> QED
    BY <1>6, <1>7, <1>8, <1>9, <1>10 DEF HookInv

\* New settings, a restart, a reclaim, the stale ones: rows are closed or reopened, nothing else.
LEMMA ClosingInv ==
    ASSUME Hook!WebhookConstants, HookInv,
           UNCHANGED <<seq, open, floor, jobs, reader, answered, posts, skipped>>,
           hook' \in Hooks \cup {None}, calls' \in 0 .. MaxCalls, calls <= calls',
           hookFaults' \in 0 .. 1, running' \in BOOLEAN, paused' \in BOOLEAN,
           log' = [e \in Hook!Events |-> log'[e]],
           \A e \in Hook!Events :
               /\ log[e] = None => log'[e] = None
               /\ log[e] # None => ClosedOrDue(log[e], log'[e])
    PROVE  HookInv'
  <1>1. \A e \in Hook!Events : log[e] # None => log[e] \in Hook!Row /\ EventOK(log[e], jobs[e], posts[e], e \in answered)
    BY DEF HookInv, HookIds, HookRows
  <1>2. \A r \in Hook!Row : r # None
    BY DEF Hook!WebhookConstants
  <1>3. \A r \in Hook!Row, d \in BOOLEAN :
            LET x == [r EXCEPT !.due = d]
            IN  /\ x \in Hook!Row /\ x.resource = r.resource /\ x.hint = r.hint /\ x.to = r.to /\ x.superseded = r.superseded
                /\ x.attempts = r.attempts /\ x.round = r.round /\ x.state = r.state /\ x.lease = r.lease
    BY DEF Hook!Row
  <1>4. ASSUME NEW e \in Hook!Events, log[e] # None
        PROVE  /\ log'[e] \in Hook!Row
               /\ \/ /\ log'[e].resource = log[e].resource /\ log'[e].hint = log[e].hint /\ log'[e].to = log[e].to
                     /\ log'[e].superseded = log[e].superseded
                     /\ log'[e].attempts = log[e].attempts /\ log'[e].round = log[e].round
                     /\ log'[e].state = log[e].state /\ log'[e].lease = log[e].lease
                  \/ /\ log'[e].resource = log[e].resource /\ log'[e].hint = log[e].hint /\ log'[e].to = log[e].to
                     /\ log'[e].superseded => log[e].superseded
                     /\ log'[e].attempts = log[e].attempts /\ log'[e].round = log[e].round
                     /\ log'[e].state = "pending" => log[e].attempts < MaxAttempts
                     /\ log'[e].state \in {"pending", "failed", "cancelled"}
    <2>1. log[e] \in Hook!Row
      BY <1>1, <1>4
    <2>2. PICK r \in {log[e], Hook!Cancelled(log[e]), Hook!Reopened(log[e])}, d \in BOOLEAN :
              log'[e] = r \/ log'[e] = [r EXCEPT !.due = d]
      BY <1>4 DEF ClosedOrDue
    <2> DEFINE Closed(x) ==
                 /\ x \in Hook!Row /\ x.resource = log[e].resource /\ x.hint = log[e].hint /\ x.to = log[e].to /\ x.superseded = log[e].superseded
                 /\ x.attempts = log[e].attempts /\ x.round = log[e].round
                 /\ \/ x.state = log[e].state /\ x.lease = log[e].lease
                    \/ /\ x.state \in {"pending", "failed", "cancelled"}
                       /\ x.state = "pending" => log[e].attempts < MaxAttempts
    <2>3. Closed(log[e])
      BY <2>1
    <2>4. Closed(Hook!Cancelled(log[e]))
      BY <2>1, ClosedRows
    <2>5. Closed(Hook!Reopened(log[e]))
      BY <2>1, ClosedRows
    <2>6. Closed(r)
      BY <2>2, <2>3, <2>4, <2>5
    <2>7. Closed(log'[e])
      <3>1. CASE log'[e] = r
        BY <2>6, <3>1
      <3>2. CASE log'[e] = [r EXCEPT !.due = d]
        BY <1>3, <2>6, <3>2
      <3> QED
        BY <2>2, <3>1, <3>2
    <2> QED
      BY <2>7
  <1>5. log' \in [Hook!Events -> Hook!Row \cup {None}]
    BY <1>4
  <1>6. \A e \in Hook!Events : (log'[e] = None) <=> (log[e] = None)
    BY <1>2, <1>4
  <1> QED
    BY <1>4, <1>5, <1>6, SameRows

\* A superseded hint leaves a newer one of its resource and receiver behind it.
LEMMA CompactInv ==
    ASSUME Hook!WebhookConstants, HookInv, Hook!compactWebhookStatuses
    PROVE  HookInv'
  <1> DEFINE obsolete == {e \in Hook!Stored : log[e].state = "pending" /\ log[e].hint /\ Hook!Superseded(e)}
             x(e) == [Hook!Cancelled(log[e]) EXCEPT !.superseded = TRUE]
  <1>1. log' = [e \in Hook!Events |-> IF e \in obsolete THEN x(e) ELSE log[e]]
    BY DEF Hook!compactWebhookStatuses
  <1>2. UNCHANGED <<hook, seq, open, floor, jobs, running, paused, reader, hookFaults, calls,
                    answered, posts, skipped>>
    BY DEF Hook!compactWebhookStatuses
  <1>3. ASSUME NEW e \in obsolete
        PROVE  /\ e \in Hook!Events /\ log[e] # None /\ x(e) \in Hook!Row /\ x(e).resource = log[e].resource
               /\ x(e).hint = log[e].hint /\ x(e).to = log[e].to
               /\ x(e).attempts = log[e].attempts /\ x(e).round = log[e].round
               /\ x(e).state = "cancelled"
    <2>1. log[e] \in Hook!Row /\ e \in Hook!Events /\ log[e] # None
      BY DEF HookInv, HookIds, Hook!Stored
    <2>2. /\ Hook!Cancelled(log[e]) \in Hook!Row /\ Hook!Cancelled(log[e]).state = "cancelled"
          /\ Hook!Cancelled(log[e]).resource = log[e].resource
          /\ Hook!Cancelled(log[e]).hint = log[e].hint /\ Hook!Cancelled(log[e]).to = log[e].to
          /\ Hook!Cancelled(log[e]).attempts = log[e].attempts /\ Hook!Cancelled(log[e]).round = log[e].round
      BY <2>1, ClosedRows
    <2>3. \A r \in Hook!Row :
              LET y == [r EXCEPT !.superseded = TRUE]
              IN  /\ y \in Hook!Row /\ y.resource = r.resource /\ y.hint = r.hint /\ y.to = r.to /\ y.attempts = r.attempts
                  /\ y.round = r.round /\ y.state = r.state
      BY DEF Hook!Row
    <2> QED
      BY <2>1, <2>2, <2>3
  <1>4. \A e \in obsolete : log[e].hint /\ \E n \in Hook!Events : log[n] # None /\ Hook!Newer(n, e)
    BY DEF Hook!Superseded, Hook!Stored, Hook!Newer
  <1> HIDE DEF obsolete, x
  <1>5. log' \in [Hook!Events -> Hook!Row \cup {None}]
    BY <1>1, <1>3 DEF HookInv, HookIds
  <1>6. \A r \in Hook!Row : r # None
    BY DEF Hook!WebhookConstants
  <1>7. \A e \in Hook!Events :
            /\ (log'[e] = None) <=> (log[e] = None)
            /\ log[e] # None => log'[e].resource = log[e].resource /\ log'[e].hint = log[e].hint /\ log'[e].to = log[e].to
    BY <1>1, <1>3, <1>6
  <1>8. Hook!TypeOK'
    BY <1>2, <1>5 DEF HookInv, Hook!TypeOK
  <1>9. HookIds'
    BY <1>2, <1>5, <1>7 DEF HookInv, HookIds, Hook!Events
  <1>10. HookRows'
    <2> SUFFICES ASSUME NEW e \in Hook!Events, log'[e] # None
                 PROVE  EventOK(log[e], jobs[e], posts[e], e \in answered)'
      BY DEF HookRows
    <2>1. log[e] # None /\ EventOK(log[e], jobs[e], posts[e], e \in answered) /\ log[e] \in Hook!Row
      BY <1>7 DEF HookInv, HookRows, HookIds
    <2>2. CASE e \in obsolete
      <3>1. /\ log'[e].attempts = log[e].attempts /\ log'[e].round = log[e].round
            /\ log'[e].state = "cancelled"
        BY <1>1, <1>3, <2>2
      <3> QED
        BY <1>2, <2>1, <3>1 DEF EventOK
    <2>3. CASE e \notin obsolete
      BY <1>1, <1>2, <2>1, <2>3 DEF EventOK
    <2> QED
      BY <2>2, <2>3
  <1>11. Hook!NewestKept'
    <2> SUFFICES ASSUME NEW e \in Hook!Events, log'[e] # None, log'[e].superseded
                 PROVE  log'[e].hint /\ \E n \in Hook!Events : log'[n] # None /\ Hook!Newer(n, e)'
      BY DEF Hook!NewestKept, Hook!Newer, Hook!Stored
    <2>1. log[e] # None /\ log'[e].resource = log[e].resource /\ log'[e].hint = log[e].hint /\ log'[e].to = log[e].to
      BY <1>7
    <2>2. CASE e \in obsolete
      BY <1>4, <1>7, <2>1, <2>2 DEF Hook!Newer
    <2>3. CASE e \notin obsolete
      <3>1. log[e].superseded
        BY <1>1, <2>3
      <3>2. log[e].hint /\ \E n \in Hook!Events : log[n] # None /\ Hook!Newer(n, e)
        BY <2>1, <3>1 DEF HookInv, Hook!NewestKept, Hook!Newer, Hook!Stored
      <3> QED
        BY <1>7, <2>1, <3>2 DEF Hook!Newer
    <2> QED
      BY <2>2, <2>3
  <1>12. Hook!Continuous'
    BY <1>2, <1>7 DEF HookInv, Hook!Continuous, Hook!Stored
  <1> QED
    BY <1>8, <1>9, <1>10, <1>11, <1>12 DEF HookInv

\* What replays, claims, posts and saves have in common: one event e and its delivery change,
\* the others, the reader and the cuts are as they were.
LEMMA OneEventInv ==
    ASSUME Hook!WebhookConstants, HookInv, NEW e \in Hook!Events,
           UNCHANGED <<hook, seq, open, floor, reader, skipped>>,
           calls' \in 0 .. MaxCalls, calls <= calls', hookFaults' \in 0 .. 1,
           running' \in BOOLEAN, paused' \in BOOLEAN,
           log[e] # None \/ jobs[e] # None,
           log' \in [Hook!Events -> Hook!Row \cup {None}],
           jobs' \in [Hook!Events -> Hook!Job \cup {None}],
           posts' \in [Hook!Events -> Nat],
           (log'[e] = None) <=> (log[e] = None),
           log[e] # None => /\ log'[e].resource = log[e].resource /\ log'[e].hint = log[e].hint /\ log'[e].to = log[e].to
                            /\ log'[e].superseded => log[e].superseded
                            /\ EventOK(log[e], jobs[e], posts[e], e \in answered)',
           \A f \in Hook!Events : f # e =>
               /\ log'[f] = log[f] /\ jobs'[f] = jobs[f] /\ posts'[f] = posts[f]
               /\ f \in answered' <=> f \in answered
    PROVE  HookInv'
  <1>1. Hook!NewestKept' /\ Hook!Continuous'
    BY SameStory DEF HookInv
  <1>2. Hook!TypeOK'
    BY DEF HookInv, Hook!TypeOK
  <1>3. e <= seq /\ ~ (e = seq /\ open # {})
    BY DEF HookInv, HookIds, Hook!Events, Hook!TypeOK
  <1>4. HookIds'
    BY <1>3 DEF HookInv, HookIds, Hook!Events
  <1>5. HookRows'
    <2> SUFFICES ASSUME NEW f \in Hook!Events, log'[f] # None
                 PROVE  EventOK(log[f], jobs[f], posts[f], f \in answered)'
      BY DEF HookRows
    <2>1. CASE f = e
      BY <2>1
    <2>2. CASE f # e
      <3>1. EventOK(log[f], jobs[f], posts[f], f \in answered) /\ log[f] \in Hook!Row
        BY <2>2 DEF HookInv, HookRows, HookIds
      <3>2. log[f].round \in Nat /\ calls \in Nat /\ calls' \in Nat
        BY <3>1 DEF Hook!Row, HookInv, Hook!TypeOK
      <3> QED
        BY <2>2, <3>1, <3>2 DEF EventOK
    <2> QED
      BY <2>1, <2>2
  <1> QED
    BY <1>1, <1>2, <1>4, <1>5 DEF HookInv

\* What is known of one stored event and its delivery.
LEMMA EventFacts ==
    ASSUME HookInv, Hook!WebhookConstants, NEW e \in Hook!Events, log[e] # None
    PROVE  /\ log[e] \in Hook!Row /\ EventOK(log[e], jobs[e], posts[e], e \in answered)
           /\ log[e].round \in Nat /\ log[e].attempts \in Nat /\ posts[e] \in Nat
           /\ calls \in Nat /\ MaxAttempts \in Nat /\ MaxAttempts > 0 /\ log[e].attempts <= MaxAttempts
           /\ log[e].state \in Hook!Ended \cup {"pending", "sending"} /\ log[e].round <= MaxCalls
  <1>1. log[e] \in Hook!Row /\ EventOK(log[e], jobs[e], posts[e], e \in answered) /\ posts[e] \in Nat
    BY DEF HookInv, HookIds, HookRows
  <1>2. calls \in Nat /\ MaxAttempts \in Nat /\ MaxAttempts > 0 /\ MaxCalls \in Nat
    BY DEF HookInv, Hook!TypeOK, Hook!WebhookConstants
  <1> QED
    BY <1>1, <1>2 DEF Hook!Row

\* A replay begins to count anew, and no lease of before is the row's any more.
LEMMA ReplayInv ==
    ASSUME Hook!WebhookConstants, HookInv, NEW e \in Hook!Events, Hook!replay(e)
    PROVE  HookInv'
  <1> DEFINE r == [log[e] EXCEPT !.state = "pending", !.attempts = 0, !.lease = <<>>, !.due = TRUE,
                                 !.round = @ + 1, !.superseded = FALSE]
  <1>1. /\ log[e] # None /\ calls < MaxCalls /\ calls' = calls + 1
        /\ log' = [log EXCEPT ![e] = r] /\ answered' = answered \ {e} /\ posts' = [posts EXCEPT ![e] = 0]
        /\ UNCHANGED <<hook, seq, open, floor, jobs, running, paused, reader, hookFaults, skipped>>
    BY DEF Hook!replay, Hook!Stored
  <1>2. /\ log[e] \in Hook!Row /\ EventOK(log[e], jobs[e], posts[e], e \in answered)
        /\ log[e].round \in Nat /\ calls \in Nat /\ MaxAttempts \in Nat /\ MaxAttempts > 0 /\ log[e].round <= calls
    BY <1>1, EventFacts DEF EventOK
  <1>3. calls' \in 0 .. MaxCalls
    BY <1>1, <1>2 DEF Hook!WebhookConstants
  <1>4. /\ r \in Hook!Row /\ r.resource = log[e].resource /\ r.hint = log[e].hint /\ r.to = log[e].to /\ ~ r.superseded /\ r.attempts = 0
        /\ r.round = log[e].round + 1 /\ r.state = "pending"
    <2>1. log[e].round + 1 \in 0 .. MaxCalls /\ 0 \in 0 .. MaxAttempts
      BY <1>1, <1>2 DEF Hook!WebhookConstants
    <2>2. \A x \in Hook!Row, m \in 0 .. MaxCalls, a \in 0 .. MaxAttempts :
              LET y == [x EXCEPT !.state = "pending", !.attempts = a, !.lease = <<>>, !.due = TRUE,
                                 !.round = m, !.superseded = FALSE]
              IN  y \in Hook!Row
      BY DEF Hook!Row
    <2>3. r \in Hook!Row
      BY <1>2, <2>1, <2>2
    <2> QED
      BY <1>2, <2>3 DEF Hook!Row
  <1>5. r # None
    BY <1>4 DEF Hook!WebhookConstants
  <1> HIDE DEF r
  <1>6. log \in [Hook!Events -> Hook!Row \cup {None}] /\ posts \in [Hook!Events -> Nat]
        /\ jobs \in [Hook!Events -> Hook!Job \cup {None}]
    BY DEF HookInv, HookIds
  <1>7. /\ log' \in [Hook!Events -> Hook!Row \cup {None}] /\ posts' \in [Hook!Events -> Nat]
        /\ log'[e] = r /\ posts'[e] = 0 /\ \A f \in Hook!Events : f # e => log'[f] = log[f] /\ posts'[f] = posts[f]
    BY <1>1, <1>4, <1>6
  <1>8. jobs[e] # None /\ jobs[e].at \in {"post", "save"} => jobs[e].lease[1] \in Nat
    <2>1. jobs[e] \in Hook!Job \cup {None}
      BY <1>6
    <2> QED
      BY <2>1 DEF Hook!Job, Hook!Lease, Hook!Started, Hook!WebhookConstants
  <1>9. EventOK(log[e], jobs[e], posts[e], e \in answered)'
    BY <1>1, <1>2, <1>4, <1>7, <1>8 DEF EventOK
  <1>10. hookFaults' \in 0 .. 1 /\ running' \in BOOLEAN /\ paused' \in BOOLEAN
    BY <1>1 DEF HookInv, Hook!TypeOK
  <1> QED
    BY <1>1, <1>2, <1>3, <1>4, <1>5, <1>6, <1>7, <1>9, <1>10, OneEventInv

\* A claim writes its lease into the row.
LEMMA ClaimInv ==
    ASSUME Hook!WebhookConstants, HookInv, NEW e \in Hook!Events, Hook!Claim(e)
    PROVE  HookInv'
  <1>1. /\ jobs[e] = Hook!Started
        /\ UNCHANGED <<hook, seq, open, floor, running, paused, reader, hookFaults, calls, answered,
                       posts, skipped>>
    BY DEF Hook!Claim
  <1>2. log \in [Hook!Events -> Hook!Row \cup {None}] /\ posts \in [Hook!Events -> Nat]
        /\ jobs \in [Hook!Events -> Hook!Job \cup {None}] /\ calls \in Nat /\ calls \in 0 .. MaxCalls
        /\ hookFaults \in 0 .. 1 /\ running \in BOOLEAN /\ paused \in BOOLEAN
    BY DEF HookInv, HookIds, Hook!TypeOK
  <1>3. Hook!Started # None
    BY DEF Hook!WebhookConstants, Hook!Job
  <1>4. CASE Hook!Claimable(e)
    <2> DEFINE r == Hook!Claimed(log[e])
               j == [at |-> "post", lease |-> r.lease]
    <2>1. /\ log' = [log EXCEPT ![e] = r] /\ jobs' = [jobs EXCEPT ![e] = j]
          /\ log[e] # None /\ log[e].state = "pending"
      BY <1>4 DEF Hook!Claim, Hook!Claimable, Hook!Stored
    <2>2. /\ log[e] \in Hook!Row /\ EventOK(log[e], jobs[e], posts[e], e \in answered)
          /\ log[e].round \in Nat /\ log[e].attempts \in Nat /\ posts[e] \in Nat /\ MaxAttempts \in Nat
          /\ log[e].attempts < MaxAttempts /\ log[e].round <= MaxCalls /\ log[e].round <= calls
          /\ posts[e] <= log[e].attempts
      BY <2>1, EventFacts DEF EventOK
    <2>3. <<log[e].round, log[e].attempts>> \in Hook!Lease
      BY <2>2 DEF Hook!Lease, Hook!WebhookConstants
    <2>4. /\ r \in Hook!Row /\ r.resource = log[e].resource /\ r.hint = log[e].hint /\ r.to = log[e].to /\ r.superseded = log[e].superseded
          /\ r.attempts = log[e].attempts + 1 /\ r.round = log[e].round /\ r.state = "sending"
          /\ r.lease = <<log[e].round, log[e].attempts>>
      <3>1. log[e].attempts + 1 \in 0 .. MaxAttempts
        BY <2>2
      <3> QED
        BY <2>2, <2>3, <3>1 DEF Hook!Claimed, Hook!Row, Hook!Lease
    <2>5. r # None
      BY <2>4 DEF Hook!WebhookConstants
    <2>6. /\ j \in Hook!Job /\ j # None /\ j.at = "post" /\ j.lease = <<log[e].round, log[e].attempts>>
          /\ j.lease[1] = log[e].round
      BY <2>3, <2>4 DEF Hook!Job, Hook!WebhookConstants
    <2> HIDE DEF r, j
    <2>7. /\ log' \in [Hook!Events -> Hook!Row \cup {None}] /\ jobs' \in [Hook!Events -> Hook!Job \cup {None}]
          /\ log'[e] = r /\ jobs'[e] = j
          /\ \A f \in Hook!Events : f # e => log'[f] = log[f] /\ jobs'[f] = jobs[f]
      BY <1>2, <2>1, <2>4, <2>6
    <2>8. EventOK(log[e], jobs[e], posts[e], e \in answered)'
      BY <1>1, <1>2, <2>2, <2>4, <2>6, <2>7 DEF EventOK
    <2> QED
      BY <1>1, <1>2, <2>1, <2>4, <2>5, <2>7, <2>8, OneEventInv
  <1>5. CASE ~ Hook!Claimable(e)
    <2>1. log' = log /\ jobs' = [jobs EXCEPT ![e] = None]
      BY <1>5 DEF Hook!Claim
    <2>2. /\ jobs' \in [Hook!Events -> Hook!Job \cup {None}] /\ jobs'[e] = None
          /\ \A f \in Hook!Events : f # e => jobs'[f] = jobs[f]
      BY <1>2, <2>1
    <2>3. log[e] # None => EventOK(log[e], jobs[e], posts[e], e \in answered)'
      BY <1>1, <2>1, <2>2, EventFacts DEF EventOK
    <2> QED
      BY <1>1, <1>2, <1>3, <2>1, <2>2, <2>3, OneEventInv
  <1> QED
    BY <1>4, <1>5

\* A job is what its place says it is.
LEMMA JobFacts ==
    ASSUME HookInv, Hook!WebhookConstants, NEW e \in Hook!Events, jobs[e] # None
    PROVE  /\ jobs[e] \in Hook!Job
           /\ jobs[e].at \in {"post", "save"} => jobs[e].lease \in Hook!Lease /\ jobs[e].lease[1] \in Nat
                                                 /\ jobs[e].lease[2] \in Nat
           /\ jobs[e].at = "save" => jobs[e].answer \in {"2xx", "4xx", "429"}
  <1>1. jobs[e] \in Hook!Job
    BY DEF HookInv, HookIds
  <1>2. jobs[e].at \in {"post", "save"} => jobs[e].lease \in Hook!Lease
    BY <1>1 DEF Hook!Job, Hook!Started
  <1>3. \A x \in Hook!Lease : x[1] \in Nat /\ x[2] \in Nat
    BY DEF Hook!Lease, Hook!WebhookConstants
  <1>4. jobs[e].at = "save" => jobs[e].answer \in {"2xx", "4xx", "429"}
    BY <1>1 DEF Hook!Job, Hook!Started
  <1> QED
    BY <1>1, <1>2, <1>3, <1>4

\* The post a lease stands for is made once.
LEMMA PostInv ==
    ASSUME Hook!WebhookConstants, HookInv, NEW e \in Hook!Events, NEW answer \in {"2xx", "4xx", "429"}, Hook!Post(e, answer)
    PROVE  HookInv'
  <1> DEFINE j == [at |-> "save", lease |-> jobs[e].lease, answer |-> answer]
             k == IF log[e] # None /\ log[e].round = jobs[e].lease[1] THEN posts[e] + 1 ELSE posts[e]
  <1>1. /\ jobs[e] # None /\ jobs[e].at = "post" /\ jobs' = [jobs EXCEPT ![e] = j]
        /\ posts' = [posts EXCEPT ![e] = k]
        /\ answered' = IF answer = "2xx" THEN answered \union {e} ELSE answered
        /\ paused' = (paused \/ answer = "429")
        /\ UNCHANGED <<hook, log, seq, open, floor, running, reader, hookFaults, calls, skipped>>
    BY DEF Hook!Post
  <1>2. log \in [Hook!Events -> Hook!Row \cup {None}] /\ posts \in [Hook!Events -> Nat]
        /\ jobs \in [Hook!Events -> Hook!Job \cup {None}] /\ calls \in Nat /\ calls \in 0 .. MaxCalls
        /\ hookFaults \in 0 .. 1 /\ running \in BOOLEAN /\ paused \in BOOLEAN
    BY DEF HookInv, HookIds, Hook!TypeOK
  <1>3. jobs[e].lease \in Hook!Lease /\ jobs[e].lease[1] \in Nat
    BY <1>1, JobFacts
  <1>4. /\ j \in Hook!Job /\ j.at = "save" /\ j.lease = jobs[e].lease /\ j.answer = answer /\ k \in Nat
    BY <1>2, <1>3 DEF Hook!Job
  <1>5. j # None
    BY <1>4 DEF Hook!WebhookConstants
  <1>6. log[e] # None /\ log[e].round = jobs[e].lease[1] => k = posts[e] + 1
    OBVIOUS
  <1>7. ~ (log[e] # None /\ log[e].round = jobs[e].lease[1]) => k = posts[e]
    OBVIOUS
  <1> HIDE DEF j, k
  <1>8. /\ jobs' \in [Hook!Events -> Hook!Job \cup {None}] /\ posts' \in [Hook!Events -> Nat]
        /\ jobs'[e] = j /\ posts'[e] = k
        /\ \A f \in Hook!Events : f # e => /\ jobs'[f] = jobs[f] /\ posts'[f] = posts[f]
                                           /\ f \in answered' <=> f \in answered
    BY <1>1, <1>2, <1>4
  <1>9. e \in answered => e \in answered'
    BY <1>1
  <1>10. answer = "2xx" => e \in answered'
    BY <1>1
  <1>11. ASSUME log[e] # None
         PROVE  EventOK(log[e], jobs[e], posts[e], e \in answered)'
    <2>1. /\ log[e] \in Hook!Row /\ EventOK(log[e], jobs[e], posts[e], e \in answered)
          /\ log[e].attempts \in Nat /\ posts[e] \in Nat
      BY <1>11, EventFacts
    <2>2. k <= log[e].attempts
      BY <1>1, <1>6, <1>7, <1>11, <2>1 DEF EventOK
    <2> QED
      BY <1>1, <1>4, <1>8, <1>9, <1>10, <2>1, <2>2 DEF EventOK
  <1> QED
    BY <1>1, <1>2, <1>8, <1>11, OneEventInv

\* The answer of an old lease is dropped; an answer of the row's own lease ends the attempt.
LEMMA SaveInv ==
    ASSUME Hook!WebhookConstants, HookInv, NEW e \in Hook!Events, Hook!Save(e)
    PROVE  HookInv'
  <1> DEFINE r == [log[e] EXCEPT !.state = Hook!Outcome(jobs[e]), !.lease = <<>>, !.due = FALSE]
  <1>1. /\ jobs[e] # None /\ jobs[e].at = "save" /\ jobs' = [jobs EXCEPT ![e] = None]
        /\ \/ hookFaults' = hookFaults
           \/ hookFaults < 1 /\ hookFaults' = hookFaults + 1
        /\ \/ Hook!OwnLease(e) /\ log' = [log EXCEPT ![e] = r]
           \/ log' = log
        /\ UNCHANGED <<hook, seq, open, floor, running, paused, reader, calls, answered, posts, skipped>>
    BY DEF Hook!Save
  <1>2. log \in [Hook!Events -> Hook!Row \cup {None}] /\ posts \in [Hook!Events -> Nat]
        /\ jobs \in [Hook!Events -> Hook!Job \cup {None}] /\ calls \in Nat /\ calls \in 0 .. MaxCalls
        /\ hookFaults \in 0 .. 1 /\ running \in BOOLEAN /\ paused \in BOOLEAN
    BY DEF HookInv, HookIds, Hook!TypeOK
  <1>3. /\ jobs' \in [Hook!Events -> Hook!Job \cup {None}] /\ jobs'[e] = None
        /\ \A f \in Hook!Events : f # e => jobs'[f] = jobs[f]
    BY <1>1, <1>2
  <1>4. hookFaults' \in 0 .. 1
    BY <1>1, <1>2
  <1>5. CASE log' = log
    <2>1. log[e] # None => EventOK(log[e], jobs[e], posts[e], e \in answered)'
      BY <1>1, <1>3, <1>5, EventFacts DEF EventOK
    <2> QED
      BY <1>1, <1>2, <1>3, <1>4, <1>5, <2>1, OneEventInv
  <1>6. CASE Hook!OwnLease(e) /\ log' = [log EXCEPT ![e] = r]
    <2>1. /\ log[e] # None /\ log[e].state = "sending" /\ log[e].lease = jobs[e].lease
      BY <1>6 DEF Hook!OwnLease
    <2>2. /\ log[e] \in Hook!Row /\ EventOK(log[e], jobs[e], posts[e], e \in answered)
          /\ log[e].attempts \in Nat /\ MaxAttempts \in Nat /\ log[e].attempts <= MaxAttempts
      BY <2>1, EventFacts
    <2>3. /\ log[e].attempts > 0 /\ jobs[e].lease = <<log[e].round, log[e].attempts - 1>>
      BY <2>1, <2>2 DEF EventOK
    <2>4. jobs[e].lease[2] = log[e].attempts - 1
      BY <2>3
    <2>5. /\ Hook!Outcome(jobs[e]) \in {"delivered", "failed", "pending"}
          /\ Hook!Outcome(jobs[e]) = "delivered" => jobs[e].answer = "2xx"
          /\ Hook!Outcome(jobs[e]) = "pending" => ~ (jobs[e].lease[2] + 1 >= MaxAttempts)
      BY DEF Hook!Outcome
    <2>6. Hook!Outcome(jobs[e]) = "pending" => log[e].attempts < MaxAttempts
      BY <2>2, <2>3, <2>4, <2>5
    <2>7. Hook!Outcome(jobs[e]) = "delivered" => e \in answered
      BY <1>1, <2>1, <2>2, <2>5 DEF EventOK
    <2>8. /\ r \in Hook!Row /\ r.resource = log[e].resource /\ r.hint = log[e].hint /\ r.to = log[e].to /\ r.superseded = log[e].superseded
          /\ r.attempts = log[e].attempts /\ r.round = log[e].round /\ r.state = Hook!Outcome(jobs[e])
      BY <2>2, <2>5 DEF Hook!Row, Hook!Ended
    <2>9. r # None
      BY <2>8 DEF Hook!WebhookConstants
    <2> HIDE DEF r
    <2>10. /\ log' \in [Hook!Events -> Hook!Row \cup {None}] /\ log'[e] = r
           /\ \A f \in Hook!Events : f # e => log'[f] = log[f]
      BY <1>2, <1>6, <2>8
    <2>11. EventOK(log[e], jobs[e], posts[e], e \in answered)'
      BY <1>1, <1>3, <2>2, <2>5, <2>6, <2>7, <2>8, <2>10 DEF EventOK
    <2> QED
      BY <1>1, <1>2, <1>3, <1>4, <2>1, <2>8, <2>9, <2>10, <2>11, OneEventInv
  <1> QED
    BY <1>1, <1>5, <1>6

\* A delivery starts with nothing but the event's number.
LEMMA StartInv ==
    ASSUME Hook!WebhookConstants, HookInv, NEW e \in Hook!Events, Hook!Start(e)
    PROVE  HookInv'
  <1>1. /\ log[e] # None /\ jobs' = [jobs EXCEPT ![e] = Hook!Started]
        /\ UNCHANGED <<hook, log, seq, open, floor, running, paused, reader, hookFaults, calls,
                       answered, posts, skipped>>
    BY DEF Hook!Start, Hook!Stored
  <1>2. log \in [Hook!Events -> Hook!Row \cup {None}] /\ posts \in [Hook!Events -> Nat]
        /\ jobs \in [Hook!Events -> Hook!Job \cup {None}] /\ calls \in Nat /\ calls \in 0 .. MaxCalls
        /\ hookFaults \in 0 .. 1 /\ running \in BOOLEAN /\ paused \in BOOLEAN
    BY DEF HookInv, HookIds, Hook!TypeOK
  <1>3. /\ jobs' \in [Hook!Events -> Hook!Job \cup {None}] /\ jobs'[e] = Hook!Started
        /\ \A f \in Hook!Events : f # e => jobs'[f] = jobs[f]
    BY <1>1, <1>2 DEF Hook!Job
  <1>4. EventOK(log[e], jobs[e], posts[e], e \in answered)'
    BY <1>1, <1>3, EventFacts DEF EventOK, Hook!Started
  <1> QED
    BY <1>1, <1>2, <1>3, <1>4, OneEventInv

\* A crash loses the deliveries and leaves the rows.
LEMMA CrashInv ==
    ASSUME Hook!WebhookConstants, HookInv, Hook!Crash
    PROVE  HookInv'
  <1>1. /\ hookFaults < 1 /\ hookFaults' = hookFaults + 1 /\ running' = FALSE /\ paused' = FALSE
        /\ jobs' = [e \in Hook!Events |-> None]
        /\ UNCHANGED <<hook, log, seq, open, floor, reader, calls, answered, posts, skipped>>
    BY DEF Hook!Crash
  <1>2. Hook!TypeOK'
    <2>1. hookFaults' \in 0 .. 1
      BY <1>1 DEF HookInv, Hook!TypeOK
    <2> QED
      BY <1>1, <2>1 DEF HookInv, Hook!TypeOK
  <1>3. HookIds'
    BY <1>1 DEF HookInv, HookIds
  <1>4. HookRows'
    BY <1>1 DEF HookInv, HookRows, EventOK
  <1>5. Hook!NewestKept' /\ Hook!Continuous'
    BY <1>1 DEF HookInv, Hook!NewestKept, Hook!Newer, Hook!Continuous, Hook!Stored
  <1> QED
    BY <1>2, <1>3, <1>4, <1>5 DEF HookInv

\* New settings, the first pass of a worker, and what it cancels and reclaims.
LEMMA ClosingSteps ==
    ASSUME Hook!WebhookConstants, HookInv,
           \/ Hook!saveDeveloper \/ Hook!Initialize \/ Hook!CancelStale
           \/ \E e \in Hook!Events : Hook!Reclaim(e) \/ Hook!DelayEnds(e)
    PROVE  HookInv'
  <1>1. /\ log \in [Hook!Events -> Hook!Row \cup {None}] /\ calls \in Nat /\ calls \in 0 .. MaxCalls
        /\ hookFaults \in 0 .. 1 /\ running \in BOOLEAN /\ paused \in BOOLEAN /\ hook \in Hooks \cup {None}
        /\ MaxCalls \in Nat
    BY DEF HookInv, HookIds, Hook!TypeOK, Hook!WebhookConstants
  <1>2. CASE Hook!saveDeveloper
    <2>1. /\ calls < MaxCalls /\ calls' = calls + 1 /\ hook' \in Hooks \cup {None}
          /\ UNCHANGED <<seq, open, floor, jobs, running, paused, reader, hookFaults, answered, posts, skipped>>
          /\ log' = [e \in Hook!Events |-> IF e \in Hook!Stored /\ log[e].state \in {"pending", "sending"}
                                           THEN Hook!Cancelled(log[e]) ELSE log[e]]
      BY <1>2 DEF Hook!saveDeveloper
    <2>2. \A e \in Hook!Events : log'[e] = log[e] \/ (log[e] # None /\ log'[e] = Hook!Cancelled(log[e]))
      BY <2>1 DEF Hook!Stored
    <2>3. log' = [e \in Hook!Events |-> log'[e]]
      BY <2>1
    <2> QED
      BY <1>1, <2>1, <2>2, <2>3, ClosingInv DEF ClosedOrDue
  <1>3. CASE Hook!Initialize
    <2>1. /\ running' = TRUE
          /\ UNCHANGED <<hook, seq, open, floor, jobs, paused, reader, hookFaults, calls, answered, posts, skipped>>
          /\ log' = [e \in Hook!Events |-> IF e \in Hook!Stored /\ log[e].state = "sending"
                                           THEN Hook!Reopened(log[e]) ELSE log[e]]
      BY <1>3 DEF Hook!Initialize
    <2>2. \A e \in Hook!Events : log'[e] = log[e] \/ (log[e] # None /\ log'[e] = Hook!Reopened(log[e]))
      BY <2>1 DEF Hook!Stored
    <2>3. log' = [e \in Hook!Events |-> log'[e]]
      BY <2>1
    <2> QED
      BY <1>1, <2>1, <2>2, <2>3, ClosingInv DEF ClosedOrDue
  <1>4. CASE Hook!CancelStale
    <2>1. /\ UNCHANGED <<hook, seq, open, floor, jobs, running, paused, reader, hookFaults, calls,
                         answered, posts, skipped>>
          /\ log' = [e \in Hook!Events |-> IF e \in Hook!Stored /\ log[e].state = "pending" /\ log[e].to # hook
                                           THEN Hook!Cancelled(log[e]) ELSE log[e]]
      BY <1>4 DEF Hook!CancelStale
    <2>2. \A e \in Hook!Events : log'[e] = log[e] \/ (log[e] # None /\ log'[e] = Hook!Cancelled(log[e]))
      BY <2>1 DEF Hook!Stored
    <2>3. log' = [e \in Hook!Events |-> log'[e]]
      BY <2>1
    <2> QED
      BY <1>1, <2>1, <2>2, <2>3, ClosingInv DEF ClosedOrDue
  <1>5. ASSUME NEW e \in Hook!Events, Hook!Reclaim(e)
        PROVE  HookInv'
    <2>1. /\ log[e] # None /\ log' = [log EXCEPT ![e] = [Hook!Reopened(log[e]) EXCEPT !.due = TRUE]]
          /\ UNCHANGED <<hook, seq, open, floor, jobs, running, paused, reader, calls, answered, posts, skipped>>
          /\ hookFaults' = hookFaults \/ (hookFaults < 1 /\ hookFaults' = hookFaults + 1)
      BY <1>1, <1>5 DEF Hook!Reclaim, Hook!Stored
    <2>2. hookFaults' \in 0 .. 1
      BY <1>1, <2>1
    <2>3. /\ log'[e] = [Hook!Reopened(log[e]) EXCEPT !.due = TRUE]
          /\ \A f \in Hook!Events : f # e => log'[f] = log[f]
          /\ log' = [f \in Hook!Events |-> log'[f]]
      BY <1>1, <2>1
    <2>4. \A f \in Hook!Events :
             /\ log[f] = None => log'[f] = None
             /\ log[f] # None => ClosedOrDue(log[f], log'[f])
      BY <2>1, <2>3 DEF ClosedOrDue
    <2>5. /\ UNCHANGED <<seq, open, floor, jobs, reader, answered, posts, skipped>>
          /\ hook' \in Hooks \cup {None} /\ calls' \in 0 .. MaxCalls /\ calls <= calls'
          /\ hookFaults' \in 0 .. 1 /\ running' \in BOOLEAN /\ paused' \in BOOLEAN
      BY <1>1, <2>1, <2>2
    <2>6. log' = [f \in Hook!Events |-> log'[f]]
      BY <2>3
    <2> QED
      BY <2>4, <2>5, <2>6, ClosingInv
  <1>6. ASSUME NEW e \in Hook!Events, Hook!DelayEnds(e)
        PROVE  HookInv'
    <2>1. /\ log[e] # None /\ log' = [log EXCEPT ![e] = [log[e] EXCEPT !.due = TRUE]]
          /\ UNCHANGED <<hook, seq, open, floor, jobs, running, paused, reader, hookFaults, calls,
                         answered, posts, skipped>>
      BY <1>1, <1>6 DEF Hook!DelayEnds, Hook!Stored
    <2>3. /\ log'[e] = [log[e] EXCEPT !.due = TRUE]
          /\ \A f \in Hook!Events : f # e => log'[f] = log[f]
          /\ log' = [f \in Hook!Events |-> log'[f]]
      BY <1>1, <2>1
    <2>4. \A f \in Hook!Events :
             /\ log[f] = None => log'[f] = None
             /\ log[f] # None => ClosedOrDue(log[f], log'[f])
      BY <2>1, <2>3 DEF ClosedOrDue
    <2>5. /\ UNCHANGED <<seq, open, floor, jobs, reader, answered, posts, skipped>>
          /\ hook' \in Hooks \cup {None} /\ calls' \in 0 .. MaxCalls /\ calls <= calls'
          /\ hookFaults' \in 0 .. 1 /\ running' \in BOOLEAN /\ paused' \in BOOLEAN
      BY <1>1, <2>1
    <2>6. log' = [f \in Hook!Events |-> log'[f]]
      BY <2>3
    <2> QED
      BY <2>4, <2>5, <2>6, ClosingInv
  <1> QED
    BY <1>2, <1>3, <1>4, <1>5, <1>6

\* A set of event numbers that is not empty has a greatest one.
LEMMA GreatestEvent ==
    ASSUME NEW n \in Nat, NEW S, S \subseteq 0 .. n, S # {}
    PROVE  Hook!Max(S) \in S /\ \A y \in S : Hook!Max(S) >= y
  <1> DEFINE T == {x \in 0 .. n : n - x \in S}
  <1>1. T \subseteq Nat
    OBVIOUS
  <1>2. T # {}
    <2> PICK y \in S : TRUE
      OBVIOUS
    <2>1. y \in 0 .. n /\ n - y \in 0 .. n /\ n - (n - y) = y
      OBVIOUS
    <2>2. n - y \in T
      BY <2>1
    <2> QED
      BY <2>2
  <1>3. PICK t \in T : \A x \in T : ~ (<<x, t>> \in OpToRel(<, Nat))
    <2> HIDE DEF T
    <2> QED
      BY <1>1, <1>2, NatLessThanWellFounded, WFMin
  <1>4. \A x \in T : ~ (x < t)
    BY <1>1, <1>3 DEF OpToRel
  <1>5. n - t \in S /\ t \in 0 .. n
    OBVIOUS
  <1>6. ASSUME NEW y \in S
        PROVE  n - t >= y
    <2>1. y \in 0 .. n /\ n - y \in 0 .. n /\ n - (n - y) = y
      OBVIOUS
    <2>2. n - y \in T
      BY <2>1
    <2>3. ~ (n - y < t)
      BY <1>4, <2>2
    <2> QED
      BY <1>5, <2>1, <2>3
  <1> QED
    BY <1>5, <1>6 DEF Hook!Max

\* The first statement of a reader's page.
LEMMA ListFloorInv ==
    ASSUME Hook!WebhookConstants, HookInv, Hook!ListFloor
    PROVE  HookInv'
  <1>1. /\ calls < MaxCalls /\ calls' = calls + 1
        /\ reader' = IF reader.after > 0 /\ reader.after < floor THEN Hook!Reset
                     ELSE [reader EXCEPT !.at = "rows", !.after = IF @ = 0 THEN floor ELSE @]
        /\ UNCHANGED <<hook, log, seq, open, floor, jobs, running, paused, hookFaults,
                       answered, posts, skipped>>
    BY DEF Hook!ListFloor
  <1>2. /\ reader = [at |-> reader.at, after |-> reader.after, read |-> reader.read]
        /\ reader.after \in 0 .. seq /\ floor \in Nat /\ floor <= seq /\ seq \in Nat /\ calls \in Nat
        /\ MaxCalls \in Nat /\ Hook!Continuous
    BY DEF HookInv, HookIds, Hook!TypeOK, Hook!WebhookConstants
  <1>3. /\ reader' = [at |-> reader'.at, after |-> reader'.after, read |-> reader'.read]
        /\ reader'.at \in {"idle", "rows"}
        /\ \/ reader'.after = 0
           \/ reader'.after = floor
           \/ reader'.after = reader.after /\ reader'.read = reader.read
    <2>1. CASE reader.after > 0 /\ reader.after < floor
      BY <1>1, <2>1 DEF Hook!Reset
    <2>2. CASE ~ (reader.after > 0 /\ reader.after < floor)
      <3> DEFINE n == IF reader.after = 0 THEN floor ELSE reader.after
      <3>1. reader' = [reader EXCEPT !.at = "rows", !.after = n]
        BY <1>1, <1>2, <2>2
      <3>2. n = floor \/ n = reader.after
        OBVIOUS
      <3> HIDE DEF n
      <3>3. reader' = [at |-> "rows", after |-> n, read |-> reader.read]
        BY <1>2, <3>1
      <3> QED
        BY <3>2, <3>3
    <2> QED
      BY <2>1, <2>2
  <1>4. Hook!TypeOK'
    <2>1. calls' \in 0 .. MaxCalls
      BY <1>1, <1>2
    <2> QED
      BY <1>1, <2>1 DEF HookInv, Hook!TypeOK
  <1>5. reader'.after \in 0 .. seq /\ (open # {} => reader'.after < seq)
    BY <1>2, <1>3 DEF HookInv, HookIds
  <1>6. HookIds'
    BY <1>1, <1>3, <1>5 DEF HookInv, HookIds
  <1>7. HookRows'
    <2> SUFFICES ASSUME NEW e \in Hook!Events, log[e] # None
                 PROVE  EventOK(log[e], jobs[e], posts[e], e \in answered)'
      BY <1>1 DEF HookRows
    <2>1. EventOK(log[e], jobs[e], posts[e], e \in answered) /\ log[e].round \in Nat
      BY EventFacts
    <2> QED
      BY <1>1, <1>2, <2>1 DEF EventOK
  <1>8. Hook!NewestKept'
    BY <1>1 DEF HookInv, Hook!NewestKept, Hook!Newer, Hook!Stored
  <1>9. Hook!Continuous'
    BY <1>1, <1>2, <1>3 DEF Hook!Continuous, Hook!Stored, Hook!Events
  <1> QED
    BY <1>4, <1>6, <1>7, <1>8, <1>9 DEF HookInv

\* The second: every row behind the cursor that is stored is given to the reader.
LEMMA ListRowsInv ==
    ASSUME Hook!WebhookConstants, HookInv, Hook!ListRows
    PROVE  HookInv'
  <1> DEFINE new == {e \in Hook!Stored : e > reader.after}
             n == Hook!Max({reader.after} \union new)
  <1>1. /\ reader' = [at |-> "idle", after |-> n, read |-> reader.read \union new]
        /\ UNCHANGED <<hook, log, seq, open, floor, jobs, running, paused, hookFaults, calls,
                       answered, posts, skipped>>
    BY DEF Hook!ListRows
  <1>2. /\ reader.after \in 0 .. seq /\ seq \in Nat /\ Hook!Continuous
        /\ open # {} => reader.after < seq
    BY DEF HookInv, HookIds, Hook!TypeOK
  <1>3. \A e \in new : e \in 0 .. seq /\ (open # {} => e < seq)
    BY DEF HookInv, HookIds, Hook!Stored, Hook!Events, Hook!TypeOK
  <1>4. \A e \in Hook!Stored : e \in Hook!Events /\ (e > reader.after => e \in new)
    BY DEF Hook!Stored
  <1>5. n \in {reader.after} \union new
    <2>1. ({reader.after} \union new) \subseteq 0 .. seq
      BY <1>2, <1>3
    <2> QED
      BY <1>2, <2>1, GreatestEvent
  <1> HIDE DEF new, n
  <1>6. n \in 0 .. seq /\ (open # {} => n < seq)
    BY <1>2, <1>3, <1>5
  <1>7. Hook!TypeOK'
    BY <1>1 DEF HookInv, Hook!TypeOK
  <1>8. HookIds'
    BY <1>1, <1>6 DEF HookInv, HookIds
  <1>9. HookRows' /\ Hook!NewestKept'
    BY <1>1 DEF HookInv, HookRows, EventOK, Hook!NewestKept, Hook!Newer, Hook!Stored
  <1>10. Hook!Continuous'
    <2> SUFFICES ASSUME ~ skipped, NEW e \in Hook!Stored, e =< n, e > floor
                 PROVE  e \in reader.read \union new
      BY <1>1 DEF Hook!Continuous, Hook!Stored
    <2>1. CASE e =< reader.after
      BY <1>2, <2>1 DEF Hook!Continuous
    <2>2. CASE ~ (e =< reader.after)
      BY <1>2, <1>4, <2>2 DEF Hook!Events
    <2> QED
      BY <2>1, <2>2
  <1> QED
    BY <1>7, <1>8, <1>9, <1>10 DEF HookInv

\* Retention cuts at its floor: what it removes lies at or before it.
LEMMA CleanInv ==
    ASSUME Hook!WebhookConstants, HookInv, NEW last \in Hook!Events, Hook!cleanDeveloperEvents(last)
    PROVE  HookInv'
  <1>1. /\ log[last] # None
        /\ log' = [e \in Hook!Events |-> IF e =< last THEN None ELSE log[e]]
        /\ floor' = Hook!Max({floor, last})
        /\ skipped' = (skipped \/ (reader.at = "rows" /\ reader.after < last))
        /\ UNCHANGED <<hook, seq, open, jobs, running, paused, reader, hookFaults, calls, answered, posts>>
    BY DEF Hook!cleanDeveloperEvents, Hook!Stored
  <1>2. /\ seq \in Nat /\ floor \in Nat /\ floor <= seq /\ last \in Nat /\ last <= seq
        /\ open # {} => last < seq /\ floor < seq
        /\ seq \in 0 .. MaxEvents /\ MaxEvents \in Nat
    BY <1>1 DEF HookInv, HookIds, Hook!TypeOK, Hook!Events, Hook!WebhookConstants
  <1>3. floor' \in {floor, last} /\ floor' >= floor /\ floor' >= last
    <2>1. {floor, last} \subseteq 0 .. seq
      BY <1>2
    <2> QED
      BY <1>1, <1>2, <2>1, GreatestEvent
  <1>4. floor' \in Nat /\ floor' <= seq /\ floor' \in 0 .. MaxEvents /\ (open # {} => floor' < seq)
    BY <1>2, <1>3
  <1>5. \A e \in Hook!Events : log'[e] # None => ~ (e =< last) /\ log'[e] = log[e] /\ log[e] # None
    BY <1>1
  <1>6. log' \in [Hook!Events -> Hook!Row \cup {None}]
    BY <1>1 DEF HookInv, HookIds
  <1>7. Hook!TypeOK'
    BY <1>1, <1>4, <1>6 DEF HookInv, Hook!TypeOK
  <1>8. HookIds'
    BY <1>1, <1>4, <1>5, <1>6 DEF HookInv, HookIds
  <1>9. HookRows'
    BY <1>1, <1>5 DEF HookInv, HookRows, EventOK
  <1>10. Hook!NewestKept'
    <2> SUFFICES ASSUME NEW e \in Hook!Events, log'[e] # None, log'[e].superseded
                 PROVE  log'[e].hint /\ \E n \in Hook!Events : log'[n] # None /\ Hook!Newer(n, e)'
      BY DEF Hook!NewestKept, Hook!Newer, Hook!Stored
    <2>1. log'[e] = log[e] /\ log[e] # None /\ ~ (e =< last)
      BY <1>5
    <2>2. /\ log[e].hint
          /\ \E n \in Hook!Events : log[n] # None /\ Hook!Newer(n, e)
      BY <2>1 DEF HookInv, Hook!NewestKept, Hook!Newer, Hook!Stored
    <2>3. PICK n \in Hook!Events : log[n] # None /\ Hook!Newer(n, e)
      BY <2>2
    <2>4. ~ (n =< last)
      BY <1>2, <2>1, <2>3 DEF Hook!Events, Hook!Newer
    <2>5. log'[n] = log[n]
      BY <1>1, <2>4
    <2> QED
      BY <2>1, <2>2, <2>3, <2>5 DEF Hook!Newer
  <1>11. Hook!Continuous'
    <2> SUFFICES ASSUME ~ skipped, NEW e \in Hook!Events, log'[e] # None, e =< reader.after, e > floor'
                 PROVE  e \in reader.read
      BY <1>1 DEF Hook!Continuous, Hook!Stored
    <2>1. e > floor
      BY <1>2, <1>3, <1>4 DEF Hook!Events
    <2> QED
      BY <1>5, <2>1 DEF HookInv, Hook!Continuous, Hook!Stored
  <1> QED
    BY <1>7, <1>8, <1>9, <1>10, <1>11 DEF HookInv

\* A step of the other part, or none.
LEMMA HookStutter ==
    ASSUME HookInv, UNCHANGED varsHook
    PROVE  HookInv'
  BY DEF HookInv, Hook!TypeOK, HookIds, HookRows, EventOK, Hook!NewestKept, Hook!Newer, Hook!Continuous,
         Hook!Stored, varsHook

\* Every step of the event log and of its delivery.
LEMMA HookStep ==
    ASSUME Hook!WebhookConstants, HookInv, Hook!Next
    PROVE  HookInv'
  <1>1. ASSUME NEW r \in Resources, NEW hint \in BOOLEAN, Hook!developer_emit(r, hint)
        PROVE  HookInv'
    BY <1>1, EmitInv
  <1>2. ASSUME Hook!Commit \/ Hook!Crash \/ Hook!compactWebhookStatuses \/ Hook!ListFloor \/ Hook!ListRows
        PROVE  HookInv'
    BY <1>2, CommitInv, CrashInv, CompactInv, ListFloorInv, ListRowsInv
  <1>3. ASSUME \/ Hook!saveDeveloper \/ Hook!Initialize \/ Hook!CancelStale
               \/ \E e \in Hook!Events : Hook!Reclaim(e) \/ Hook!DelayEnds(e)
        PROVE  HookInv'
    BY <1>3, ClosingSteps
  <1>4. CASE Hook!PauseEnds
    BY <1>4, SameStory DEF Hook!PauseEnds, HookInv, Hook!TypeOK, HookIds, HookRows, EventOK
  <1>5. ASSUME NEW e \in Hook!Events,
               \/ Hook!replay(e) \/ Hook!Start(e) \/ Hook!Claim(e) \/ Hook!Save(e)
               \/ Hook!cleanDeveloperEvents(e)
               \/ \E answer \in {"2xx", "4xx", "429"} : Hook!Post(e, answer)
        PROVE  HookInv'
    BY <1>5, ReplayInv, StartInv, ClaimInv, SaveInv, CleanInv, PostInv
  <1> QED
    BY <1>1, <1>2, <1>3, <1>4, <1>5 DEF Hook!Next, Hook!deliverWebhook

\* The rows, the leases, the cuts and the readers of the event log keep the invariant, whatever
\* is emitted, posted, lost, replayed, read or removed.
THEOREM WebhookInvariant == Behaviour => []HookInv
  <1>1. InitAll => HookInv
    BY HookInit, HookBounds DEF InitAll
  <1>2. HookInv /\ [NextAll]_all => HookInv'
    BY HookStep, HookStutter, HookBounds DEF NextAll, all
  <1> QED
    BY <1>1, <1>2, PTL DEF Behaviour

\* An event is called delivered only if its receiver has accepted it and is posted at most as often
\* as its attempts say; only a status hint is superseded, by a newer one of its resource still in
\* the log for its receiver; and a reader's cursor passes no event of the log the reader was not
\* given, unless retention has run between the two statements of a page
\* (webhook.go, webhook_queue.go, webhook_api.go, retention.go).
THEOREM WebhookSound == Behaviour => []HookSound
  <1>1. HookInv => HookSound
    <2> SUFFICES ASSUME HookInv
                 PROVE  Hook!HonestDelivery
      BY DEF HookInv, HookSound
    <2>1. \A e \in Hook!Stored : /\ log[e].state = "delivered" => e \in answered
                                 /\ posts[e] =< log[e].attempts
      BY DEF HookInv, HookRows, EventOK, Hook!Stored
    <2> QED
      BY <2>1 DEF HookInv, Hook!HonestDelivery
  <1> QED
    BY <1>1, WebhookInvariant, PTL
=============================================================================
