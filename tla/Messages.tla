------------------------------ MODULE Messages ------------------------------
(***************************************************************************)
(* The life of the stored messages of one communication module: outgoing   *)
(* SMS and MMS and the incoming MMS that have to be downloaded.            *)
(*                                                                         *)
(*   row       the messages table (the columns the control depends on)     *)
(*   job       the module's processMessage goroutine ("worker"; the group  *)
(*             of messages_scheduler.go keeps it to one per module) and    *)
(*             the replay loop of runMessages ("replay")                   *)
(*   memory    Journal.pending; file and stable are the record's file, as  *)
(*             it reads now and as it would read after a power loss        *)
(*   net       what the carrier really got, which the program cannot read  *)
(*                                                                         *)
(* Every step that touches the database or the disk may fail, a failed     *)
(* UPDATE may have been committed, and the process may stop between any    *)
(* two steps; the number of such faults is bounded by MaxFaults.           *)
(***************************************************************************)
EXTENDS Integers

CONSTANTS
    Msgs,
    None,
    MaxFaults   \* bound: failed or ambiguous operations and restarts

MaxDownloads == 3       \* mmsDownloadFailure: attempts < 3

VARIABLES row, aged, job, phase, memory, file, stable, net, faults

Out == {m \in Msgs : row[m].mine}      \* outgoing messages
In == Msgs \ Out                       \* incoming MMS notifications (ids that start with rx-)

journal == <<memory, file, stable>>
vars == <<row, aged, job, phase, memory, file, stable, net, faults>>

Waiting == {"queued", "download_pending", "waiting_network"}
Claimed == {"sending", "downloading"}
\* "none" is the empty error column.
Issues == {"none", "SEND_INTERRUPTED", "RESULT_TIMEOUT", "MESSAGE_EXPIRED", "LOCATION", "OTHER"}
Outcomes == [state : {"waiting_network", "expired", "cancelled", "failed", "unknown", "accepted", "partial", "received"},
             issue : Issues \ {"SEND_INTERRUPTED", "RESULT_TIMEOUT"},
             result : BOOLEAN, attempts : 0 .. MaxDownloads]
Rows == [state : Waiting \cup Claimed \cup {"expired", "cancelled", "failed", "unknown",
                    "accepted", "partial", "delivered", "received"},
         issue : Issues, mine : BOOLEAN, deleted : BOOLEAN, stale : BOOLEAN,
         result : BOOLEAN, attempts : 0 .. MaxDownloads]
Outcome(s, i) == [state |-> s, issue |-> i, result |-> FALSE, attempts |-> 0]
Idle == [pc |-> "idle", id |-> None, seen |-> None, out |-> None]

ASSUME MessagesConstants == MaxFaults \in Nat /\ None \notin Msgs \cup Outcomes

TypeOK ==
    /\ row \in [Msgs -> Rows]
    /\ aged \subseteq Msgs
    /\ phase \in {"prepare", "recover", "interrupt", "resume", "run"}
    /\ memory \in [Msgs -> Outcomes \cup {None}]
    /\ file \in [Msgs -> Outcomes \cup {None}]
    /\ stable \in [Msgs -> Outcomes \cup {None}]
    /\ net \in [Msgs -> [sent : Nat, taken : {"nothing", "all", "some", "refused"}, acked : BOOLEAN]]
    /\ job.worker.pc \in {"idle", "selected", "eligible", "claimed", "submitted", "record", "save", "apply", "remove", "ack"}
    /\ job.replay.pc \in {"idle", "apply", "remove"}
    /\ faults \in 0 .. MaxFaults

\* Rows as enqueueMessage and storeIncoming insert them.
Init ==
    /\ \E mine \in [Msgs -> BOOLEAN] :
        row = [m \in Msgs |-> [state |-> IF mine[m] THEN "queued" ELSE "download_pending", issue |-> "none", mine |-> mine[m],
                               deleted |-> FALSE, stale |-> FALSE, result |-> FALSE, attempts |-> 0]]
    /\ aged = {}
    /\ job = [worker |-> Idle, replay |-> Idle]
    /\ phase = "prepare"
    /\ memory = [m \in Msgs |-> None]
    /\ file = [m \in Msgs |-> None]
    /\ stable = [m \in Msgs |-> None]
    /\ net = [m \in Msgs |-> [sent |-> 0, taken |-> "nothing", acked |-> FALSE]]
    /\ faults = MaxFaults

Fault == faults > 0 /\ faults' = faults - 1
Set(p, step) == job' = [job EXCEPT ![p] = step]
Stop(p) == Set(p, Idle)
Goto(p, pc) == job' = [job EXCEPT ![p].pc = pc]

-----------------------------------------------------------------------------
(* Other writers of the table.                                             *)

\* DELETE /messages/{id}
Delete(m) ==
    /\ ~ row[m].deleted
    /\ row' = [row EXCEPT ![m].deleted = TRUE,
                          ![m].state = IF @ \in {"queued", "waiting_network"} THEN "cancelled" ELSE @]
    /\ UNCHANGED <<aged, job, phase, journal, net, faults>>

\* The SIM of the module changed: its card_epoch no longer is the message's.
CardChanged ==
    /\ \E m \in Msgs : ~ row[m].stale
    /\ row' = [m \in Msgs |-> [row[m] EXCEPT !.stale = TRUE]]
    /\ UNCHANGED <<aged, job, phase, journal, net, faults>>

\* Time: expires_at, or a day since created_at, has passed.
Age(m) ==
    /\ m \notin aged
    /\ aged' = aged \cup {m}
    /\ UNCHANGED <<row, job, phase, journal, net, faults>>

\* expireMessageResults, from the receipt poller; half an hour or the deadline has passed.
Expire(m) ==
    /\ phase = "run" /\ m \in Out /\ ~ row[m].deleted
    /\ \/ /\ row[m].state \in {"sending", "unknown"}
          /\ row' = [row EXCEPT ![m].state = "failed", ![m].issue = "RESULT_TIMEOUT"]
       \/ /\ row[m].state \in {"queued", "waiting_network"} /\ m \in aged
          /\ row' = [row EXCEPT ![m].state = "failed", ![m].issue = "MESSAGE_EXPIRED"]
    /\ UNCHANGED <<aged, job, phase, journal, net, faults>>

\* applySMSReports and applyMMSReports: a report matches what the stored result says was sent.
AwaitsReport(m) ==
    /\ m \in Out /\ row[m].result
    /\ \/ row[m].state \in {"accepted", "partial", "unknown"}
       \/ row[m].state = "failed" /\ row[m].issue = "RESULT_TIMEOUT"

Report(m) ==
    /\ phase = "run" /\ AwaitsReport(m) /\ net[m].taken \in {"all", "some"}
    /\ \/ /\ row[m].state # "partial" /\ net[m].taken = "all"
          /\ row' = [row EXCEPT ![m].state = "delivered", ![m].issue = "none"]
       \/ row' = [row EXCEPT ![m].state = "failed", ![m].issue = "OTHER"]
    /\ UNCHANGED <<aged, job, phase, journal, net, faults>>

-----------------------------------------------------------------------------
(* processMessage                                                          *)

\* The SELECT: the state and the card's epoch are read together.
Select(m) ==
    /\ phase = "run" /\ job.worker.pc = "idle"
    /\ ~ row[m].deleted /\ row[m].state \in Waiting
    /\ Set("worker", [pc |-> "selected", id |-> m, seen |-> row[m], out |-> None])
    /\ UNCHANGED <<row, aged, phase, journal, net, faults>>

Pending(m) == memory[m] # None \/ file[m] # None

\* messageResults.Pending
CheckPendingNever(m) ==
    /\ job.worker.pc = "selected" /\ job.worker.id = m
    /\ Goto("worker", "eligible")
    /\ UNCHANGED <<row, aged, phase, journal, net, faults>>

CheckPending(m) ==
    /\ job.worker.pc = "selected" /\ job.worker.id = m
    /\ IF Pending(m) THEN Stop("worker") ELSE Goto("worker", "eligible")
    /\ UNCHANGED <<row, aged, phase, journal, net, faults>>

\* The outcomes decided before the claim: expiry, then the card, then the network.
Refusals(m, seen) ==
    IF m \in aged THEN {Outcome(IF m \in In THEN "expired" ELSE "failed", "MESSAGE_EXPIRED")}
    ELSE IF seen.stale THEN {Outcome("cancelled", "OTHER")}
    ELSE {Outcome("waiting_network", "OTHER")}

Finish(out) == job' = [job EXCEPT !.worker.pc = "record", !.worker.out = out]

Refuse(m) ==
    /\ job.worker.pc = "eligible" /\ job.worker.id = m
    /\ \E out \in Refusals(m, job.worker.seen) : Finish(out)
    /\ UNCHANGED <<row, aged, phase, journal, net, faults>>

\* reserveModuleWork refuses: the message is left as it is.
NoReservation(m) ==
    /\ job.worker.pc = "eligible" /\ job.worker.id = m
    /\ ~ job.worker.seen.stale /\ m \notin aged
    /\ Stop("worker")
    /\ UNCHANGED <<row, aged, phase, journal, net, faults>>

Claimable(m, seen) == row[m].state = seen.state /\ ~ row[m].deleted /\ ~ row[m].stale
Claim(m) == [row EXCEPT ![m].state = IF m \in In THEN "downloading" ELSE "sending", ![m].issue = "none"]

\* The compare-and-set, its miss, and its failure with or without a commit.
TakeClaim(m) ==
    /\ job.worker.pc = "eligible" /\ job.worker.id = m
    /\ ~ job.worker.seen.stale /\ m \notin aged
    /\ \/ /\ Claimable(m, job.worker.seen)
          /\ row' = Claim(m) /\ Goto("worker", "claimed") /\ UNCHANGED faults
       \/ /\ ~ Claimable(m, job.worker.seen)
          /\ Stop("worker") /\ UNCHANGED <<row, faults>>
       \/ /\ Fault /\ Stop("worker")
          /\ \/ row' = row
             \/ Claimable(m, job.worker.seen) /\ row' = Claim(m)
    /\ UNCHANGED <<aged, phase, journal, net>>

\* mmsDownloadFailure, which counts the errors that are not a missing network, and
\* the outcomes given before the download begins, which count nothing.
Counted(n) == IF n < MaxDownloads THEN n + 1 ELSE n

DownloadFailures(n) ==
    LET Ends(s, i, k) == [Outcome(s, i) EXCEPT !.attempts = k] IN
    {Ends("waiting_network", "OTHER", n), Ends("failed", "OTHER", n),
     Ends("failed", "OTHER", Counted(n)), Ends("failed", "LOCATION", Counted(n))}
    \cup {Ends("waiting_network", "OTHER", k) : k \in {n + 1} \cap (0 .. MaxDownloads - 1)}

\* What the transports answer when they are certain, or must assume, that nothing left.
Unsent == {Outcome("waiting_network", "OTHER"), Outcome("failed", "OTHER"), Outcome("unknown", "OTHER")}

NotSent(m) ==
    /\ job.worker.pc = "claimed" /\ job.worker.id = m
    /\ \E out \in IF m \in In THEN DownloadFailures(job.worker.seen.attempts) ELSE Unsent : Finish(out)
    /\ UNCHANGED <<row, aged, phase, journal, net, faults>>

\* The TPDU or the HTTP request is written: from here on the carrier may have it.
Submit(m, taken) ==
    /\ m \in Out
    /\ job.worker.pc = "claimed" /\ job.worker.id = m
    /\ Goto("worker", "submitted")
    /\ net' = [net EXCEPT ![m].sent = @ + 1, ![m].taken = taken]
    /\ UNCHANGED <<row, aged, phase, journal, faults>>

\* The state processMessage derives from the answers; an answer may be lost.
Reported(taken) ==
    LET Result(s, i) == [Outcome(s, i) EXCEPT !.result = TRUE] IN
    {Result("unknown", "OTHER"), Outcome("unknown", "OTHER")} \cup
    CASE taken = "all"     -> {Result("accepted", "none"), Result("partial", "OTHER")}
      [] taken = "some"    -> {Result("partial", "OTHER")}
      [] taken = "refused" -> {Result("failed", "OTHER")}

Answer(m) ==
    /\ job.worker.pc = "submitted" /\ job.worker.id = m
    /\ \E out \in Reported(net[m].taken) : Finish(out)
    /\ UNCHANGED <<row, aged, phase, journal, net, faults>>

\* The content arrived and the transport calls persist.
Retrieve(m) ==
    /\ m \in In
    /\ job.worker.pc = "claimed" /\ job.worker.id = m
    /\ Finish([Outcome("received", "none") EXCEPT !.attempts = job.worker.seen.attempts])
    /\ UNCHANGED <<row, aged, phase, journal, net, faults>>

\* M-NotifyResp.ind, sent when persist returned no error.
Acknowledge(m) ==
    /\ job.worker.pc = "ack" /\ job.worker.id = m
    /\ net' = [net EXCEPT ![m].acked = TRUE]
    /\ Stop("worker")
    /\ UNCHANGED <<row, aged, phase, journal, faults>>

-----------------------------------------------------------------------------
(* Journal.Apply by the worker, Journal.replayOne by the replay loop.      *)

\* The key's lock is held from "save" or "apply" to the end of "remove".
Holds(p, m) == job[p].id = m /\ job[p].pc \in {"save", "apply", "remove"}

Record(m) ==
    /\ job.worker.pc = "record" /\ job.worker.id = m /\ ~ Holds("replay", m)
    /\ memory' = [memory EXCEPT ![m] = job.worker.out]
    /\ Goto("worker", "save")
    /\ UNCHANGED <<row, aged, phase, file, stable, net, faults>>

\* A temporary file is renamed and the directory synced; an error is remembered, not fatal.
Save(m) ==
    /\ job.worker.pc = "save" /\ job.worker.id = m
    /\ Goto("worker", "apply")
    /\ \/ /\ file' = [file EXCEPT ![m] = job.worker.out]
          /\ stable' = [stable EXCEPT ![m] = job.worker.out]
          /\ UNCHANGED faults
       \/ /\ Fault /\ UNCHANGED stable
          /\ file' = file \/ file' = [file EXCEPT ![m] = job.worker.out]
    /\ UNCHANGED <<row, aged, phase, memory, net>>

ReplayBegin(m) ==
    /\ phase \in {"recover", "run"} /\ job.replay.pc = "idle"
    /\ Pending(m) /\ ~ Holds("worker", m)
    /\ Set("replay", [Idle EXCEPT !.pc = "apply", !.id = m,
                                  !.out = IF memory[m] # None THEN memory[m] ELSE file[m]])
    /\ UNCHANGED <<row, aged, phase, journal, net, faults>>

\* The WHERE clause of applyMessageOutcome.
AcceptsAlways(m, out) == ~ row[m].deleted
Accepts(m, out) ==
    /\ ~ row[m].deleted
    /\ \/ row[m].state \in Waiting \cup Claimed
       \/ row[m].state = "unknown" /\ row[m].issue = "SEND_INTERRUPTED"
       \/ row[m].state = "failed" /\ row[m].issue = "RESULT_TIMEOUT"
          /\ out.state \in {"accepted", "partial", "failed"}

Applied(m, out) ==
    IF Accepts(m, out)
    THEN [row EXCEPT ![m].state = out.state, ![m].issue = out.issue,
                     ![m].result = @ \/ out.result,
                     ![m].attempts = IF m \in In THEN out.attempts ELSE @]
    ELSE row

\* A replay that fails while the program prepares starts the preparation again.
GiveUp(p) ==
    /\ Stop(p)
    /\ phase' = IF phase = "recover" THEN "prepare" ELSE phase

ApplyOutcome(p, m) ==
    /\ job[p].pc = "apply" /\ job[p].id = m
    /\ \/ /\ row' = Applied(m, job[p].out)
          /\ Goto(p, "remove") /\ UNCHANGED <<phase, faults>>
       \/ /\ Fault /\ GiveUp(p)
          /\ row' = row \/ row' = Applied(m, job[p].out)
    /\ UNCHANGED <<aged, journal, net>>

\* Only content that was stored without an error is acknowledged.
Done(p) ==
    IF p = "worker" /\ job.worker.out.state = "received" THEN Goto(p, "ack") ELSE Stop(p)

\* The memory record is the last thing to go, after the removal is synced.
RemoveMemoryFirst(p, m) ==
    /\ job[p].pc = "remove" /\ job[p].id = m
    /\ memory' = [memory EXCEPT ![m] = None]
    /\ \/ /\ file' = [file EXCEPT ![m] = None]
          /\ stable' = [stable EXCEPT ![m] = None]
          /\ Done(p) /\ UNCHANGED <<phase, faults>>
       \/ /\ Fault /\ GiveUp(p)
          /\ file' = file \/ file' = [file EXCEPT ![m] = None]
          /\ UNCHANGED stable
    /\ UNCHANGED <<row, aged, net>>

Remove(p, m) ==
    /\ job[p].pc = "remove" /\ job[p].id = m
    /\ \/ /\ file' = [file EXCEPT ![m] = None]
          /\ stable' = [stable EXCEPT ![m] = None]
          /\ memory' = [memory EXCEPT ![m] = None]
          /\ Done(p) /\ UNCHANGED <<phase, faults>>
       \/ /\ Fault /\ GiveUp(p)
          /\ file' = file \/ file' = [file EXCEPT ![m] = None]
          /\ UNCHANGED <<memory, stable>>
    /\ UNCHANGED <<row, aged, net>>

-----------------------------------------------------------------------------
(* Starting: prepareMessages.                                              *)

\* Prepare probes the journal's directory and syncs it.
Prepare ==
    /\ phase = "prepare"
    /\ stable' = file
    /\ phase' = "recover"
    /\ UNCHANGED <<row, aged, job, memory, file, net, faults>>

\* Replay returned nil: no record is left.
Recovered ==
    /\ phase = "recover" /\ job.replay.pc = "idle"
    /\ \A m \in Msgs : ~ Pending(m)
    /\ phase' = "interrupt"
    /\ UNCHANGED <<row, aged, job, journal, net, faults>>

InterruptSends ==
    /\ phase = "interrupt"
    /\ \/ /\ row' = [m \in Msgs |-> IF m \in Out /\ row[m].state = "sending"
                        THEN [row[m] EXCEPT !.state = "unknown", !.issue = "SEND_INTERRUPTED"] ELSE row[m]]
          /\ phase' = "resume" /\ UNCHANGED faults
       \/ Fault /\ phase' = "prepare" /\ UNCHANGED row
    /\ UNCHANGED <<aged, job, journal, net>>

Resumable(m) ==
    /\ m \in In \ aged /\ ~ row[m].deleted
    /\ \/ row[m].state = "downloading"
       \/ row[m].state = "failed" /\ row[m].issue = "LOCATION"

resumeMMSDownloads ==
    /\ phase = "resume"
    /\ \/ /\ row' = [m \in Msgs |-> IF Resumable(m)
                        THEN [row[m] EXCEPT !.state = "download_pending", !.issue = "none"] ELSE row[m]]
          /\ phase' = "run" /\ UNCHANGED faults
       \/ Fault /\ phase' = "prepare" /\ UNCHANGED row
    /\ UNCHANGED <<aged, job, journal, net>>

\* The process or the machine stops: each unsynced file change is kept or lost.
Crash ==
    /\ Fault
    /\ phase' = "prepare"
    /\ job' = [worker |-> Idle, replay |-> Idle]
    /\ memory' = [m \in Msgs |-> None]
    /\ \E kept \in SUBSET {m \in Msgs : file[m] # stable[m]} :
        file' = [m \in Msgs |-> IF m \in kept THEN file[m] ELSE stable[m]]
    /\ stable' = file'
    /\ UNCHANGED <<row, aged, net>>

-----------------------------------------------------------------------------
WorkerStep(m) ==
    \/ CheckPending(m) \/ Refuse(m) \/ NoReservation(m) \/ TakeClaim(m)
    \/ NotSent(m) \/ Answer(m) \/ Retrieve(m) \/ Acknowledge(m) \/ Record(m) \/ Save(m)
    \/ \E taken \in {"all", "some", "refused"} : Submit(m, taken)
    \/ ApplyOutcome("worker", m) \/ Remove("worker", m)

ReplayStep(m) == ReplayBegin(m) \/ ApplyOutcome("replay", m) \/ Remove("replay", m)

PrepareStep == Prepare \/ Recovered \/ InterruptSends \/ resumeMMSDownloads

Next ==
    \/ \E m \in Msgs : Delete(m) \/ Age(m) \/ Expire(m) \/ Report(m) \/ Select(m) \/ WorkerStep(m) \/ ReplayStep(m)
    \/ CardChanged \/ PrepareStep \/ Crash

Spec == Init /\ [][Next]_vars

\* The scheduler's rounds, the workers' timeouts and the clock; the pick is oldest first
\* (messagePriorityOrder), so no eligible message is passed over for ever.
Fairness ==
    /\ WF_vars(PrepareStep)
    /\ \A m \in Msgs : /\ WF_vars(WorkerStep(m)) /\ SF_vars(Select(m)) /\ WF_vars(ReplayStep(m))
                      /\ WF_vars(Age(m)) /\ WF_vars(Expire(m))

FairSpec == Spec /\ Fairness

-----------------------------------------------------------------------------
(* What must hold.                                                         *)

\* No message is handed to the carrier twice, whatever fails or restarts
\* (messages_runtime.go:245, messages_scheduler.go:111).
AtMostOnce == \A m \in Out : net[m].sent <= 1

\* The records of m that may still be written to its row.
Records(m) ==
    ({memory[m], file[m], stable[m]}
        \cup {job[p].out : p \in {q \in {"worker", "replay"} : job[q].id = m}}) \ {None}

\* Once the carrier may have a message, neither its row nor any stored or running
\* outcome can put it back into a state from which the scheduler picks it.
SentIsFinal ==
    \A m \in Out : net[m].sent > 0 =>
        /\ row[m].state \notin Waiting
        /\ \A out \in Records(m) : out.state \in {"accepted", "partial", "failed", "unknown"}

\* What the row says about the carrier is true: accepted and delivered only for a
\* message it took, expired and cancelled only for one that never left, interrupted only
\* for one no outcome of which was saved
\* (deploy/MESSAGES.md: accepted means the network accepted it).
Truthful ==
    \A m \in Out :
        /\ row[m].state \in {"accepted", "delivered"} => net[m].taken = "all"
        /\ row[m].state = "partial" => net[m].taken \in {"all", "some"}
        /\ row[m].state = "cancelled" \/ row[m].issue = "MESSAGE_EXPIRED" => net[m].sent = 0
        /\ row[m].state = "unknown" /\ row[m].issue = "SEND_INTERRUPTED" => file[m] = None

\* At most one outcome of a message is outstanding: the copies in memory, in the file
\* and on the disk are the same record, so a replay never writes an older one.
OneOutcome ==
    \A m \in Msgs : \A a, b \in {memory[m], file[m], stable[m]} \ {None} : a = b

\* The MMSC is told that a message was received only when its content is in the
\* database (mms_receive.go:22), unless the user deleted it meanwhile.
AckedIsStored ==
    \A m \in In : net[m].acked => row[m].state = "received" \/ row[m].deleted

\* A worker that has an outcome to store never finds the key's lock taken, so the five
\* second limit of Apply cannot drop an outcome.
ApplyNeverWaits == job.worker.pc = "record" => ~ Holds("replay", job.worker.id)

\* A message withdrawn before its claim, by deletion or a change of the SIM, is never sent.
WithdrawnNeverSent ==
    [][\A m \in Out : row[m].state \in Waiting \cup {"cancelled"} /\ (row[m].deleted \/ row[m].stale)
            => row'[m].state # "sending"]_vars

\* Final states are final; an accepted message changes only by a delivery report.
FinalStatesKept ==
    [][\A m \in Msgs :
        /\ row[m].state \in {"delivered", "received", "cancelled", "expired"} => row'[m].state = row[m].state
        /\ row[m].state = "accepted" => row'[m].state \in {"accepted", "delivered", "failed"}]_vars

\* Every outgoing message gets an end the user can see, if faults stop.
Settles ==
    \A m \in Msgs : <>(~ row[m].mine \/ row[m].deleted \/ row[m].state \notin Waiting \cup {"sending"})

\* Every recorded outcome is applied and its record removed, if faults stop.
JournalDrains == \A m \in Msgs : Pending(m) ~> ~ Pending(m)

\* frontend/developer-docs.js:142: a message that is shown as downloading is being downloaded,
\* or its outcome is still to be written.
DownloadingIsLive ==
    phase = "run" => \A m \in In : row[m].state = "downloading" /\ ~ row[m].deleted
                        => job.worker.id = m \/ Pending(m)

\* A message goes to the carrier at most once, because nothing that is stored or
\* under way can make it eligible again (processMessage, prepareMessages).
SentOnce == AtMostOnce /\ SentIsFinal

\* The journal's three copies of an outcome agree, and nobody who has an outcome to
\* store waits for the one that is being replayed (Journal.Apply); with the types.
JournalSound == TypeOK /\ OneOutcome /\ ApplyNeverWaits

\* A late worker, replay or timeout never reopens a row: withdrawn messages stay
\* unsent and final states stay final (the WHERE clauses of the claim and the result).
RowsKept == WithdrawnNeverSent /\ FinalStatesKept

\* A row says what happened to its message, the journal holds one outcome until the row has it,
\* and what was acknowledged to the carrier is stored.
MessagesSound == Truthful /\ JournalSound /\ AckedIsStored

\* If faults stop, every outgoing message gets its end and every recorded outcome its row.
EverythingSettles == Settles /\ JournalDrains

=============================================================================
