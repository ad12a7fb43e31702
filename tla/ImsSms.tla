------------------------------- MODULE ImsSms -------------------------------
(***************************************************************************)
(* Text messages over one IMS session (ims/sms_runtime.go,                 *)
(* sms_submit_report.go and sms_download.go).  SendSMS submits the parts   *)
(* of a message one after the other: a SIP MESSAGE, then the service       *)
(* centre's RP result, which names the part by its one-byte RP reference.  *)
(* The memory-available notice takes references too.  Deliveries and UICC  *)
(* downloads of the network are each worked on by a goroutine, once for    *)
(* every copy the P-CSCF sends.                                            *)
(***************************************************************************)
EXTENDS Naturals, Sequences, FiniteSets

CONSTANTS
    Refs,       \* bound: RP references are 0 .. Refs - 1 (256 in the code)
    Parts,      \* bound: parts that are sent
    Deliveries, \* messages of the network: stored ones
    Downloads,  \* and UICC downloads
    Cache,      \* reports of downloads that are kept (64 in the code)
    MaxCopies   \* bound: copies of one MESSAGE that arrive

Unlocked == "unlocked"     \* simDownloadMu, when nobody holds it

ImsSmsConstants ==
    /\ {Refs, Cache, MaxCopies} \subseteq Nat \ {0} /\ Parts \in Nat
    /\ Deliveries \cap Downloads = {} /\ Unlocked \notin Downloads

Ref == 0 .. Refs - 1
Part == 1 .. Parts
Inbound == Deliveries \cup Downloads
NoRef == Refs
Notice == 0     \* the memory-available notice, where a part is expected
Nobody == Parts + 1

VARIABLES
    next,       \* nextRPReference
    pending,    \* pendingRP: the part that waits, or nobody, and its result
    guarded,    \* references whose rpReuseAfter has not passed
    sender,     \* SendSMS: the part it is at
    notice,     \* the memory-available notice
    verdict,    \* what SendSMS reported of each part
    centre,     \* what the service centre decided of each part and of the notice
    flight,     \* MESSAGEs on their way to the service centre
    net,        \* RP results on their way: they may come late, twice or never
    copies,     \* copies of each inbound MESSAGE that arrived
    worker,     \* the goroutines: how many copies of each are at each step
    kept,       \* simDownloadOrder
    downloading,\* the download whose goroutine holds simDownloadMu
    executed,   \* how often the UICC executed each download
    evicted,    \* downloads whose report was dropped from the cache
    stored,     \* deliveries in the store
    acked,      \* deliveries that were confirmed with RP-ACK
    closed      \* the session is closed

rpVars == <<next, pending, guarded, sender, notice, verdict, centre, flight, net>>
inVars == <<copies, worker, kept, downloading, executed, evicted, stored, acked>>
vars == <<rpVars, inVars, closed>>

Results == {"none", "accepted", "rejected"}
Steps == {"store", "report", "lock", "uicc"}

TypeOK ==
    /\ next \in Ref /\ guarded \subseteq Ref
    /\ pending \in [Ref -> [for : Part \cup {Notice}, got : Results] \cup {[for |-> Nobody, got |-> "none"]}]
    /\ sender \in [pc : {"idle", "sip", "rp", "stopped"}, ref : 0 .. Refs, part : 1 .. Parts + 1]
    /\ notice \in [pc : {"none", "idle", "sip", "rp", "done"}, ref : 0 .. Refs]
    /\ verdict \in [Part -> Results \cup {"failed"}] /\ centre \in [Part \cup {Notice} -> Results]
    /\ flight \subseteq [for : Part \cup {Notice}, ref : Ref]
    /\ net \subseteq [ref : Ref, for : Part \cup {Notice}, ok : BOOLEAN, reply : BOOLEAN]
    /\ copies \in [Inbound -> 0 .. MaxCopies] /\ worker \in [Inbound -> [Steps -> 0 .. MaxCopies]]
    /\ kept \in Seq(Downloads) /\ Len(kept) <= Cache /\ downloading \in Downloads \cup {Unlocked}
    /\ executed \in [Downloads -> 0 .. MaxCopies] /\ evicted \subseteq Downloads
    /\ acked \subseteq Deliveries /\ stored \subseteq Deliveries /\ closed \in BOOLEAN

\* Submissions and downloads share nothing: a behaviour has the ones, with one copy of each
\* delivery, or the others.
Load ==
    \/ /\ sender = [pc |-> "idle", ref |-> NoRef, part |-> 1]
       /\ copies = [d \in Inbound |-> IF d \in Downloads THEN MaxCopies ELSE MaxCopies - 1]
    \/ sender = [pc |-> "idle", ref |-> NoRef, part |-> Parts + 1] /\ copies = [d \in Inbound |-> 0]

Init ==
    /\ next = 0 /\ pending = [r \in Ref |-> [for |-> Nobody, got |-> "none"]] /\ guarded = {}
    /\ Load /\ notice = [pc |-> "none", ref |-> NoRef]
    /\ verdict = [p \in Part |-> "none"] /\ centre = [p \in Part \cup {Notice} |-> "none"] /\ flight = {} /\ net = {}
    /\ worker = [d \in Inbound |-> [s \in Steps |-> 0]]
    /\ kept = <<>> /\ downloading = Unlocked /\ executed = [d \in Downloads |-> 0] /\ evicted = {}
    /\ stored = {} /\ acked = {} /\ closed = FALSE

-----------------------------------------------------------------------------
(* RP references.                                                          *)

\* A reference is free when nobody waits for it and it was not used for five minutes.
Free(r) == pending[r].for = Nobody /\ r \notin guarded

\* beginRP: the first free reference from nextRPReference on.
After(r, k) == (r + k) % Refs
BeginRP(for, r) ==
    /\ \E k \in 0 .. Refs - 1 : /\ r = After(next, k) /\ Free(r)
                                /\ \A j \in 0 .. k - 1 : ~ Free(After(next, j))
                                /\ next' = After(next, k + 1)
    /\ pending' = [pending EXCEPT ![r] = [for |-> for, got |-> "none"]]
    /\ guarded' = guarded \cup {r} /\ flight' = flight \cup {[for |-> for, ref |-> r]}
Busy == \A r \in Ref : ~ Free(r)

EndRP(r) == pending' = [pending EXCEPT ![r] = [for |-> Nobody, got |-> "none"]]

\* Five minutes after its use: by then the network has delivered, or lost, its results.
GuardEnds(r) ==
    /\ r \in guarded /\ pending[r].for = Nobody
    /\ guarded' = guarded \ {r} /\ net' = {m \in net : m.ref # r} /\ flight' = {m \in flight : m.ref # r}
    /\ UNCHANGED <<next, pending, sender, notice, verdict, centre, inVars, closed>>

\* receiveRPResult.  Without In-Reply-To the reference alone says what it is about; the first
\* result stays.
Receive(m) ==
    /\ m \in net
    /\ LET p == pending[m.ref] IN
       /\ p.for # Nobody /\ p.got = "none" /\ (m.reply => m.for = p.for)
       /\ pending' = [pending EXCEPT ![m.ref].got = IF m.ok THEN "accepted" ELSE "rejected"]
    /\ UNCHANGED <<next, guarded, sender, notice, verdict, centre, flight, net, inVars, closed>>

-----------------------------------------------------------------------------
(* The service centre: it takes what arrived, answers once or more.        *)

CentreTakes(m) ==
    /\ m \in flight /\ centre[m.for] = "none"
    /\ \E ok \in BOOLEAN, reply \in BOOLEAN :
        /\ centre' = [centre EXCEPT ![m.for] = IF ok THEN "accepted" ELSE "rejected"]
        /\ net' = net \cup {[ref |-> m.ref, for |-> m.for, ok |-> ok, reply |-> reply]}
    /\ UNCHANGED <<next, pending, guarded, sender, notice, verdict, flight, inVars, closed>>

-----------------------------------------------------------------------------
(* SendSMS.                                                                *)

SendPart ==
    /\ sender.pc = "idle" /\ sender.part \in Part /\ ~ closed
    /\ \E r \in Ref : BeginRP(sender.part, r) /\ sender' = [sender EXCEPT !.pc = "sip", !.ref = r]
    /\ UNCHANGED <<notice, verdict, centre, net, inVars, closed>>

\* SMS_REFERENCE_BUSY, or the session is not ready: nothing was sent.
Refused ==
    /\ sender.pc = "idle" /\ sender.part \in Part /\ (Busy \/ closed)
    /\ sender' = [sender EXCEPT !.pc = "stopped"]
    /\ UNCHANGED <<next, pending, guarded, notice, verdict, centre, flight, net, inVars, closed>>

Accepted2xx ==
    /\ sender.pc = "sip" /\ sender' = [sender EXCEPT !.pc = "rp"]
    /\ UNCHANGED <<next, pending, guarded, notice, verdict, centre, flight, net, inVars, closed>>

\* The part is done: the next one follows only after an acceptance.
PartEnds(v) ==
    /\ verdict' = [verdict EXCEPT ![sender.part] = v] /\ EndRP(sender.ref)
    /\ sender' = IF v = "accepted" THEN [pc |-> "idle", ref |-> NoRef, part |-> sender.part + 1]
                                   ELSE [sender EXCEPT !.pc = "stopped", !.ref = NoRef]
    /\ UNCHANGED <<next, guarded, notice, centre, net, inVars, closed>>

\* No SIP answer, or a rejection: the service centre has not taken the part, as the P-CSCF says.
SipFails ==
    /\ sender.pc = "sip"
    /\ \/ PartEnds("failed")
       \/ centre[sender.part] = "none" /\ PartEnds("rejected")
    /\ flight' = IF verdict'[sender.part] = "rejected" THEN {m \in flight : m.for # sender.part} ELSE flight

\* awaitRP: the result, or the time is up, or the session closes.
AwaitRP ==
    /\ sender.pc = "rp"
    /\ \/ pending[sender.ref].got # "none" /\ PartEnds(pending[sender.ref].got)
       \/ PartEnds("failed")
    /\ UNCHANGED flight

\* The caller submits what follows as a message of its own.
NextMessage ==
    /\ sender.pc = "stopped" /\ sender.part < Parts /\ ~ closed
    /\ sender' = [pc |-> "idle", ref |-> NoRef, part |-> sender.part + 1]
    /\ UNCHANGED <<next, pending, guarded, notice, verdict, centre, flight, net, inVars, closed>>

-----------------------------------------------------------------------------
(* The memory-available notice: once, after the first message was stored.  *)

NoticeSends ==
    /\ notice.pc = "idle"
    /\ \/ \E r \in Ref : BeginRP(Notice, r) /\ notice' = [pc |-> "sip", ref |-> r]
       \/ Busy /\ notice' = [notice EXCEPT !.pc = "done"] /\ UNCHANGED <<next, pending, guarded, flight>>
    /\ UNCHANGED <<sender, verdict, centre, net, inVars, closed>>

NoticeWaits ==
    /\ notice.pc = "sip" /\ notice' = [notice EXCEPT !.pc = "rp"]
    /\ UNCHANGED <<next, pending, guarded, sender, verdict, centre, flight, net, inVars, closed>>

\* With a result, without one, or with the session.
NoticeEnds ==
    /\ notice.pc \in {"sip", "rp"} /\ notice' = [pc |-> "done", ref |-> NoRef] /\ EndRP(notice.ref)
    /\ UNCHANGED <<next, guarded, sender, verdict, centre, flight, net, inVars, closed>>

-----------------------------------------------------------------------------
(* MESSAGEs of the network: answered 200, then worked on by a goroutine.   *)

At(d, s) == worker[d][s] > 0
Moves(d, from, to) == worker' = [worker EXCEPT ![d][from] = @ - 1, ![d][to] = @ + 1]
Leaves(d, from) == worker' = [worker EXCEPT ![d][from] = @ - 1]

Arrives(d) ==
    /\ copies[d] < MaxCopies /\ ~ closed /\ copies' = [copies EXCEPT ![d] = @ + 1]
    /\ worker' = [worker EXCEPT ![d][IF d \in Downloads THEN "lock" ELSE "store"] = @ + 1]
    /\ UNCHANGED <<rpVars, kept, downloading, executed, evicted, stored, acked, closed>>

\* OnSMS with the message's identity, then the report; a failure is an RP-ERROR.
Store(d) ==
    /\ At(d, "store")
    /\ \/ stored' = stored \cup {d} /\ Moves(d, "store", "report")
       \/ Leaves(d, "store") /\ UNCHANGED stored
    /\ UNCHANGED <<rpVars, copies, kept, downloading, executed, evicted, acked, closed>>

\* RP-ACK, and the notice unless it was sent.
Report(d) ==
    /\ d \in Deliveries /\ At(d, "report") /\ Leaves(d, "report") /\ acked' = acked \cup {d}
    /\ notice' = IF notice.pc = "none" /\ ~ closed THEN [notice EXCEPT !.pc = "idle"] ELSE notice
    /\ UNCHANGED <<next, pending, guarded, sender, verdict, centre, flight, net, copies, kept, downloading, executed, evicted, stored, closed>>

NoMutex == TRUE

\* simDownloadMu, held while the UICC works.
MutexFree == downloading = Unlocked
EnterDownload(d) ==
    /\ At(d, "lock") /\ MutexFree
    /\ IF \E i \in DOMAIN kept : kept[i] = d
       THEN Leaves(d, "lock") /\ UNCHANGED downloading  \* the kept report
       ELSE Moves(d, "lock", "uicc") /\ downloading' = d
    /\ UNCHANGED <<rpVars, copies, kept, executed, evicted, stored, acked, closed>>

\* processSIMDownload: whatever the UICC says, the report is kept; the oldest one makes room.
Executes(d) ==
    /\ At(d, "uicc") /\ Leaves(d, "uicc") /\ downloading' = Unlocked
    /\ executed' = [executed EXCEPT ![d] = @ + 1]
    /\ IF Len(kept) = Cache
       THEN kept' = Append(Tail(kept), d) /\ evicted' = evicted \cup {Head(kept)}
       ELSE kept' = Append(kept, d) /\ UNCHANGED evicted
    /\ UNCHANGED <<rpVars, copies, stored, acked, closed>>

Close ==
    /\ ~ closed /\ closed' = TRUE /\ UNCHANGED <<rpVars, inVars>>

-----------------------------------------------------------------------------
Sending == SendPart \/ Refused \/ Accepted2xx \/ SipFails \/ AwaitRP \/ NextMessage
Noticing == NoticeSends \/ NoticeWaits \/ NoticeEnds
Working(d) == Store(d) \/ Report(d)
Downloading(d) == EnterDownload(d) \/ Executes(d)

Next ==
    \/ Sending \/ Noticing \/ Close
    \/ \E m \in flight : CentreTakes(m)
    \/ \E r \in Ref : GuardEnds(r)
    \/ \E m \in net : Receive(m)
    \/ \E d \in Inbound : Arrives(d)
    \/ \E d \in Deliveries : Working(d)
    \/ \E d \in Downloads : Downloading(d)

Spec == Init /\ [][Next]_vars

-----------------------------------------------------------------------------
(* Properties.                                                             *)

\* A part that is reported accepted, or rejected with a cause, is what the service centre made of
\* that part, though RP results name parts by a byte that comes around.
TruthfulParts ==
    \A p \in Part : /\ verdict[p] = "accepted" => centre[p] = "accepted"
                    /\ verdict[p] = "rejected" => centre[p] # "accepted"

\* Parts wait for different references, and only for one that is guarded against reuse.
ReferencesApart ==
    /\ \A r, s \in Ref : pending[r].for = pending[s].for => r = s \/ pending[r].for = Nobody
    /\ \A r \in Ref : pending[r].for # Nobody => r \in guarded

SubmitSound == TypeOK /\ TruthfulParts /\ ReferencesApart

\* However many copies arrive and run at once, the UICC executes a download once as long as its
\* report is kept; an RP-ACK is sent for stored deliveries only.
ExecutedOnce == \A d \in Downloads \ evicted : executed[d] <= 1
AckedStored == acked \subseteq stored
InboundSound == ExecutedOnce /\ AckedStored

=============================================================================
