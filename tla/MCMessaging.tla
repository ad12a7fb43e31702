---- MODULE MCMessaging ----
(* Messages between the database, the browser, the Wi-Fi worker and the     *)
(* IMS session, and the alerts about them.                                  *)
EXTENDS Integers, WifiBridge, TLC

CONSTANTS
    n1, n2, i1, i2, i3, t1, t2, None, Hashes, Peers, Writers, QueueLimit, PageSize, MaxRevision,
    Refs, Parts, Deliveries, Downloads, Cache, MaxCopies, Attempts, Limits, Grace, MaxPosts,
    MaxEpoch, MaxTroubles

VARIABLES
    part,  \* the part whose behaviour this is
    rows, threads, seq, floor, syncKept, open, mirror, inserted, overrun, next, pending, guarded,
    smsSender, notice, verdict, centre, flight, net, copies, smsWorker, smsKept, downloading,
    executed, evicted, stored, acked, closed, epoch, limit, telegram, attempt, counter, outcomes,
    evidence, polls, window, reading, events, notes, ended, alWorker, troubles

\* The bridge's messages are interchangeable.
Symmetry == Permutations({n1, n2})

\* Two messages of one correspondent, one of another.
PeerOfMessage(i) == IF i = i3 THEN t2 ELSE t1

\* A client mirrors the messages or the conversations.
Sync == INSTANCE MessageSync WITH
    Mirrors <- {"messages"}, Ids <- {i1, i2, i3}, PeerOf <- PeerOfMessage, kept <- syncKept
Threads == INSTANCE MessageSync WITH
    Mirrors <- {"threads"}, Ids <- {i1, i2, i3}, PeerOf <- PeerOfMessage, kept <- syncKept
Sms == INSTANCE ImsSms WITH
    sender <- smsSender, worker <- smsWorker, kept <- smsKept
Al == INSTANCE Alerts WITH
    MaxEvents <- 2, worker <- alWorker

\* What stands for a part whose behaviour this is not.
Off == "off"

ASSUME SmsBounds == Sms!ImsSmsConstants
ASSUME AlertBounds == Al!AlertConstants

varsSync == <<rows, threads, seq, floor, syncKept, open, mirror, inserted, overrun>>
varsSms == <<next, pending, guarded, smsSender, notice, verdict, centre, flight, net, copies,
        smsWorker, smsKept, downloading, executed, evicted, stored, acked, closed>>
varsAl == <<epoch, limit, telegram, attempt, counter, outcomes, evidence, polls, window,
        reading, events, notes, ended, alWorker, troubles>>
all == <<part, vars, varsSync, varsSms, varsAl>>

OffSync ==
    /\ rows = Off /\ threads = Off /\ seq = Off /\ floor = Off /\ syncKept = Off /\ open = Off
    /\ mirror = Off /\ inserted = Off /\ overrun = Off
OffSms ==
    /\ next = Off /\ pending = Off /\ guarded = Off /\ smsSender = Off /\ notice = Off
    /\ verdict = Off /\ centre = Off /\ flight = Off /\ net = Off /\ copies = Off
    /\ smsWorker = Off /\ smsKept = Off /\ downloading = Off /\ executed = Off /\ evicted = Off
    /\ stored = Off /\ acked = Off /\ closed = Off
OffAl ==
    /\ epoch = Off /\ limit = Off /\ telegram = Off /\ attempt = Off /\ counter = Off
    /\ outcomes = Off /\ evidence = Off /\ polls = Off /\ window = Off /\ reading = Off
    /\ events = Off /\ notes = Off /\ ended = Off /\ alWorker = Off /\ troubles = Off

\* The behaviour is of one part, as the program finds it; the others are away.
InitAll ==
    /\ part \in {"bridge", "sync", "threads", "sms", "alerts"}
    /\ Init /\ (part # "bridge" => kind = [i \in Ids |-> "sms"])
    /\ CASE part = "sync" -> Sync!Init [] part = "threads" -> Threads!Init [] OTHER -> OffSync
    /\ IF part = "sms" THEN Sms!Init ELSE OffSms
    /\ IF part = "alerts" THEN Al!Init ELSE OffAl

NextAll ==
    \/ part = "bridge" /\ Next /\ UNCHANGED <<part, varsSync, varsSms, varsAl>>
    \/ part = "sync" /\ Sync!Next /\ UNCHANGED <<part, vars, varsSms, varsAl>>
    \/ part = "threads" /\ Threads!Next /\ UNCHANGED <<part, vars, varsSms, varsAl>>
    \/ part = "sms" /\ Sms!Next /\ UNCHANGED <<part, vars, varsSync, varsAl>>
    \/ part = "alerts" /\ Al!Next /\ UNCHANGED <<part, vars, varsSync, varsSms>>

Behaviour == InitAll /\ [][NextAll]_all

-----------------------------------------------------------------------------
\* The browser's copy is what the database holds, for every cursor it can have, and a request
\* that is repeated makes one message (MessageSync).
Mirrored ==
    /\ part = "sync" => Sync!Mirrored /\ Sync!EnqueuedOnce
    /\ part = "threads" => Threads!Mirrored /\ Threads!EnqueuedOnce

\* A message goes to the session once, its parts are told the truth, and one received is
\* assembled, acknowledged and executed once (ImsSms).
SmsSound == part = "sms" => Sms!SubmitSound /\ Sms!InboundSound

\* An alert is told once, in the order of its streak (Alerts).
AlertsSound == part = "alerts" => Al!AlertsSound
=============================================================================
