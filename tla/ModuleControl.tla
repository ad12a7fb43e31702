---------------------------- MODULE ModuleControl ----------------------------
(***************************************************************************)
(* What may happen to one cellular module and when: polling, automatic     *)
(* recovery, administrator's restart, eSIM activation, APN access, Wi-Fi   *)
(* switch, host restart, maintenance and business work (modules_*.go,      *)
(* maintenance.go).                                                        *)
(*                                                                         *)
(* Three things keep them apart.  The gate of the module is held by        *)
(* whoever speaks to the hardware.  Admission (m.mu) refuses business work *)
(* while a destructive operation is pending and the reverse.  The rows of  *)
(* module_jobs, module_recoveries, module_wifi and modules.active_card     *)
(* say after a crash what was begun.                                       *)
(*                                                                         *)
(* A refusal changes nothing, so conditions that only refuse (a scan older *)
(* than 20 s, rate limits, full slots) are left out: the request is then   *)
(* simply not made.                                                        *)
(***************************************************************************)
EXTENDS Naturals

CONSTANTS
    Restarts,   \* request ids of restarts
    Enables,    \* request ids of eSIM activations
    Cards, Target, \* card identities; the profile that an Enable activates
    None,
    MaxGen,     \* bound: USB generations of the module
    MaxEvents   \* bound: requests, calls, replugs, resets, errors and crashes in all

Requests == Restarts \cup Enables
Gens == 0 .. MaxGen

ControlConstants ==
    /\ Restarts \cap Enables = {} /\ None \notin Requests \cup Cards
    /\ Target \in Cards /\ MaxGen \in Nat \ {0} /\ MaxEvents \in Nat

VARIABLES
    dev,      \* the module itself: USB generation (0 when unplugged), active card
    used,     \* USB generations used up
    seen,     \* m.seen: generation of the last scan, 0 when absent
    value,    \* m.values: generation, card, and whether Issue is "" and it answered
    proof,    \* m.recoveryProof: seen is a generation that answered once
    hold,     \* now is before m.recoveryUntil
    ready,    \* m.ready
    drain,    \* m.draining, and whether /status has called the program idle
    pending,  \* m.controlPending
    gate,     \* who holds the gate
    work,     \* a call or a message: the sample it chose and how far it got
    poll,     \* the polling goroutine: read, recoverModule and accept
    recPend,  \* m.recoveryPending
    jobs,     \* m.jobs
    run,      \* the goroutine of runRestart or runJob
    ctl,      \* the request that holds controlWrites
    apn,      \* accessAPN is under way
    host,     \* restartHost
    wifi,     \* m.wifi
    rows,     \* module_jobs
    latest,   \* the row created last
    active,   \* modules.active_card
    wrow,     \* module_wifi.enabled and iccid
    rec,      \* module_recoveries.result of the last row
    sent,     \* auxiliary: commands sent for each request
    swapped,  \* auxiliary: the request changed the card
    doubt,    \* auxiliary: a reset was sent or may have been, outcome unknown
    budget    \* of MaxEvents, what is left

world == <<dev, used>>
admission == <<hold, ready, drain, pending>>
db == <<rows, latest, active, wrow, rec>>
ghost == <<sent, swapped, doubt>>
vars == <<world, seen, value, proof, admission, gate, work, poll, recPend, jobs, run, ctl,
          apn, host, wifi, db, ghost, budget>>

Active(j) == j.state \in {"queued", "running"}
Running(w) == w.st \in {"starting", "on"}
NoSample == [gen |-> 0, card |-> None, ok |-> FALSE]
NoPoll == [pc |-> "idle", s |-> NoSample, older |-> FALSE, job |-> None]
NoRun == [pc |-> "idle", id |-> None, gen |-> 0, result |-> "none", s |-> NoSample]
NoCtl == [pc |-> "idle", id |-> None, on |-> FALSE, s |-> NoSample, prev |-> [id |-> None, state |-> "none"]]
NoWork == [pc |-> "none", gen |-> 0, card |-> None]
NoJob == [id |-> None, state |-> "none"]

JobStates == {"none", "queued", "running", "uncertain", "succeeded", "failed"}
Samples == [gen : Gens, card : Cards \cup {None}, ok : BOOLEAN]

TypeOK ==
    /\ dev \in [gen : Gens, card : Cards] /\ used \in Gens /\ seen \in Gens
    /\ value \in Samples
    /\ proof \in BOOLEAN /\ hold \in BOOLEAN /\ ready \in BOOLEAN /\ pending \in BOOLEAN
    /\ drain \in {"open", "draining", "idle"}
    /\ gate \in {"free", "poll", "job", "wifi", "apn", "work"}
    /\ work \in [pc : {"none", "picked", "reserved", "gated"}, gen : Gens, card : Cards \cup {None}]
    /\ poll \in [pc : {"idle", "read", "reserve", "command", "record", "sampled", "bound", "start"},
                 s : Samples, older : BOOLEAN, job : Requests \cup {None}]
    /\ jobs \in [id : Requests \cup {None}, state : JobStates]
    /\ run \in [pc : {"idle", "wait", "check", "command", "commanded", "finish"},
                id : Requests \cup {None}, gen : Gens,
                result : {"none", "changed", "unchanged", "unknown", "succeeded", "uncertain", "failed"},
                s : Samples]
    /\ ctl \in [pc : {"idle", "job", "switch", "apply"}, id : Requests \cup {None}, on : BOOLEAN,
                s : Samples, prev : [id : Requests \cup {None}, state : JobStates]]
    /\ apn \in BOOLEAN /\ host \in {"idle", "tx", "command", "closing", "done"}
    /\ wifi \in [want : BOOLEAN, st : {"off", "waiting", "failed", "starting", "on"},
                 card : Cards \cup {None}, gen : Gens, cancelled : BOOLEAN, unclean : BOOLEAN]
    /\ rows \in [Requests -> [state : JobStates, gen : Gens]] /\ latest \in Requests \cup {None}
    /\ active \in Cards /\ wrow \in [want : BOOLEAN, card : Cards \cup {None}]
    /\ rec \in {"none", "unconfirmed", "requested", "recovered"}
    /\ recPend \in BOOLEAN /\ doubt \in BOOLEAN
    /\ sent \in [Requests -> 0 .. 2] /\ swapped \in [Requests -> BOOLEAN]
    /\ budget \in 0 .. MaxEvents

loadWiFi ==
    [want |-> wrow.want, st |-> IF wrow.want THEN "waiting" ELSE "off", card |-> wrow.card,
     gen |-> 0, cancelled |-> FALSE, unclean |-> FALSE]

\* loadJobs, loadRecovery and loadWiFi over empty memory, after the rows of what was
\* under way have become uncertain.
Loaded(rs) ==
    /\ seen' = 0 /\ value' = NoSample /\ proof' = FALSE
    /\ hold' = FALSE /\ ready' = TRUE /\ drain' = "open" /\ pending' = FALSE
    /\ gate' = "free" /\ work' = NoWork /\ poll' = NoPoll /\ run' = NoRun /\ ctl' = NoCtl
    /\ apn' = FALSE
    /\ recPend' = (rec \notin {"none", "recovered"})
    /\ rows' = rs
    /\ jobs' = IF latest = None THEN NoJob ELSE [id |-> latest, state |-> rs[latest].state]
    /\ wifi' = loadWiFi

loadJobsAsSaved(rs) == rs
loadJobs(rs) == [r \in Requests |-> IF rs[r].state \in {"queued", "running"}
                                    THEN [rs[r] EXCEPT !.state = "uncertain"] ELSE rs[r]]

Init ==
    /\ dev \in [gen : {1}, card : Cards \ {Target}] /\ used = 1
    /\ seen = 0 /\ value = NoSample /\ proof = FALSE
    /\ hold = FALSE /\ ready = TRUE /\ drain = "open" /\ pending = FALSE
    /\ gate = "free" /\ work = NoWork /\ poll = NoPoll /\ recPend = FALSE
    /\ jobs = NoJob /\ run = NoRun /\ ctl = NoCtl /\ apn = FALSE /\ host = "idle"
    /\ active = dev.card /\ wrow \in [want : BOOLEAN, card : {dev.card}]
    /\ wifi = loadWiFi
    /\ rows = [r \in Requests |-> [state |-> "none", gen |-> 0]] /\ latest = None
    /\ rec = "none"
    /\ sent = [r \in Requests |-> 0] /\ swapped = [r \in Requests |-> FALSE] /\ doubt = FALSE
    /\ budget = MaxEvents

Event == budget > 0 /\ budget' = budget - 1
Calm == UNCHANGED budget

-----------------------------------------------------------------------------
(* The module, the scan, the end of a hold and the end of the program.     *)

\* A module is unplugged, or comes back as a new USB device.
Unplug ==
    /\ Event
    /\ dev.gen # 0 /\ dev' = [dev EXCEPT !.gen = 0]
    /\ UNCHANGED <<used, seen, value, proof, admission, gate, work, poll, recPend, jobs, run, ctl,
                   apn, host, wifi, db, ghost>>

Plug ==
    /\ dev.gen = 0 /\ used < MaxGen
    /\ used' = used + 1
    /\ dev' = [dev EXCEPT !.gen = used + 1]
    /\ UNCHANGED <<seen, value, proof, admission, gate, work, poll, recPend, jobs, run, ctl,
                   apn, host, wifi, db, ghost, budget>>

scan ==
    /\ seen # dev.gen
    /\ seen' = dev.gen
    /\ proof' = FALSE
    /\ wifi' = IF Running(wifi) /\ wifi.gen # dev.gen THEN [wifi EXCEPT !.cancelled = TRUE] ELSE wifi
    /\ UNCHANGED <<world, value, admission, gate, work, poll, recPend, jobs, run, ctl,
                   apn, host, db, ghost, budget>>

\* 90 s; a reset by recoverModule has returned by then (the read that it ends has 50 s).
HoldEnds ==
    /\ hold /\ poll.pc \notin {"reserve", "command", "record"}
    /\ hold' = FALSE
    /\ UNCHANGED <<world, seen, value, proof, ready, drain, pending, gate, work, poll, recPend, jobs,
                   run, ctl, apn, host, wifi, db, ghost, budget>>

Crash ==
    /\ Event
    /\ Loaded(loadJobs(rows))
    /\ doubt' = (doubt \/ poll.pc \in {"command", "record"})
    /\ host' = IF host = "idle" THEN "idle" ELSE "done"
    /\ UNCHANGED <<world, latest, active, wrow, rec, sent, swapped>>

-----------------------------------------------------------------------------
(* Business work: reserveModuleWork, moduleWorkAllowedLocked.              *)

WorkPick ==
    /\ Event
    /\ work.pc = "none" /\ value.ok
    /\ work' = [pc |-> "picked", gen |-> value.gen, card |-> value.card]
    /\ UNCHANGED <<world, seen, value, proof, admission, gate, poll, recPend, jobs, run, ctl,
                   apn, host, wifi, db, ghost>>

moduleWorkAllowed(s) ==
    /\ drain = "open" /\ ready /\ ~ pending /\ ~ hold
    /\ seen = s.gen /\ value.gen = s.gen /\ value.card = s.card /\ ~ Active(jobs)

WorkReserve ==
    /\ work.pc = "picked"
    /\ work' = IF moduleWorkAllowed(work) THEN [work EXCEPT !.pc = "reserved"] ELSE NoWork
    /\ UNCHANGED <<world, seen, value, proof, admission, gate, poll, recPend, jobs, run, ctl,
                   apn, host, wifi, db, ghost, budget>>

\* waitMessageGate and a cellular call; over Wi-Fi the worker that holds the gate does it.
WorkGate ==
    /\ work.pc = "reserved" /\ gate = "free"
    /\ gate' = "work" /\ work' = [work EXCEPT !.pc = "gated"]
    /\ UNCHANGED <<world, seen, value, proof, admission, poll, recPend, jobs, run, ctl,
                   apn, host, wifi, db, ghost, budget>>

WorkEnd ==
    /\ work.pc \in {"reserved", "gated"}
    /\ gate' = IF work.pc = "gated" THEN "free" ELSE gate
    /\ work' = NoWork
    /\ UNCHANGED <<world, seen, value, proof, admission, poll, recPend, jobs, run, ctl,
                   apn, host, wifi, db, ghost, budget>>

-----------------------------------------------------------------------------
(* Wi-Fi calling, as far as it competes for the module.                    *)

\* resumeWiFiIntent
resumeWiFiIntent(w, s) ==
    IF w.want /\ w.card = s.card /\ s.ok /\ w.st \in {"failed", "off"}
    THEN [w EXCEPT !.st = "waiting", !.unclean = FALSE] ELSE w

\* startWiFiLocked(w, s) while m.jobs is j: the worker that results.  Whether a failure may
\* be retried yet depends on its kind and on the clock; unconfirmed cleanup never may.
MayStart(w, s, j) ==
    /\ w.want /\ ~ Running(w) /\ w.card = s.card /\ s.ok /\ ~ Active(j)
    /\ ~ hold /\ drain = "open" /\ ready /\ ~ pending
NewDevice(w, s) == w.gen # 0 /\ w.gen # s.gen /\ w.st \in {"failed", "off"}

startWiFi(w, s, j) ==
    LET started == [w EXCEPT !.st = "starting", !.gen = s.gen, !.cancelled = FALSE, !.unclean = FALSE]
    IN IF ~ MayStart(w, s, j) THEN {w}
       ELSE IF w.st = "waiting" \/ NewDevice(w, s) THEN {started}
       ELSE IF w.st = "failed" /\ ~ w.unclean THEN {w, started}
       ELSE {w}

\* stopWiFiLocked
stopWiFiLocked(w) ==
    IF Running(w) THEN [w EXCEPT !.want = FALSE, !.cancelled = TRUE]
    ELSE IF w.want THEN [w EXCEPT !.want = FALSE, !.st = "off"] ELSE w

\* runWiFi waits for the gate; a cancelled worker may still get it, and then does nothing.
WifiEnter ==
    /\ wifi.st = "starting" /\ gate = "free" /\ ~ wifi.cancelled
    /\ gate' = "wifi" /\ wifi' = [wifi EXCEPT !.st = "on"]
    /\ UNCHANGED <<world, seen, value, proof, admission, work, poll, recPend, jobs, run, ctl,
                   apn, host, db, ghost, budget>>

\* The worker ends by itself or because it was cancelled; its cleanup may stay unconfirmed.
WifiEnd ==
    /\ Running(wifi)
    /\ wifi.st = "starting" => wifi.cancelled
    /\ gate' = IF wifi.st = "on" THEN "free" ELSE gate
    /\ \E how \in {"cancelled", "failed", "unclean"} :
        /\ how = "cancelled" => wifi.cancelled
        /\ how # "cancelled" => wifi.st = "on"
        /\ IF how = "cancelled" THEN UNCHANGED budget ELSE Event
        /\ hold' = (hold \/ how = "unclean")
        /\ wifi' = [wifi EXCEPT
                !.cancelled = FALSE, !.unclean = (how = "unclean"),
                !.st = IF how # "unclean" /\ wifi.want /\ seen # wifi.gen THEN "waiting"
                       ELSE IF how = "cancelled" THEN "off" ELSE "failed"]
    /\ UNCHANGED <<world, seen, value, proof, ready, drain, pending, work, poll, recPend, jobs, run,
                   ctl, apn, host, db, ghost>>

\* setWiFi: admission and reservation, the row, the change in memory.
SwitchWifi(on) ==
    /\ Event
    /\ ctl.pc = "idle" /\ drain = "open" /\ ready
    /\ value.gen # 0 /\ seen = value.gen /\ value.card # None /\ work.pc \in {"none", "picked"}
    /\ on => value.ok /\ ~ Active(jobs) /\ ~ hold
             /\ ~ (Running(wifi) /\ (~ wifi.want \/ wifi.card # value.card))
    /\ ~ on => Running(wifi) \/ (~ Active(jobs) /\ ~ hold)
    /\ pending' = TRUE
    /\ ctl' = [NoCtl EXCEPT !.pc = "switch", !.on = on, !.s = value]
    /\ UNCHANGED <<world, seen, value, proof, hold, ready, drain, gate, work, poll, recPend, jobs, run,
                   apn, host, wifi, db, ghost>>

WifiRow ==
    /\ ctl.pc = "switch"
    /\ \/ /\ Calm /\ wrow' = [want |-> ctl.on, card |-> ctl.s.card]
          /\ ctl' = [ctl EXCEPT !.pc = "apply"] /\ UNCHANGED pending
       \/ /\ Event /\ wrow' \in {wrow, [want |-> ctl.on, card |-> ctl.s.card]}
          /\ ctl' = NoCtl /\ pending' = FALSE
    /\ UNCHANGED <<world, seen, value, proof, hold, ready, drain, gate, work, poll, recPend, jobs, run,
                   apn, host, wifi, rows, latest, active, rec, ghost>>

\* The start at the end finds the request's own reservation and leaves it to the next poll.
\* Switched off while nothing runs, the radio is restored by a worker of its own.
WifiApply ==
    /\ ctl.pc = "apply"
    /\ pending' = FALSE /\ ctl' = NoCtl
    /\ LET w == [wifi EXCEPT !.card = ctl.s.card, !.want = ctl.on] IN
       wifi' = IF seen # ctl.s.gen \/ value.card # ctl.s.card \/ Active(jobs) THEN wifi
               ELSE IF ctl.on THEN IF Running(w) THEN w ELSE [w EXCEPT !.st = "waiting", !.unclean = FALSE]
               ELSE IF Running(w) THEN [w EXCEPT !.cancelled = TRUE]
               ELSE [w EXCEPT !.st = "starting", !.gen = ctl.s.gen, !.cancelled = FALSE, !.unclean = FALSE]
    /\ UNCHANGED <<world, seen, value, proof, hold, ready, drain, gate, work, poll, recPend, jobs, run,
                   apn, host, db, ghost, budget>>

-----------------------------------------------------------------------------
(* accessAPN: the gate, then a reservation that ends with the command.     *)

apnBegin ==
    /\ Event
    /\ ~ apn /\ gate = "free"
    /\ value.ok /\ seen = value.gen /\ ready /\ drain = "open"
    /\ ~ Active(jobs) /\ ~ hold /\ ~ Running(wifi) /\ work.pc \in {"none", "picked"} /\ ~ pending
    /\ apn' = TRUE /\ gate' = "apn" /\ pending' = TRUE
    /\ UNCHANGED <<world, seen, value, proof, hold, ready, drain, work, poll, recPend, jobs, run, ctl,
                   host, wifi, db, ghost>>

apnEnd ==
    /\ apn
    /\ apn' = FALSE /\ gate' = "free" /\ pending' = FALSE
    /\ UNCHANGED <<world, seen, value, proof, hold, ready, drain, work, poll, recPend, jobs, run, ctl,
                   host, wifi, db, ghost, budget>>

-----------------------------------------------------------------------------
(* The polling goroutine: read, recoverModule, accept.                     *)

read ==
    /\ poll.pc = "idle" /\ seen # 0
    /\ ~ hold /\ ~ (Active(jobs) /\ value.gen # 0) /\ gate = "free"
    /\ gate' = "poll"
    /\ poll' = [NoPoll EXCEPT !.pc = "read", !.s.gen = seen]
    /\ UNCHANGED <<world, seen, value, proof, admission, work, recPend, jobs, run, ctl,
                   apn, host, wifi, db, ghost, budget>>

\* What the device answers; no answer from one that is not there.
Readings(gen) ==
    {[gen |-> gen, card |-> None, ok |-> FALSE]}
    \cup (IF gen = dev.gen THEN {[gen |-> gen, card |-> dev.card, ok |-> TRUE]} ELSE {})

\* recoverModule resets a device that has not answered three times in 90 s.
mayRecover(s) ==
    /\ ~ s.ok /\ drain = "open" /\ work.pc \in {"none", "picked"} /\ ~ pending
    /\ proof /\ ready /\ seen = s.gen /\ ~ Active(jobs)

Reading ==
    /\ poll.pc = "read"
    /\ \E s \in Readings(poll.s.gen) :
        \/ /\ mayRecover(s) /\ Event
           /\ hold' = TRUE /\ poll' = [poll EXCEPT !.pc = "reserve", !.s = s] /\ UNCHANGED gate
        \/ /\ Calm /\ poll' = [poll EXCEPT !.pc = "sampled", !.s = s] /\ gate' = "free" /\ UNCHANGED hold
    /\ UNCHANGED <<world, seen, value, proof, ready, drain, pending, work, recPend, jobs, run, ctl,
                   apn, host, wifi, db, ghost>>

BusyRows == \E r \in Requests : rows[r].state \in {"queued", "running"}

\* reserveRecovery: the row is there before the command is sent.
mayReserve == ~ BusyRows /\ rec # "unconfirmed"

reserveRecovery ==
    /\ poll.pc = "reserve"
    /\ \/ /\ mayReserve /\ Calm
          /\ rec' = "unconfirmed" /\ recPend' = TRUE
          /\ poll' = [poll EXCEPT !.pc = "command"] /\ UNCHANGED <<hold, gate>>
       \/ /\ Calm \/ Event
          /\ rec' \in {rec} \cup (IF mayReserve /\ budget' # budget THEN {"unconfirmed"} ELSE {})
          /\ hold' = FALSE /\ gate' = "free" /\ poll' = [poll EXCEPT !.pc = "sampled"]
          /\ UNCHANGED recPend
    /\ UNCHANGED <<world, seen, value, proof, ready, drain, pending, work, jobs, run, ctl,
                   apn, host, wifi, rows, latest, active, wrow, ghost>>

\* Restart: the reset may or may not happen, whatever the answer.
Restart ==
    /\ poll.pc = "command"
    /\ dev' \in {dev} \cup (IF dev.gen = poll.s.gen THEN {[dev EXCEPT !.gen = 0]} ELSE {})
    /\ doubt' \in BOOLEAN
    /\ poll' = [poll EXCEPT !.pc = "record"]
    /\ UNCHANGED <<used, seen, value, proof, admission, gate, work, recPend, jobs, run, ctl,
                   apn, host, wifi, db, sent, swapped, budget>>

recordRecovery ==
    /\ poll.pc = "record"
    /\ \/ Calm /\ rec' = (IF doubt THEN "unconfirmed" ELSE "requested")
       \/ Event /\ UNCHANGED rec
    /\ gate' = "free" /\ poll' = [poll EXCEPT !.pc = "sampled"]
    /\ UNCHANGED <<world, seen, value, proof, admission, work, recPend, jobs, run, ctl,
                   apn, host, wifi, rows, latest, active, wrow, ghost>>

\* sampleCurrentLocked: older is that a later reading has been stored meanwhile.
sampleCurrent == seen = poll.s.gen /\ ~ (Active(jobs) /\ value.gen # 0) /\ ~ poll.older

\* accept takes the gate or gives up; bindModule commits identity and active card.
accept ==
    /\ poll.pc = "sampled"
    /\ LET bound == IF poll.s.ok THEN poll.s.card ELSE active IN
       \/ /\ gate = "free" /\ sampleCurrent /\ Calm
          /\ active' = bound
          /\ gate' = "poll" /\ poll' = [poll EXCEPT !.pc = "bound"]
       \/ /\ gate = "free" /\ sampleCurrent /\ Event
          /\ active' \in {active, bound}
          /\ poll' = NoPoll /\ UNCHANGED gate
       \/ /\ gate # "free" \/ ~ sampleCurrent
          /\ poll' = NoPoll /\ UNCHANGED <<gate, active>> /\ Calm
    /\ UNCHANGED <<world, seen, value, proof, admission, work, recPend, jobs, run, ctl,
                   apn, host, wifi, rows, latest, wrow, rec, ghost>>

\* confirmRestart and confirm
Confirmed(j, s) ==
    /\ j.state = "uncertain" /\ s.ok
    /\ \/ j.id \in Restarts /\ s.gen # rows[j.id].gen
       \/ j.id \in Enables /\ s.card = Target

\* The sample is stored if it still holds; then verifyRecovery, and persistJob of a job that
\* the sample confirms, either of which may fail.
acceptStore ==
    /\ poll.pc = "bound" /\ sampleCurrent
    /\ value' = poll.s /\ proof' = (proof \/ poll.s.ok)
    /\ LET healthy == recPend /\ poll.s.ok
           confirmed == Confirmed(jobs, poll.s)
       IN \/ /\ Calm
             /\ rec' = IF healthy THEN "recovered" ELSE rec
             /\ recPend' = (recPend /\ ~ healthy)
             /\ doubt' = (doubt /\ ~ healthy)
             /\ wifi' = IF healthy THEN resumeWiFiIntent(wifi, poll.s) ELSE wifi
             /\ rows' = IF confirmed THEN [rows EXCEPT ![jobs.id].state = "succeeded"] ELSE rows
             /\ poll' = [poll EXCEPT !.pc = "start", !.job = IF confirmed THEN jobs.id ELSE None]
          \/ /\ Event /\ (healthy \/ confirmed)
             /\ poll' = [poll EXCEPT !.pc = "start"]
             /\ UNCHANGED <<rec, recPend, doubt, wifi, rows>>
    /\ UNCHANGED <<world, seen, admission, gate, work, jobs, run, ctl,
                   apn, host, latest, active, wrow, sent, swapped>>

acceptDrop ==
    /\ poll.pc = "bound" /\ ~ sampleCurrent
    /\ poll' = NoPoll /\ gate' = "free"
    /\ UNCHANGED <<world, seen, value, proof, admission, work, recPend, jobs, run, ctl,
                   apn, host, wifi, db, ghost, budget>>

\* The result in memory, unless another job has taken its place, and startWiFiLocked.
acceptSettle ==
    /\ poll.pc = "start"
    /\ LET settled == poll.job # None /\ jobs = [id |-> poll.job, state |-> "uncertain"]
           j == IF settled THEN [jobs EXCEPT !.state = "succeeded"] ELSE jobs
           w == IF settled /\ poll.job \in Restarts THEN resumeWiFiIntent(wifi, poll.s) ELSE wifi
       IN /\ jobs' = j
          /\ wifi' \in IF sampleCurrent THEN startWiFi(w, poll.s, j) ELSE {w}
    /\ poll' = NoPoll /\ gate' = "free"
    /\ UNCHANGED <<world, seen, value, proof, admission, work, recPend, run, ctl,
                   apn, host, db, ghost, budget>>

-----------------------------------------------------------------------------
(* Restart and eSIM jobs.                                                  *)

\* m.work, m.controlPending, m.jobs, the hold and the endpoint; a picked sample is no work yet.
AdmissibleDuringWork ==
    /\ drain = "open" /\ ready /\ value.gen # 0 /\ seen = value.gen
    /\ ~ pending /\ ~ hold /\ ~ Active(jobs)
Admissible ==
    /\ drain = "open" /\ ready /\ value.gen # 0 /\ seen = value.gen
    /\ work.pc \in {"none", "picked"} /\ ~ pending /\ ~ hold /\ ~ Active(jobs)

\* restartModules and startJob reserve in memory before they save.  A request that has a row
\* is answered from it.
Admit(r) ==
    /\ Event
    /\ ctl.pc = "idle" /\ rows[r].state = "none" /\ Admissible
    /\ r \in Restarts => ~ wifi.unclean
    /\ r \in Enables => value.ok
    /\ jobs' = [id |-> r, state |-> "queued"]
    /\ ctl' = [NoCtl EXCEPT !.pc = "job", !.id = r, !.s = value, !.prev = jobs]
    /\ UNCHANGED <<world, seen, value, proof, admission, gate, work, poll, recPend, run,
                   apn, host, wifi, db, ghost>>

\* The rows are committed and the job starts; or an error restores what was in memory,
\* although the rows may stand.  An activation switches Wi-Fi off in the same transaction;
\* a restart only takes the worker off the module.
Commit ==
    /\ ctl.pc = "job"
    /\ LET r == ctl.id
           inserted == [rows EXCEPT ![r] = [state |-> "queued", gen |-> ctl.s.gen]]
           off == IF r \in Enables THEN [wrow EXCEPT !.want = FALSE] ELSE wrow
       IN \/ /\ Calm
             /\ r \in Restarts => ~ BusyRows
             /\ rows' = inserted /\ latest' = r /\ wrow' = off
             /\ wifi' = IF r \in Enables THEN stopWiFiLocked(wifi)
                        ELSE IF Running(wifi) THEN [wifi EXCEPT !.cancelled = TRUE] ELSE wifi
             /\ run' = [NoRun EXCEPT !.pc = "wait", !.id = r, !.gen = ctl.s.gen]
             /\ UNCHANGED jobs
          \/ /\ \/ Calm /\ r \in Restarts /\ BusyRows /\ UNCHANGED <<rows, latest, wrow>>
                \/ Event /\ UNCHANGED <<rows, latest, wrow>>
                \/ Event /\ rows' = inserted /\ latest' = r /\ wrow' = off
             /\ jobs' = ctl.prev
             /\ UNCHANGED <<wifi, run>>
    /\ ctl' = NoCtl
    /\ UNCHANGED <<world, seen, value, proof, admission, gate, work, poll, recPend,
                   apn, host, active, rec, ghost>>

\* saveJob: memory always, the row unless the database fails.
saveJob(r, state) ==
    /\ jobs' = [id |-> r, state |-> state]
    /\ LET saved == [rows EXCEPT ![r].state = state] IN
       \/ Calm /\ rows' = saved
       \/ Event /\ rows' \in {rows, saved}

\* The gate may be free in the very moment the time is over.
runGate ==
    /\ run.pc = "wait" /\ gate = "free"
    /\ gate' = "job" /\ run' = [run EXCEPT !.pc = "check"]
    /\ UNCHANGED <<world, seen, value, proof, admission, work, poll, recPend, jobs, ctl,
                   apn, host, wifi, db, ghost, budget>>

runTimeout ==
    /\ run.pc = "wait"
    /\ saveJob(run.id, "failed") /\ run' = NoRun
    /\ UNCHANGED <<world, seen, value, proof, admission, gate, work, poll, recPend, ctl,
                   apn, host, wifi, latest, active, wrow, rec, ghost>>

Blocked ==
    \/ seen # run.gen
    \/ wifi.unclean
    \/ run.id \in Restarts /\ Running(wifi)

\* Wi-Fi is wanted again unless the device changed, is busy or holds an unclean worker.
runRefuse ==
    /\ run.pc = "check"
    /\ saveJob(run.id, "failed") /\ run' = NoRun /\ gate' = "free"
    /\ wifi' = IF run.id \in Restarts /\ ~ Blocked /\ value.gen = run.gen
               THEN resumeWiFiIntent(wifi, value) ELSE wifi
    /\ Blocked \/ budget' # budget
    /\ UNCHANGED <<world, seen, value, proof, admission, work, poll, recPend, ctl,
                   apn, host, latest, active, wrow, rec, ghost>>

runProceed ==
    /\ run.pc = "check" /\ ~ Blocked
    /\ Calm
    /\ jobs' = [id |-> run.id, state |-> "running"]
    /\ rows' = [rows EXCEPT ![run.id].state = "running"]
    /\ run' = [run EXCEPT !.pc = "command"]
    /\ hold' = (hold \/ run.id \in Restarts)
    /\ UNCHANGED <<world, seen, value, proof, ready, drain, pending, gate, work, poll, recPend, ctl,
                   apn, host, wifi, latest, active, wrow, rec, ghost>>

Sent(r) == sent' = [sent EXCEPT ![r] = IF @ < 2 THEN @ + 1 ELSE @]

\* RestartModule checks the generation once more; the reset may be without effect.
RestartModule ==
    /\ run.pc = "command" /\ run.id \in Restarts
    /\ IF dev.gen = run.gen
       THEN /\ Sent(run.id) /\ dev' \in {dev, [dev EXCEPT !.gen = 0]}
       ELSE UNCHANGED <<sent, dev>>
    /\ run' = [run EXCEPT !.pc = "commanded"]
    /\ UNCHANGED <<used, seen, value, proof, admission, gate, work, poll, recPend, jobs, ctl,
                   apn, host, wifi, db, swapped, doubt, budget>>

\* Only a new USB generation proves that the module restarted.
runRestarted ==
    /\ run.pc = "commanded" /\ run.id \in Restarts
    /\ saveJob(run.id, "uncertain") /\ run' = NoRun /\ gate' = "free"
    /\ UNCHANGED <<world, seen, value, proof, admission, work, poll, recPend, ctl,
                   apn, host, wifi, latest, active, wrow, rec, ghost>>

\* ESIMCall changes the card, does not, or ends without saying.
ESIMCall ==
    /\ run.pc = "command" /\ run.id \in Enables
    /\ \E result \in {"changed", "unchanged", "unknown"} :
        LET changes == dev.gen = run.gen /\ result # "unchanged" IN
        /\ dev.gen # run.gen => result # "changed"
        /\ \/ changes /\ dev' = [dev EXCEPT !.card = Target]
              /\ swapped' = [swapped EXCEPT ![run.id] = @ \/ dev.card # Target]
           \/ result # "changed" /\ UNCHANGED <<dev, swapped>>
        /\ run' = [run EXCEPT !.pc = "commanded", !.result = result]
    /\ IF dev.gen = run.gen THEN Sent(run.id) ELSE UNCHANGED sent
    /\ UNCHANGED <<used, seen, value, proof, admission, gate, work, poll, recPend, jobs, ctl,
                   apn, host, wifi, db, doubt, budget>>

\* runJob reads the card again while the device is there, then confirm or finishUnconfirmedESIM.
runRead ==
    /\ run.pc = "commanded" /\ run.id \in Enables
    /\ \E s \in IF seen = run.gen THEN Readings(run.gen) ELSE {NoSample} :
        run' = [run EXCEPT !.pc = "finish", !.s = s,
                    !.result = IF s.ok /\ s.card = Target THEN "succeeded"
                               ELSE IF @ = "unchanged" THEN "failed" ELSE "uncertain"]
    /\ UNCHANGED <<world, seen, value, proof, admission, gate, work, poll, recPend, jobs, ctl,
                   apn, host, wifi, db, ghost, budget>>

\* finishESIMJob: the card and the result in one transaction (persistESIMCompletion); an
\* uncommitted card is kept out of Wi-Fi and messages by an issue of its sample.
Stored(s, committed) ==
    IF seen = run.gen
    THEN /\ value' = [s EXCEPT !.gen = run.gen, !.ok = s.ok /\ committed]
         /\ poll' = IF poll.pc = "sampled" THEN [poll EXCEPT !.older = TRUE] ELSE poll
    ELSE UNCHANGED <<value, poll>>

finishESIMJob ==
    /\ run.pc = "finish"
    /\ LET r == run.id
           s == run.s
           card == IF s.ok THEN s.card ELSE active
           done == [rows EXCEPT ![r].state = run.result]
       IN \/ /\ seen # run.gen
             /\ saveJob(r, "uncertain") /\ UNCHANGED <<active, value, poll>>
          \/ /\ seen = run.gen /\ Calm
             /\ active' = card /\ rows' = done
             /\ jobs' = [id |-> r, state |-> run.result]
             /\ Stored(s, TRUE)
          \/ /\ seen = run.gen /\ Event
             /\ \E committed \in BOOLEAN, saved \in BOOLEAN :
                /\ active' = IF committed THEN card ELSE active
                /\ rows' = IF saved THEN [rows EXCEPT ![r].state = "uncertain"]
                           ELSE IF committed THEN done ELSE rows
             /\ jobs' = [id |-> r, state |-> "uncertain"]
             /\ Stored(s, FALSE)
    /\ run' = NoRun /\ gate' = "free"
    /\ UNCHANGED <<world, seen, proof, admission, work, recPend, ctl,
                   apn, host, wifi, latest, wrow, rec, ghost>>

-----------------------------------------------------------------------------
(* restartHost, and the maintenance socket.                                *)

hostReserve ==
    /\ Event
    /\ host = "idle" /\ drain = "open" /\ ready
    /\ work.pc \in {"none", "picked"} /\ ~ pending /\ ~ Active(jobs)
    /\ host' = "tx" /\ ready' = FALSE
    /\ UNCHANGED <<world, seen, value, proof, hold, drain, pending, gate, work, poll, recPend, jobs,
                   run, ctl, apn, wifi, db, ghost>>

hostCommit ==
    /\ host = "tx"
    /\ \/ Calm /\ ~ BusyRows /\ host' = "command" /\ UNCHANGED ready
       \/ ((Calm /\ BusyRows) \/ Event) /\ host' = "done" /\ ready' = TRUE
    /\ UNCHANGED <<world, seen, value, proof, hold, drain, pending, gate, work, poll, recPend, jobs,
                   run, ctl, apn, wifi, db, ghost>>

\* RestartHost: the program is stopped, or the host refuses and admission stays closed 90 s.
hostCommand ==
    /\ host = "command"
    /\ \/ /\ Loaded(loadJobs(rows)) /\ host' = "done"
          /\ doubt' = (doubt \/ poll.pc \in {"command", "record"})
          /\ UNCHANGED <<latest, active, wrow, rec, sent, swapped>>
       \/ /\ host' = "closing"
          /\ UNCHANGED <<seen, value, proof, admission, gate, work, poll, recPend, jobs, run, ctl,
                         apn, wifi, db, ghost>>
    /\ UNCHANGED <<world, budget>>

hostReopen ==
    /\ host = "closing"
    /\ host' = "done" /\ ready' = TRUE
    /\ UNCHANGED <<world, seen, value, proof, hold, drain, pending, gate, work, poll, recPend, jobs,
                   run, ctl, apn, wifi, db, ghost, budget>>

Requesting == ctl.pc # "idle" \/ apn \/ host \in {"tx", "command"}

setDraining ==
    /\ \/ drain = "open" /\ Event /\ drain' = "draining"
       \/ drain # "open" /\ drain' = "open" /\ UNCHANGED budget
    /\ UNCHANGED <<world, seen, value, proof, hold, ready, pending, gate, work, poll, recPend, jobs,
                   run, ctl, apn, host, wifi, db, ghost>>

\* maintenanceState: requests, work, jobs and resets under way, but neither polls nor Wi-Fi.
idle == ~ Requesting /\ work.pc \in {"none", "picked"} /\ ~ pending /\ ~ Active(jobs) /\ ~ hold

maintenanceState ==
    /\ drain = "draining" /\ idle
    /\ drain' = "idle"
    /\ UNCHANGED <<world, seen, value, proof, hold, ready, pending, gate, work, poll, recPend, jobs,
                   run, ctl, apn, host, wifi, db, ghost, budget>>

-----------------------------------------------------------------------------
Polling ==
    \/ read \/ Reading \/ reserveRecovery \/ Restart \/ recordRecovery
    \/ accept \/ acceptStore \/ acceptDrop \/ acceptSettle
Job ==
    \/ runGate \/ runTimeout \/ runRefuse \/ runProceed
    \/ RestartModule \/ runRestarted \/ ESIMCall \/ runRead \/ finishESIMJob
Control ==
    \/ \E r \in Requests : Admit(r)
    \/ \E on \in BOOLEAN : SwitchWifi(on)
    \/ Commit \/ WifiRow \/ WifiApply \/ apnBegin \/ apnEnd
    \/ hostReserve \/ hostCommit \/ hostCommand \/ hostReopen
    \/ setDraining \/ maintenanceState
Next ==
    \/ Polling \/ Job \/ Control
    \/ Unplug \/ Plug \/ scan \/ HoldEnds \/ Crash
    \/ WorkPick \/ WorkReserve \/ WorkGate \/ WorkEnd \/ WifiEnter \/ WifiEnd

Spec == Init /\ [][Next]_vars

\* The goroutine of a job is scheduled, and requests to the database return.
Fairness == WF_vars(Job) /\ WF_vars(Commit)
FairSpec == Spec /\ Fairness

-----------------------------------------------------------------------------
(* Properties.                                                             *)

Commanding == run.pc = "command" \/ poll.pc = "command"

\* A command that takes the module from under everybody (restart, eSIM write, automatic
\* reset) is given only while no call, message or emergency session uses the module, no
\* Wi-Fi worker and no APN access is on it, and never two at a time; a host restart spares
\* business work and jobs.
RunsAlone ==
    /\ Commanding => /\ work.pc \in {"none", "picked"} /\ wifi.st # "on" /\ ~ apn
                     /\ ~ (run.pc = "command" /\ poll.pc = "command")
    /\ host = "command" => work.pc \in {"none", "picked"} /\ ~ Active(jobs)

\* No retry, crash, lost answer or second request makes a command of one request be sent
\* twice, and an automatic reset is not repeated while it is unknown what became of the last.
SentOnce ==
    /\ \A r \in Requests : sent[r] <= 1
    /\ poll.pc = "command" => ~ doubt

\* A job that the database calls failed has not restarted the module or changed the card; a
\* restart that it calls succeeded was followed by a new USB generation.
HonestJobs == \A r \in Requests :
    /\ rows[r].state = "failed" => ~ swapped[r] /\ (r \in Restarts => sent[r] = 0)
    /\ rows[r].state = "succeeded" /\ r \in Restarts => used > rows[r].gen

\* Business work and Wi-Fi calling never use a card other than the active one of the module,
\* nor one that the database does not know to be active, as long as the module stays the
\* device they started on.
CommittedCard ==
    /\ work.pc \in {"reserved", "gated"} /\ work.gen = dev.gen
           => work.card = dev.card /\ active = dev.card
    /\ wifi.st = "on" /\ wifi.want /\ wifi.gen = dev.gen
           => wifi.card = dev.card /\ active = dev.card

\* While an upgrade may rely on the program being idle, nothing destructive, no work and no
\* administrator's request is under way, and none begins before admission is opened again.
IdleIsIdle ==
    drain = "idle" => ~ Requesting /\ ~ Commanding /\ run.pc = "idle"
                      /\ work.pc \in {"none", "picked"}

\* While a configuration write (APN access, Wi-Fi switch) has reserved the module, no
\* business work is admitted to it (modules_work_test.go:46 "configuration write admitted
\* work").  The reservation is one flag that either writer sets and clears.
NoWorkDuringWrite ==
    apn \/ ctl.pc \in {"switch", "apply"} => work.pc \notin {"reserved", "gated"}

\* The first three properties and the types, as one invariant for the runs.
Exclusive == TypeOK /\ RunsAlone /\ IdleIsIdle

\* A job that blocks the module comes to an end.
JobsEnd == Active(jobs) ~> ~ Active(jobs)

=============================================================================
