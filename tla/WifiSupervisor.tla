--------------------------- MODULE WifiSupervisor ---------------------------
(***************************************************************************)
(* Wi-Fi calling of one module: the user's intent, the worker goroutine    *)
(* and the worker process behind it, retries, the one full recovery of an  *)
(* outage, the module's network and its changes (modules_wifi.go,          *)
(* modules_wifi_recovery.go, module_networks.go, internal/hardware's       *)
(* wifi_worker.go and wifi_vocat.go).                                      *)
(*                                                                         *)
(* Who may speak to the module is the subject of ModuleControl; here a     *)
(* poll, a job or an APN access is another holder of the gate, and         *)
(* business work is one flag.  The card does not change.                   *)
(***************************************************************************)
EXTENDS Naturals

CONSTANTS
    Nets,       \* networks a module may be assigned
    Limit,      \* wifiRetryLimit: failed attempts before the full recovery
    MaxGen,     \* bound: USB generations of the module
    MaxFp,      \* bound: fingerprints of a network
    MaxEvents   \* bound: user's requests, link changes, replugs and worker failures in all

Gens == 0 .. MaxGen
Fps == 0 .. MaxFp

WifiConstants ==
    /\ Nets # {} /\ Limit \in Nat \ {0} /\ MaxGen \in Nat \ {0}
    /\ MaxFp \in Nat \ {0} /\ MaxEvents \in Nat

VARIABLES
    dev,     \* the module: its USB generation, 0 when unplugged
    used,    \* the last generation given
    radio,   \* what its radio does: on the cellular network, or off
    seen,    \* m.seen
    value,   \* m.values: generation and whether SIM and communication are in order
    hold,    \* now is before m.recoveryUntil
    gate,    \* holder of the module's gate
    work,    \* m.work > 0
    ready,   \* m.ready
    ctl,     \* the request that holds controlWrites and controlPending
    net,     \* m.networks
    links,   \* m.networkLinks: fingerprint of each configured network, else 0
    w,       \* m.wifi
    wk,      \* the goroutine of runWiFi and the worker process it talks to
    moved,   \* auxiliary: the network of the present worker has changed
    why,     \* auxiliary: why an attempt must not simply be repeated
    restores,\* auxiliary: full recoveries since the last registration or switch
    budget   \* of MaxEvents, what is left

device == <<dev, used, radio, seen, value>>
vars == <<device, hold, gate, work, ready, ctl, net, links, w, wk, moved, why, restores, budget>>

NoCtl == [op |-> "none", on |-> FALSE, net |-> CHOOSE n \in Nets : TRUE, gen |-> 0]
NoWorker == [pc |-> "none", kind |-> "engine", gen |-> 0, told |-> "none", code |-> "none",
             net |-> CHOOSE n \in Nets : TRUE, fp |-> 0]

Issues == {"none", "network", "transport", "rejected", "unconfirmed"}

TypeOK ==
    /\ dev \in Gens /\ used \in Gens /\ seen \in Gens /\ radio \in {"cellular", "off"}
    /\ value \in [gen : Gens, ok : BOOLEAN]
    /\ hold \in BOOLEAN /\ gate \in {"free", "wifi", "other"} /\ work \in BOOLEAN /\ ready \in BOOLEAN
    /\ ctl \in [op : {"none", "switch", "network", "release"}, on : BOOLEAN, net : Nets, gen : Gens]
    /\ net \in Nets /\ links \in [Nets -> Fps]
    /\ w \in [want : BOOLEAN, st : {"off", "waiting", "connecting", "connected", "stopping", "failed"},
              issue : Issues, reg : BOOLEAN, running : BOOLEAN, cancelled : BOOLEAN,
              rebinding : BOOLEAN, gen : Gens, retry : {"none", "later", "due"}, refresh : BOOLEAN,
              fails : 0 .. Limit, allowed : BOOLEAN, used : BOOLEAN, stopping : BOOLEAN]
    /\ wk \in [pc : {"none", "gate", "start", "setup", "up", "pause", "clean", "done"},
               kind : {"engine", "restorer"}, gen : Gens, told : {"none", "stop", "cellular"},
               code : Issues \cup {"canceled"}, net : Nets, fp : Fps]
    /\ moved \in BOOLEAN /\ why \in {"none", "rejected", "unconfirmed"}
    /\ restores \in 0 .. 2 /\ budget \in 0 .. MaxEvents

Init ==
    /\ dev = 1 /\ used = 1 /\ radio = "cellular" /\ seen = 1 /\ value = [gen |-> 1, ok |-> TRUE]
    /\ hold = FALSE /\ gate = "free" /\ work = FALSE /\ ready = TRUE /\ ctl = NoCtl
    /\ net \in Nets /\ links = [n \in Nets |-> 1]
    /\ w = [want |-> FALSE, st |-> "off", issue |-> "none", reg |-> FALSE, running |-> FALSE,
            cancelled |-> FALSE, rebinding |-> FALSE, gen |-> 0, retry |-> "none", refresh |-> FALSE,
            fails |-> 0, allowed |-> FALSE, used |-> FALSE, stopping |-> FALSE]
    /\ wk = NoWorker
    /\ moved = FALSE /\ why = "none" /\ restores = 0 /\ budget = MaxEvents

Event == budget > 0 /\ budget' = budget - 1
Calm == UNCHANGED budget

-----------------------------------------------------------------------------
(* Starting a worker.                                                      *)

\* setRegistered; a registration ends the outage.
setRegistered(x, registered) ==
    IF registered THEN [x EXCEPT !.reg = TRUE, !.fails = 0, !.allowed = FALSE, !.used = FALSE, !.stopping = FALSE]
    ELSE [x EXCEPT !.reg = FALSE]
ForgetRecovery(x) == [x EXCEPT !.fails = 0, !.allowed = FALSE, !.used = FALSE, !.stopping = FALSE]

retryAnyFailure(x) == x.want /\ x.st = "failed"
retryWiFiFailure(x) == x.want /\ x.st = "failed" /\ x.issue = "transport"

resumeWiFiIntent(x, s) ==
    IF x.want /\ ~ x.running /\ s.ok /\ x.st \in {"failed", "off"}
    THEN [setRegistered(x, FALSE) EXCEPT !.st = "waiting", !.issue = "none"] ELSE x

MayStart(x, s, pending) ==
    /\ ~ (x.used /\ x.refresh)
    /\ x.want /\ ~ x.running /\ s.ok /\ ~ hold /\ ready /\ ~ pending

\* After the back-off of a transport failure, or on a new USB generation.
Renewed(x, s) ==
    IF x.st = "waiting" THEN x
    ELSE IF (x.issue = "network" /\ x.retry # "later") \/ (x.retry = "due" /\ retryWiFiFailure(x))
    THEN [x EXCEPT !.st = "waiting"]
    ELSE IF x.gen # 0 /\ x.gen # s.gen THEN resumeWiFiIntent(x, s) ELSE x

\* startWiFiLocked(x, s) over the network n of the links l: the state, and whether a worker
\* was started.  The caller's moved, why and wk follow from Launch.
startWiFiLocked(x, s, n, l, pending) ==
    IF ~ MayStart(x, s, pending) THEN x
    ELSE IF l[n] = 0 THEN [x EXCEPT !.st = "failed", !.issue = "network"]
    ELSE LET y == Renewed(x, s) IN
         IF y.st # "waiting" THEN y
         ELSE [setRegistered(y, FALSE) EXCEPT !.st = "connecting", !.issue = "none", !.running = TRUE,
                    !.cancelled = FALSE, !.gen = s.gen, !.retry = "none"]

Began(x) == ~ w.running /\ x.running

resumeNetworkLocked(x, pending) ==
    IF value.gen = seen /\ seen # 0 THEN startWiFiLocked(x, value, net, links, pending) ELSE x

\* A new generation, or an intent that was renewed, is a reason of its own.
Launch(x, n, l) ==
    /\ w' = x
    /\ IF Began(x)
       THEN /\ wk' = [NoWorker EXCEPT !.pc = "gate", !.gen = x.gen, !.net = n, !.fp = l[n]]
            /\ moved' = FALSE
       ELSE UNCHANGED <<wk, moved>>

NewReason(s) == w.gen # 0 /\ w.gen # s.gen

-----------------------------------------------------------------------------
(* The module, scans and polls, time, and the other users of the module.   *)

Unplug ==
    /\ Event /\ dev # 0 /\ dev < MaxGen
    /\ dev' = 0
    /\ UNCHANGED <<used, radio, seen, value, hold, gate, work, ready, ctl, net, links, w, wk, moved, why, restores>>

\* It comes back as a new device with its radio on.
Plug ==
    /\ dev = 0 /\ used' = used + 1 /\ dev' = used'
    /\ radio' = "cellular"
    /\ UNCHANGED <<seen, value, hold, gate, work, ready, ctl, net, links, w, wk, moved, why, restores, budget>>

scan ==
    /\ seen # dev /\ seen' = dev
    /\ w' = IF w.running /\ w.gen # dev THEN [w EXCEPT !.cancelled = TRUE] ELSE w
    /\ UNCHANGED <<dev, used, radio, value, hold, gate, work, ready, ctl, net, links, wk, moved, why, restores, budget>>

\* A poll: the sample is stored and the intent, which a confirmed reset may have renewed, is
\* taken up.
accept ==
    /\ seen # 0 /\ gate = "free" /\ ~ hold
    /\ \E ok \in {dev = seen} \cup (IF budget > 0 THEN {FALSE} ELSE {}), resumed \in BOOLEAN :
        LET s == [gen |-> seen, ok |-> ok]
            x == IF resumed THEN resumeWiFiIntent(w, s) ELSE w
            y == startWiFiLocked(x, s, net, links, ctl.op # "none")
        IN /\ value' = s
           /\ Launch(y, net, links)
           /\ why' = IF x # w \/ NewReason(s) THEN "none" ELSE why
           /\ resumed => x # w
           /\ IF (ok = (dev = seen)) /\ ~ resumed THEN Calm ELSE Event
    /\ <<value, w>>' # <<value, w>>
    /\ UNCHANGED <<dev, used, radio, seen, hold, gate, work, ready, ctl, net, links, restores>>

HoldEnds ==
    /\ hold /\ hold' = FALSE
    /\ UNCHANGED <<device, gate, work, ready, ctl, net, links, w, wk, moved, why, restores, budget>>

\* 15 s to 5 minutes of back-off; 80 s after a restored radio.
RetryDue ==
    /\ w.retry = "later" /\ w' = [w EXCEPT !.retry = "due"]
    /\ UNCHANGED <<device, hold, gate, work, ready, ctl, net, links, wk, moved, why, restores, budget>>
RefreshEnds ==
    /\ w.refresh /\ w' = [w EXCEPT !.refresh = FALSE]
    /\ UNCHANGED <<device, hold, gate, work, ready, ctl, net, links, wk, moved, why, restores, budget>>

OtherTakes ==
    /\ Event /\ gate = "free" /\ gate' = "other"
    /\ UNCHANGED <<device, hold, work, ready, ctl, net, links, w, wk, moved, why, restores>>
OtherReleases ==
    /\ gate = "other" /\ gate' = "free"
    /\ UNCHANGED <<device, hold, work, ready, ctl, net, links, w, wk, moved, why, restores, budget>>

moduleWorkAllowed == ready /\ ctl.op = "none" /\ ~ hold /\ seen = value.gen /\ seen # 0 /\ ~ w.rebinding
WorkBegins ==
    /\ Event /\ ~ work /\ moduleWorkAllowed /\ work' = TRUE
    /\ UNCHANGED <<device, hold, gate, ready, ctl, net, links, w, wk, moved, why, restores>>
WorkEnds ==
    /\ work /\ work' = FALSE
    /\ UNCHANGED <<device, hold, gate, ready, ctl, net, links, w, wk, moved, why, restores, budget>>

-----------------------------------------------------------------------------
(* The full recovery: one restored radio per outage.                       *)

ModuleCalm == seen # 0 /\ seen = value.gen /\ value.ok /\ ~ work /\ ctl.op = "none" /\ ~ hold /\ ready
Untried(x) == x.allowed /\ ~ x.used /\ x.fails >= Limit
RecoveryDue(x) ==
    /\ x.want /\ ~ x.reg /\ Untried(x) /\ ~ x.refresh /\ ModuleCalm
    /\ IF x.running THEN x.st # "stopping" ELSE x.issue = "network" \/ retryWiFiFailure(x)

\* A running worker is stopped as by the user; else a worker of its own restores the radio.
recoverWiFiLocked(x) ==
    IF ~ RecoveryDue(x) THEN x
    ELSE [x EXCEPT !.used = TRUE, !.stopping = TRUE, !.st = "stopping", !.running = TRUE,
                   !.cancelled = x.running, !.gen = IF x.running THEN @ ELSE value.gen]

\* The workers that follow from x, when x stood still before it.
Restored(x) ==
    /\ w' = recoverWiFiLocked(x)
    /\ restores' = IF RecoveryDue(x) THEN restores + 1 ELSE restores
Restorer(x) == [NoWorker EXCEPT !.pc = "gate", !.kind = "restorer", !.gen = x.gen]

wifiAttemptFailedLocked(x) ==
    [x EXCEPT !.fails = IF @ < Limit THEN @ + 1 ELSE @, !.allowed = TRUE]

recoverWiFi ==
    /\ RecoveryDue(w) /\ Restored(w)
    /\ IF w.running THEN UNCHANGED <<wk, moved>> ELSE wk' = Restorer(w') /\ moved' = FALSE
    /\ why' = IF w.running THEN why ELSE "none"
    /\ UNCHANGED <<device, hold, gate, work, ready, ctl, net, links, budget>>

-----------------------------------------------------------------------------
(* The user: the switch and the module's network; watchNetworks.           *)

\* setWiFi up to the write of its row, and from there on.
SwitchWifi(on) ==
    /\ Event /\ ctl.op = "none" /\ ready
    /\ seen # 0 /\ value = [gen |-> seen, ok |-> TRUE] /\ ~ work
    /\ IF on THEN ~ hold /\ (w.running => w.want) ELSE w.running \/ ~ hold
    /\ ctl' = [NoCtl EXCEPT !.op = "switch", !.on = on, !.gen = seen]
    /\ UNCHANGED <<device, hold, gate, work, ready, net, links, w, wk, moved, why, restores>>

\* Its own reservation keeps startWiFiLocked from starting; the next sample does.
SwitchedOn == IF w.want THEN w ELSE [ForgetRecovery(w) EXCEPT !.want = TRUE]
SwitchedOff == [setRegistered(ForgetRecovery(w), FALSE) EXCEPT !.want = FALSE]
ApplySwitch ==
    /\ ctl.op = "switch" /\ ctl' = NoCtl
    /\ \/ UNCHANGED <<w, wk, moved, why, restores>>        \* the write fails, or the module changed
       \/ /\ seen = ctl.gen /\ value.gen = ctl.gen
          /\ restores' = IF ctl.on /\ w.want THEN restores ELSE 0
          /\ IF ctl.on
             THEN /\ w' = IF w.running THEN SwitchedOn ELSE [SwitchedOn EXCEPT !.st = "waiting", !.issue = "none"]
                  /\ why' = IF w.running THEN why ELSE "none"
                  /\ UNCHANGED <<wk, moved>>
             ELSE /\ why' = "none"
                  /\ IF w.running
                     THEN /\ w' = [SwitchedOff EXCEPT !.st = "stopping", !.cancelled = TRUE]
                          /\ UNCHANGED <<wk, moved>>
                     ELSE /\ w' = [SwitchedOff EXCEPT !.st = "stopping", !.issue = "none", !.running = TRUE,
                                                     !.cancelled = FALSE, !.gen = ctl.gen]
                          /\ wk' = Restorer(w') /\ moved' = FALSE
    /\ UNCHANGED <<device, hold, gate, work, ready, net, links, budget>>

\* changeNetwork: the reservation, the transaction, the deferred release.
ChangeNetwork(n) ==
    /\ Event /\ n # net /\ links[n] # 0 /\ ready /\ ctl.op = "none" /\ ~ work
    /\ ctl' = [NoCtl EXCEPT !.op = "network", !.net = n]
    /\ UNCHANGED <<device, hold, gate, work, ready, net, links, w, wk, moved, why, restores>>

applyNetworkLocked(x) ==
    IF ~ x.want THEN x
    ELSE IF x.running THEN [x EXCEPT !.reg = FALSE, !.rebinding = TRUE, !.st = "stopping", !.cancelled = TRUE]
    ELSE [x EXCEPT !.reg = FALSE, !.st = "waiting", !.issue = IF hold THEN @ ELSE "none"]

CommitNetwork ==
    /\ ctl.op = "network"
    /\ \/ /\ ctl' = NoCtl                                  \* rolled back
          /\ UNCHANGED <<ready, net, w, moved, why>>
       \/ /\ ready' = FALSE /\ ctl' = NoCtl                \* nobody knows whether it committed
          /\ w' = IF w.running THEN [w EXCEPT !.reg = FALSE, !.cancelled = TRUE] ELSE w
          /\ UNCHANGED <<net, moved, why>>
       \/ /\ net' = ctl.net /\ ctl' = [NoCtl EXCEPT !.op = "release"]
          /\ w' = applyNetworkLocked(w)
          /\ moved' = TRUE
          /\ why' = IF w.running THEN why ELSE "none"
          /\ UNCHANGED ready
    /\ UNCHANGED <<device, hold, gate, work, links, wk, restores, budget>>

ReleaseNetwork ==
    /\ ctl.op = "release" /\ ctl' = NoCtl
    /\ Launch(resumeNetworkLocked(w, FALSE), net, links)
    /\ why' = IF NewReason(value) THEN "none" ELSE why
    /\ UNCHANGED <<device, hold, gate, work, ready, net, links, restores, budget>>

\* The links of one network change, or none do.
Rerouted(x, l) ==
    IF ~ x.want \/ links[net] = l[net] THEN x
    ELSE IF x.running THEN [x EXCEPT !.reg = FALSE, !.rebinding = TRUE, !.cancelled = TRUE]
    ELSE IF l[net] # 0 /\ x.issue = "network" THEN [x EXCEPT !.st = "waiting", !.issue = "none"] ELSE x
watchNetworks ==
    /\ \E n \in Nets, fp \in Fps :
        LET l == [links EXCEPT ![n] = fp]
            x == Rerouted(w, l)
            y == IF x.want THEN startWiFiLocked(x, value, net, l, ctl.op # "none") ELSE x
        IN /\ <<l, y>> # <<links, w>>
           /\ links' = l
           /\ w' = y
           /\ IF Began(y) THEN wk' = [NoWorker EXCEPT !.pc = "gate", !.gen = y.gen, !.net = net, !.fp = l[net]]
              ELSE UNCHANGED wk
           /\ moved' = IF Began(y) THEN FALSE ELSE moved \/ l[net] # links[net]
           /\ why' = IF Began(y) /\ NewReason(value) THEN "none" ELSE why
           /\ IF l = links THEN Calm ELSE Event
    /\ UNCHANGED <<device, hold, gate, work, ready, ctl, net, restores>>

-----------------------------------------------------------------------------
(* The goroutine of runWiFi and the worker process.                        *)

WorkerStep(pc) == wk.pc = pc /\ UNCHANGED <<device, hold, work, ready, ctl, net, links, moved, why>>
To(pc, code) == wk' = [wk EXCEPT !.pc = pc, !.code = code]

GateTaken ==
    /\ WorkerStep("gate") /\ gate = "free" /\ gate' = "wifi" /\ To("start", "none")
    /\ UNCHANGED <<w, restores, budget>>
GivenUp ==
    /\ WorkerStep("gate") /\ w.cancelled /\ To("done", "canceled")
    /\ UNCHANGED <<gate, w, restores, budget>>

\* A cancelled call is not made, or its dial fails; the process checks device and network.
Dial ==
    /\ WorkerStep("start") /\ UNCHANGED <<gate, w, restores>>
    /\ \/ w.cancelled /\ Calm /\ \E code \in {"canceled", "transport"} : To("done", code)
       \/ ~ w.cancelled /\ Event /\ To("done", "transport")
       \/ /\ ~ w.cancelled /\ Calm /\ wk.kind = "engine"
          /\ \/ dev # wk.gen /\ To("done", "rejected")
             \/ dev = wk.gen /\ links[wk.net] = 0 /\ To("done", "network")

\* The engine turns the radio off and sets up; a restorer turns it on and is done.
Begin ==
    /\ wk.pc = "start" /\ ~ w.cancelled
    /\ IF wk.kind = "engine"
       THEN /\ dev = wk.gen /\ links[wk.net] # 0 /\ radio' = "off" /\ To("setup", "none") /\ Calm
       ELSE \/ dev = wk.gen /\ radio' = "cellular" /\ To("done", "none") /\ Calm
            \/ dev # wk.gen /\ To("done", "rejected") /\ UNCHANGED radio /\ Calm
            \/ To("done", "unconfirmed") /\ UNCHANGED radio /\ Event
    /\ UNCHANGED <<dev, used, seen, value, hold, gate, work, ready, ctl, net, links, w, moved, why, restores>>

\* Reports of the worker reach the module's state through the callback of runWiFi.
ListensAnyway == w.want
Listens == w.want /\ ~ w.cancelled
Connected ==
    /\ WorkerStep("setup") /\ To("up", "none")
    /\ IF Listens
       THEN /\ w' = [setRegistered(w, TRUE) EXCEPT !.st = "connected", !.issue = "none"]
            /\ restores' = 0
       ELSE UNCHANGED <<w, restores>>
    /\ UNCHANGED <<gate, budget>>

Reconnecting == [setRegistered(w, FALSE) EXCEPT !.st = "connecting", !.allowed = FALSE]
Breaks ==
    /\ \E pc \in {"setup", "up"} : WorkerStep(pc)
    /\ Event /\ w' = Reconnecting
    /\ \E n \in {<<"pause", "none">>, <<"clean", "rejected">>, <<"clean", "transport">>} : To(n[1], n[2])
    /\ UNCHANGED <<gate, restores>>

\* The pause is over; the failed attempt may be the one that asks for the full recovery.
RetryFailed ==
    /\ WorkerStep("pause") /\ To("setup", "none")
    /\ IF Listens THEN Restored(wifiAttemptFailedLocked(w)) ELSE UNCHANGED <<w, restores>>
    /\ UNCHANGED <<gate, budget>>

Working == {"setup", "up", "pause"}

LeaseLost ==
    /\ wk.pc \in Working /\ WorkerStep(wk.pc) /\ ~ w.cancelled /\ Event
    /\ To("clean", "network") /\ w' = Reconnecting
    /\ UNCHANGED <<gate, restores>>

\* The policy is asked when the cancellation is noticed, and only then.
RestorePolicy == ~ w.want \/ w.stopping
Tell ==
    /\ wk.pc \in Working \cup {"clean"} /\ WorkerStep(wk.pc) /\ w.cancelled /\ wk.told = "none"
    /\ wk' = [wk EXCEPT !.told = IF RestorePolicy THEN "cellular" ELSE "stop"]
    /\ UNCHANGED <<gate, w, restores, budget>>
Stop ==
    /\ wk.pc \in Working /\ WorkerStep(wk.pc) /\ wk.told # "none"
    /\ To("clean", "canceled") /\ w' = Reconnecting
    /\ UNCHANGED <<gate, restores, budget>>

\* Disable restores the radio as it was told; a failure, or another device, is unconfirmed.
Clean ==
    /\ wk.pc = "clean"
    /\ \/ /\ dev = wk.gen /\ Calm
          /\ radio' = IF wk.told = "cellular" THEN "cellular" ELSE "off"
          /\ To("done", wk.code) /\ w' = [setRegistered(w, FALSE) EXCEPT !.refresh = TRUE]
       \/ /\ IF dev = wk.gen THEN Event ELSE Calm
          /\ radio' \in {radio} \cup (IF dev = wk.gen /\ wk.told = "cellular" THEN {"cellular"} ELSE {})
          /\ To("done", "unconfirmed") /\ w' = [setRegistered(w, FALSE) EXCEPT !.allowed = FALSE]
    /\ UNCHANGED <<dev, used, seen, value, hold, gate, work, ready, ctl, net, links, moved, why, restores>>

\* The process dies, or does not confirm its cleanup in 80 s.
Dies ==
    /\ wk.pc \in Working \cup {"clean"} /\ WorkerStep(wk.pc) /\ Event /\ To("done", "unconfirmed")
    /\ UNCHANGED <<gate, w, restores>>

\* runWiFi after its call: what becomes of the intent.
Ended(code) ==
    [setRegistered(w, FALSE) EXCEPT
        !.running = FALSE, !.cancelled = FALSE, !.stopping = FALSE,
        !.st = IF code \in Issues \ {"none"} THEN "failed" ELSE "off",
        !.issue = IF code \in Issues THEN code ELSE "none"]
AfterReset(x, changed) ==
    IF x.want /\ ~ changed /\ x.st = "off"
    THEN [x EXCEPT !.st = "waiting", !.issue = "none", !.refresh = TRUE, !.retry = "none"] ELSE x
BackOff(x) == IF x.issue = "network" \/ retryWiFiFailure(x) THEN [x EXCEPT !.retry = "later"] ELSE x
AfterRun(x, changed) ==
    LET y == BackOff(x)
        again == y.want /\ (changed \/ y.rebinding) /\ y.issue # "unconfirmed"
        z == [y EXCEPT !.st = IF again THEN "waiting" ELSE @, !.issue = IF again THEN "none" ELSE @,
                       !.rebinding = FALSE]
    IN IF y.rebinding /\ ~ changed /\ y.issue # "unconfirmed" THEN resumeNetworkLocked(z, ctl.op # "none")
       ELSE IF y.want /\ ~ w.cancelled /\ ~ changed /\ ~ y.rebinding /\ (y.issue = "network" \/ retryWiFiFailure(y))
       THEN recoverWiFiLocked(wifiAttemptFailedLocked(z))
       ELSE z

End ==
    /\ wk.pc = "done"
    /\ LET changed == seen # wk.gen
           x == Ended(wk.code)
           y == IF w.stopping THEN AfterReset(x, changed) ELSE AfterRun(x, changed)
           restoring == y.running /\ y.stopping
       IN /\ w' = y
          /\ hold' = (hold \/ wk.code = "unconfirmed")
          /\ wk' = IF restoring THEN Restorer(y)
                   ELSE IF y.running THEN [NoWorker EXCEPT !.pc = "gate", !.gen = y.gen, !.net = net, !.fp = links[net]]
                   ELSE NoWorker
          /\ moved' = (moved /\ ~ y.running)
          /\ restores' = IF restoring THEN restores + 1 ELSE restores
          /\ why' = IF wk.code = "unconfirmed" THEN "unconfirmed"
                    ELSE IF wk.code = "rejected" /\ ~ moved /\ ~ changed /\ ~ w.stopping THEN "rejected"
                    ELSE "none"
    /\ gate' = IF gate = "wifi" THEN "free" ELSE gate
    /\ UNCHANGED <<device, work, ready, ctl, net, links, budget>>

-----------------------------------------------------------------------------
Module == Unplug \/ Plug \/ scan \/ accept
Time == HoldEnds \/ RetryDue \/ RefreshEnds
Others == OtherTakes \/ OtherReleases \/ WorkBegins \/ WorkEnds
User == ApplySwitch \/ CommitNetwork \/ ReleaseNetwork
Worker == GateTaken \/ GivenUp \/ Dial \/ Begin \/ Connected \/ RetryFailed \/ Tell \/ Stop \/ Clean \/ End

Next ==
    \/ Module \/ Time \/ Others \/ User \/ Worker
    \/ Breaks \/ LeaseLost \/ Dies \/ recoverWiFi \/ watchNetworks
    \/ \E on \in BOOLEAN : SwitchWifi(on)
    \/ \E n \in Nets : ChangeNetwork(n)

Spec == Init /\ [][Next]_vars

\* The worker's steps, polls, scans and the control requests end; holders release the module.
Fairness ==
    /\ WF_vars(Worker) /\ WF_vars(User) /\ WF_vars(scan) /\ WF_vars(accept)
    /\ WF_vars(HoldEnds) /\ WF_vars(RetryDue) /\ WF_vars(RefreshEnds)
    /\ WF_vars(OtherReleases) /\ WF_vars(WorkEnds)
FairSpec == Spec /\ Fairness

-----------------------------------------------------------------------------
\* A module is shown as registered only over the network the user chose, while that network
\* is the one the worker was started on, and only while Wi-Fi calling is wanted.
OwnRoute ==
    w.reg => /\ w.want /\ w.running /\ wk.kind = "engine" /\ wk.pc \in {"up", "done"}
             /\ wk.net = net /\ wk.fp = links[net] /\ wk.gen = w.gen

\* The gate and the running flag belong to one worker.
OneWorker ==
    /\ w.running <=> wk.pc # "none"
    /\ gate = "wifi" => wk.pc \notin {"none", "gate"}
    /\ wk.pc \in {"start", "clean"} \cup Working => gate = "wifi"

\* After an unconfirmed cleanup the polls, retries and scans alone start no other attempt.  It
\* takes the user, a confirmed recovery of the module or a new USB generation (which end why),
\* or else a change of network: another one assigned, or this one's link gone, returned or
\* replaced since the last worker began.  That the second sort of step, too, is one the
\* documents exclude is NoBlindRetry, which the code does not keep.
UnconfirmedHeld ==
    why' = "unconfirmed" /\ wk.pc # "gate" /\ wk'.pc = "gate" /\ wk'.kind = "engine"
        => moved \/ links'[net] # links[net]

UnconfirmedStays == [][UnconfirmedHeld]_vars

\* One full restore of the radio per outage.
OneRestore == restores <= 1

\* The supervisor as a whole: every registration is over the chosen network, one worker holds
\* the module, and an outage costs one restore of the radio.
Supervised == TypeOK /\ OwnRoute /\ OneWorker /\ OneRestore

\* "Rejected authentication, SIM state, occupied module and unconfirmed cleanup are not blindly
\* retried" (deploy/TESTING.md:83).
NoBlindRetry == wk.pc = "gate" /\ wk.kind = "engine" => why = "none"

\* "Switching the function off restores the module's cellular radio" (backend/MODULES.md:68).
OffRestoresRadio ==
    ~ w.want /\ w.st = "off" /\ why = "none" /\ dev # 0 /\ dev = seen /\ seen = w.gen /\ ctl.op = "none" => radio = "cellular"

\* An intent that is waiting gets its attempt, while the module is there and in order.
Served ==
    (w.want /\ w.st = "waiting") ~> (w.st # "waiting" \/ ~ w.want \/ dev = 0 \/ ~ value.ok \/ ~ ready)

=============================================================================
