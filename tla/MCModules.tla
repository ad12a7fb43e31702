---- MODULE MCModules ----
(* What the server does for its modules and accounts: work on a module that *)
(* may not meet, its Wi-Fi calling with the lease and the routes a worker   *)
(* holds, and the gateway's accounts.                                       *)
EXTENDS Integers

CONSTANTS
    Workers, Requested, Outages, Restarts, Enables, Cards, Target, None, MaxGen, Nets, Limit,
    MaxFp, RegistrarLimit, MaxFaults, MaxSends, Table, MaxTroubles, RouteErrors, Accounts, Phones,
    MaxCred, MaxWrites

VARIABLES
    part,  \* the part whose behaviour this is
    conDev, conUsed, conSeen, conValue, proof, conHold, conReady, drain, pending, conGate, conWork,
    poll, recPend, jobs, run, conCtl, apn, host, wifi, rows, latest, active, wrow, rec, sent,
    swapped, conDoubt, conBudget, supDev, supUsed, radio, supSeen, supValue, supHold, supGate,
    supWork, supReady, supCtl, net, links, w, wk, moved, why, restores, supBudget, ctx, want,
    vocPc, ok, vocSeen, news, shown, registrar, vocLock, st, res, vocCancelled, clean, errs, watch,
    rf, sms, outcome, open, vocDoubt, taken, vocFaults, sends, upPc, life, upLock, table, todo,
    rules, record, kernel, unsure, disturbed, policy, link, signature, errors, upCancelled,
    sampled, db, born, late, writer, refresher, epoch, gwReady, accounts, policies, pol, rev, reg,
    grant, invite, call, floor, writes, gwFaults

Con == INSTANCE ModuleControl WITH
    MaxEvents <- Requested, dev <- conDev, used <- conUsed, seen <- conSeen, value <- conValue,
    hold <- conHold, ready <- conReady, gate <- conGate, work <- conWork, ctl <- conCtl,
    doubt <- conDoubt, budget <- conBudget
Sup == INSTANCE WifiSupervisor WITH
    MaxEvents <- Outages, dev <- supDev, used <- supUsed, seen <- supSeen, value <- supValue,
    hold <- supHold, gate <- supGate, work <- supWork, ready <- supReady, ctl <- supCtl,
    budget <- supBudget
Voc == INSTANCE VocatSession WITH
    pc <- vocPc, seen <- vocSeen, lock <- vocLock, cancelled <- vocCancelled,
    doubt <- vocDoubt, faults <- vocFaults
Up == INSTANCE UplinkLease WITH
    Worker <- Workers, Families <- <<"v4">>, pc <- upPc, lock <- upLock,
    cancelled <- upCancelled
Gw == INSTANCE Gateway WITH
    MaxFaults <- 1, ready <- gwReady, faults <- gwFaults

\* What stands for a part whose behaviour this is not.
Off == "off"

ASSUME ControlBounds == Con!ControlConstants
ASSUME SupervisorBounds == Sup!WifiConstants
ASSUME SessionBounds == Voc!SessionConstants
ASSUME LeaseBounds == Up!LeaseConstants
ASSUME AccountBounds == Gw!GatewayBounds

varsCon == <<conDev, conUsed, conSeen, conValue, proof, conHold, conReady, drain, pending,
        conGate, conWork, poll, recPend, jobs, run, conCtl, apn, host, wifi, rows, latest,
        active, wrow, rec, sent, swapped, conDoubt, conBudget>>
varsSup == <<supDev, supUsed, radio, supSeen, supValue, supHold, supGate, supWork, supReady,
        supCtl, net, links, w, wk, moved, why, restores, supBudget>>
varsVoc == <<ctx, want, vocPc, ok, vocSeen, news, shown, registrar, vocLock, st, res,
        vocCancelled, clean, errs, watch, rf, sms, outcome, open, vocDoubt, taken, vocFaults,
        sends>>
varsUp == <<upPc, life, upLock, table, todo, rules, record, kernel, unsure, disturbed, policy,
        link, signature, errors, upCancelled, sampled>>
varsGw == <<db, born, late, writer, refresher, epoch, gwReady, accounts, policies, pol, rev,
        reg, grant, invite, call, floor, writes, gwFaults>>
all == <<part, varsCon, varsSup, varsVoc, varsUp, varsGw>>

OffCon ==
    /\ conDev = Off /\ conUsed = Off /\ conSeen = Off /\ conValue = Off /\ proof = Off
    /\ conHold = Off /\ conReady = Off /\ drain = Off /\ pending = Off /\ conGate = Off
    /\ conWork = Off /\ poll = Off /\ recPend = Off /\ jobs = Off /\ run = Off /\ conCtl = Off
    /\ apn = Off /\ host = Off /\ wifi = Off /\ rows = Off /\ latest = Off /\ active = Off
    /\ wrow = Off /\ rec = Off /\ sent = Off /\ swapped = Off /\ conDoubt = Off /\ conBudget = Off
OffSup ==
    /\ supDev = Off /\ supUsed = Off /\ radio = Off /\ supSeen = Off /\ supValue = Off
    /\ supHold = Off /\ supGate = Off /\ supWork = Off /\ supReady = Off /\ supCtl = Off
    /\ net = Off /\ links = Off /\ w = Off /\ wk = Off /\ moved = Off /\ why = Off
    /\ restores = Off /\ supBudget = Off
OffVoc ==
    /\ ctx = Off /\ want = Off /\ vocPc = Off /\ ok = Off /\ vocSeen = Off /\ news = Off
    /\ shown = Off /\ registrar = Off /\ vocLock = Off /\ st = Off /\ res = Off
    /\ vocCancelled = Off /\ clean = Off /\ errs = Off /\ watch = Off /\ rf = Off /\ sms = Off
    /\ outcome = Off /\ open = Off /\ vocDoubt = Off /\ taken = Off /\ vocFaults = Off
    /\ sends = Off
OffUp ==
    /\ upPc = Off /\ life = Off /\ upLock = Off /\ table = Off /\ todo = Off /\ rules = Off
    /\ record = Off /\ kernel = Off /\ unsure = Off /\ disturbed = Off /\ policy = Off
    /\ link = Off /\ signature = Off /\ errors = Off /\ upCancelled = Off /\ sampled = Off
OffGw ==
    /\ db = Off /\ born = Off /\ late = Off /\ writer = Off /\ refresher = Off /\ epoch = Off
    /\ gwReady = Off /\ accounts = Off /\ policies = Off /\ pol = Off /\ rev = Off /\ reg = Off
    /\ grant = Off /\ invite = Off /\ call = Off /\ floor = Off /\ writes = Off /\ gwFaults = Off

\* The behaviour is of one part, as the program finds it; the others are away.
InitAll ==
    /\ part \in {"control", "supervisor", "lease", "uplink", "gateway"}
    /\ IF part = "control" THEN Con!Init ELSE OffCon
    /\ IF part = "supervisor" THEN Sup!Init ELSE OffSup
    /\ IF part = "lease" THEN Voc!Init ELSE OffVoc
    /\ IF part = "uplink" THEN Up!Init ELSE OffUp
    /\ IF part = "gateway" THEN Gw!Init ELSE OffGw

NextAll ==
    \/ part = "control" /\ Con!Next /\ UNCHANGED <<part, varsSup, varsVoc, varsUp, varsGw>>
    \/ part = "supervisor" /\ Sup!Next /\ UNCHANGED <<part, varsCon, varsVoc, varsUp, varsGw>>
    \/ part = "lease" /\ Voc!Next /\ UNCHANGED <<part, varsCon, varsSup, varsUp, varsGw>>
    \/ part = "uplink" /\ Up!Next /\ UNCHANGED <<part, varsCon, varsSup, varsVoc, varsGw>>
    \/ part = "gateway" /\ Gw!Next /\ UNCHANGED <<part, varsCon, varsSup, varsVoc, varsUp>>

Behaviour == InitAll /\ [][NextAll]_all

-----------------------------------------------------------------------------
\* Whatever works on a module works alone, resets it at most once per job through every stop
\* of the program, leaves a row that says what happened, and messages go out over the
\* committed card (ModuleControl).
WorksAlone ==
    part = "control" => Con!Exclusive /\ Con!SentOnce /\ Con!HonestJobs /\ Con!CommittedCard

\* One worker at a time, over the chosen network, and one restore per outage (WifiSupervisor).
Supervised == part = "supervisor" => Sup!Supervised

\* Polls, retries and scans start no attempt after an unconfirmed cleanup, as long as the
\* module's network and its link stay as they were (WifiSupervisor).
UnconfirmedStays == [][part = "supervisor" => Sup!UnconfirmedHeld]_varsSup

\* The radio stays off for as long as the lease lasts and comes back only over sessions that
\* are closed or whose close was tried and did not succeed; none is closed under a message
\* being sent, and the lease says clean only of an end at which every close succeeded
\* (VocatSession).
LeaseKept == part = "lease" => Voc!LeaseSound /\ Voc!NeverUnderMessage /\ Voc!HonestLease

\* Rules and routes belong to one worker, never leak another uplink and are recorded before
\* they exist (UplinkLease).
RoutesOwned == part = "uplink" => Up!UplinkSound

\* The gateway's views agree, a changed credential is fenced, and nobody is locked out (Gateway).
AccountsServed == part = "gateway" => Gw!ViewsAgree /\ Gw!FencedCredentials /\ Gw!NoLockout
=============================================================================
