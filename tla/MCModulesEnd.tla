---- MODULE MCModulesEnd ----
(* Progress of what the server does for its modules and accounts, on        *)
(* smaller bounds than MCModules': every job, outage, lease, route and      *)
(* account comes to its end.                                                *)
EXTENDS Integers

CONSTANTS
    Workers, n1, u1, Requested, Outages, Restarts, Enables, Cards, Target, None, MaxGen, Nets,
    Limit, MaxFp, RegistrarLimit, MaxSends, Table, MaxTroubles, RouteErrors, Accounts, Phones,
    MaxCred, MaxWrites

VARIABLES
    part,  \* the part whose behaviour this is
    conDev, conUsed, conSeen, conValue, proof, conHold, conReady, drain, pending, conGate, conWork,
    poll, recPend, jobs, run, conCtl, apn, host, wifi, rows, latest, active, wrow, rec, sent,
    swapped, conDoubt, conBudget, supDev, supUsed, radio, supSeen, supValue, supHold, supGate,
    supWork, supReady, supCtl, net, links, w, wk, moved, why, restores, supBudget, ctx, want,
    vocPc, ok, vocSeen, news, shown, registrar, vocLock, st, res, vocCancelled, clean, errs, watch,
    rf, sms, outcome, open, vocDoubt, taken, vocFaults, sends, upPc, life, upLock, table, todo,
    rules, record, kernel, unsure, disturbed, policy, link, signature, errors, upCancelled,
    sampled, db, born, late, writer, refresher, epoch, gwReady, accounts, policies, pol, rev, reg,
    grant, invite, call, floor, writes, gwFaults

Con == INSTANCE ModuleControl WITH
    MaxEvents <- Requested, dev <- conDev, used <- conUsed, seen <- conSeen, value <- conValue,
    hold <- conHold, ready <- conReady, gate <- conGate, work <- conWork, ctl <- conCtl,
    doubt <- conDoubt, budget <- conBudget
Sup == INSTANCE WifiSupervisor WITH
    MaxEvents <- Outages, dev <- supDev, used <- supUsed, seen <- supSeen, value <- supValue,
    hold <- supHold, gate <- supGate, work <- supWork, ready <- supReady, ctl <- supCtl,
    budget <- supBudget
Voc == INSTANCE VocatSession WITH
    MaxFaults <- 2, pc <- vocPc, seen <- vocSeen, lock <- vocLock, cancelled <- vocCancelled,
    doubt <- vocDoubt, faults <- vocFaults
Up == INSTANCE UplinkLease WITH
    Worker <- Workers, Families <- <<"v4">>, pc <- upPc, lock <- upLock,
    cancelled <- upCancelled
Gw == INSTANCE Gateway WITH
    MaxFaults <- 1, ready <- gwReady, faults <- gwFaults

ASSUME ControlBounds == Con!ControlConstants
ASSUME SupervisorBounds == Sup!WifiConstants
ASSUME SessionBounds == Voc!SessionConstants
ASSUME LeaseBounds == Up!LeaseConstants
ASSUME AccountBounds == Gw!GatewayBounds

varsCon == <<conDev, conUsed, conSeen, conValue, proof, conHold, conReady, drain, pending,
        conGate, conWork, poll, recPend, jobs, run, conCtl, apn, host, wifi, rows, latest,
        active, wrow, rec, sent, swapped, conDoubt, conBudget>>
varsSup == <<supDev, supUsed, radio, supSeen, supValue, supHold, supGate, supWork, supReady,
        supCtl, net, links, w, wk, moved, why, restores, supBudget>>
varsVoc == <<ctx, want, vocPc, ok, vocSeen, news, shown, registrar, vocLock, st, res,
        vocCancelled, clean, errs, watch, rf, sms, outcome, open, vocDoubt, taken, vocFaults,
        sends>>
varsUp == <<upPc, life, upLock, table, todo, rules, record, kernel, unsure, disturbed, policy,
        link, signature, errors, upCancelled, sampled>>
varsGw == <<db, born, late, writer, refresher, epoch, gwReady, accounts, policies, pol, rev,
        reg, grant, invite, call, floor, writes, gwFaults>>
all == <<part, varsCon, varsSup, varsVoc, varsUp, varsGw>>

\* Every part is as the program finds it, and one of them goes on.
InitAll ==
    /\ part \in {"control", "supervisor", "lease", "uplink", "gateway"}
    /\ Con!Init /\ (part # "control" => wrow.want)
    /\ Sup!Init /\ (part # "supervisor" => net = n1)
    /\ Voc!Init
    /\ Up!Init
    /\ Gw!Init /\ (part # "gateway" => db = [a \in Accounts |-> 0])

NextAll ==
    \/ part = "control" /\ Con!Next /\ UNCHANGED <<part, varsSup, varsVoc, varsUp, varsGw>>
    \/ part = "supervisor" /\ Sup!Next /\ UNCHANGED <<part, varsCon, varsVoc, varsUp, varsGw>>
    \/ part = "lease" /\ Voc!Next /\ UNCHANGED <<part, varsCon, varsSup, varsUp, varsGw>>
    \/ part = "uplink" /\ Up!Next /\ UNCHANGED <<part, varsCon, varsSup, varsVoc, varsGw>>
    \/ part = "gateway" /\ Gw!Next /\ UNCHANGED <<part, varsCon, varsSup, varsVoc, varsUp>>

\* The part that goes on is scheduled as its module says.
Fair ==
    \/ part = "control" /\ Con!Fairness
    \/ part = "supervisor" /\ Sup!Fairness
    \/ part = "lease" /\ Voc!Fairness
    \/ part = "uplink" /\ Up!Fairness
    \/ part = "gateway" /\ Gw!Fairness

Behaviour == InitAll /\ [][NextAll]_all /\ Fair

-----------------------------------------------------------------------------
\* Something to finish, start, give back or notice, in the part that goes on.
UnderWay ==
    \/ part = "control" /\ Con!Active(jobs)
    \/ part = "supervisor" /\ w.want /\ w.st = "waiting"
    \/ part = "lease" /\ ctx
    \/ part = "uplink" /\ Up!Overtaken(u1)

Over ==
    \/ part = "control" /\ ~Con!Active(jobs)
    \/ part = "supervisor" /\ (w.st # "waiting" \/ ~w.want \/ supDev = 0 \/ ~supValue.ok \/ ~supReady)
    \/ part = "lease" /\ vocPc = "ended"
    \/ part = "uplink" /\ (upPc[u1] # "open" \/ upCancelled[u1])

\* A job comes to its end (JobsEnd), a module that waits for its network is served (Served), a
\* lease that is cancelled ends (LeaseEnds) and a session whose link the policy has replaced is
\* stopped (OvertakenEnds); the gateway's views settle on the database (Gateway.Converges).
EverythingEnds ==
    /\ UnderWay ~> Over
    /\ <>[](part = "gateway" => Gw!Reconciled)
=============================================================================
