------------------------------- MODULE Router -------------------------------
(***************************************************************************)
(* The call scheduler of backend/internal/telephony/router.go.             *)
(*                                                                         *)
(* One Router owns the reservation of every voice module and of every SIP  *)
(* account.  All of its methods run under r.mu, so each method is one      *)
(* atomic action here.  The adapters (SIP workers and modem drivers) carry *)
(* out the Action values the methods return and report back asynchronously *)
(* with Connected, ModuleClosed and ClientClosed, in any order.            *)
(*                                                                         *)
(* Time is abstracted: a registration is "live" until its Expires instant  *)
(* passes, a call deadline is "pending" until it is "passed".  Calls that  *)
(* return an error change nothing in the code and are not steps here.      *)
(***************************************************************************)
EXTENDS Naturals, FiniteSets

CONSTANTS
    Accounts,       \* SIP accounts
    Modules,        \* voice modules
    Allocations,    \* allocations (modules, receive) an administrator may choose
    None,           \* absence of an account, a module or a policy
    MaxId,          \* bound on r.next, which numbers registrations and calls
    MaxRevision     \* bound on credential revisions

ASSUME RouterConstants ==
    /\ Allocations \subseteq [modules: (SUBSET Modules) \ {{}}, receive: BOOLEAN]
    /\ None \notin Accounts \cup Modules
    /\ MaxId \in Nat
    /\ MaxRevision \in Nat

VARIABLES
    next,           \* r.next: the last identifier handed out
    policies,       \* r.policies: the allocation each account has, if any
    revisions,      \* r.revisions: highest credential revision ever accepted
    registrations,  \* r.registrations: grants by identifier
    ready,          \* r.ready
    calls,          \* r.calls: active calls by identifier
    moduleUse,      \* r.moduleUse: the call that reserves a module, or 0
    accountUse,     \* r.accountUse: the call that reserves an account, or 0
    lastDial,       \* r.lastDial
    orders          \* Action values returned to the adapters (see below)

vars == <<next, policies, revisions, registrations, ready, calls,
          moduleUse, accountUse, lastDial, orders>>

-----------------------------------------------------------------------------
(* Data.                                                                   *)

Ids == 1 .. MaxId

\* Policy.  The code's All is the allocation Modules; modules = {} stands for
\* an account with no policy (PutPolicy refuses an empty allocation).
Policy == [modules: SUBSET Modules, receive: BOOLEAN, revision: 0 .. MaxRevision]
NoPolicy == [modules |-> {}, receive |-> FALSE, revision |-> 0]

\* Registration.  revision is auxiliary: the credential revision that was
\* authenticated when the grant was issued (the argument of Register).
Registration == [revision: 0 .. MaxRevision, account: Accounts \cup {None}, live: BOOLEAN]
NoRegistration == [revision |-> 0, account |-> None, live |-> FALSE]

\* leg: the account of the registration it rings, and whether it is closing.
Leg == [account: Accounts \cup {None}, closing: BOOLEAN]
NoLeg == [account |-> None, closing |-> FALSE]

Phases == {"dialing", "ringing", "connecting", "connected", "ending"}

\* activeCall.  phase = "none" marks an identifier with no entry in r.calls.
Call == [module: Modules \cup {None}, phase: Phases \cup {"none"},
         winner: 0 .. MaxId, deadline: {"none", "pending", "passed"},
         legs: [Ids -> Leg], moduleClosed: BOOLEAN, owner: Accounts \cup {None}]
NoCall == [module |-> None, phase |-> "none", winner |-> 0, deadline |-> "none",
           legs |-> [i \in Ids |-> NoLeg], moduleClosed |-> FALSE, owner |-> None]

\* Action: the orders whose execution changes what an adapter does.  A cleanup
\* order stays outstanding until the adapter reports the cleanup; a start order
\* stays for good, since an adapter may act on it arbitrarily late and asks
\* ActionCurrent first.
Orders == [kind: {"Ring", "DialModule", "AnswerModule", "TerminateClient", "HangupModule"},
           call: Ids, registration: 0 .. MaxId]
Order(k, id, i) == [kind |-> k, call |-> id, registration |-> i]

HasPolicy(a) == policies[a].modules # {}
Registered(i) == registrations[i].account # None
Active(id) == calls[id].phase # "none"

\* valid: the grant is still listed and has not expired.
Valid(i) == Registered(i) /\ registrations[i].live

\* The code's !c.Deadline.IsZero() && !c.Deadline.After(now).
TimedOut(c) == c.deadline = "passed"

LegIds(c) == {i \in Ids : c.legs[i].account # None}
OpenLegs(c) == {i \in LegIds(c) : ~ c.legs[i].closing}

-----------------------------------------------------------------------------
(* closeLeg, end and withdraw, as functions of one call.                   *)

CloseLegs(c, S) ==
    [c EXCEPT !.legs = [i \in Ids |->
        IF i \in S \cap LegIds(c) THEN [c.legs[i] EXCEPT !.closing = TRUE]
                                  ELSE c.legs[i]]]

End(c) ==
    IF c.phase \in {"ending", "none"} THEN c
    ELSE [CloseLegs(c, Ids) EXCEPT !.phase = "ending", !.deadline = "none"]

\* withdraw for every leg of S.  The code loops over the legs; the outcome does
\* not depend on the order, because only the winner's leg, or the last open leg
\* of a ringing call, ends the call, and ending closes every leg.
Withdraw(c, S) ==
    LET d == CloseLegs(c, S)
    IN  IF c.winner \in S \cap LegIds(c) THEN End(c)
        ELSE IF c.phase = "ringing" /\ S \cap LegIds(c) # {} /\ OpenLegs(d) = {} THEN End(d)
        ELSE d

\* The orders returned when call id goes from c to d: closeLeg returns a
\* TerminateClient for each leg it closes, end a HangupModule if the module is up.
\* Mutant: a ringing call ends without hanging up its module.
CleanupOrdersAnswered(id, c, d) ==
    {Order("TerminateClient", id, i) : i \in OpenLegs(c) \cap {j \in LegIds(d) : d.legs[j].closing}}
    \cup {o \in {Order("HangupModule", id, 0)} :
            c.phase \notin {"ringing", "ending"} /\ d.phase = "ending" /\ ~ d.moduleClosed}
CleanupOrders(id, c, d) ==
    {Order("TerminateClient", id, i) : i \in OpenLegs(c) \cap {j \in LegIds(d) : d.legs[j].closing}}
    \cup {o \in {Order("HangupModule", id, 0)} :
            c.phase # "ending" /\ d.phase = "ending" /\ ~ d.moduleClosed}

AllCleanupOrders(before, after) ==
    UNION {CleanupOrders(id, before[id], after[id]) : id \in Ids}

\* Legs that revoking the grants in S withdraws from call id.  An established
\* dialog outlives its registration unless the account itself is revoked.
\* Mutant: an established dialog is not kept.
AllRevokedLegs(id, S, keepEstablished) == {i \in S : accountUse[registrations[i].account] = id}
RevokedLegs(id, S, keepEstablished) ==
    {i \in S : /\ accountUse[registrations[i].account] = id
               /\ ~ (keepEstablished /\ calls[id].phase = "connected" /\ calls[id].winner = i)}

\* revokeRegistration for every grant of S.
CallsAfterRevocation(S, keepEstablished) ==
    [id \in Ids |-> Withdraw(calls[id], RevokedLegs(id, S, keepEstablished))]

Dropped(S) == [i \in Ids |-> IF i \in S THEN NoRegistration ELSE registrations[i]]

-----------------------------------------------------------------------------
Init ==
    /\ next = 0
    /\ policies = [a \in Accounts |-> NoPolicy]
    /\ revisions = [a \in Accounts |-> 0]
    /\ registrations = [i \in Ids |-> NoRegistration]
    /\ ready = [m \in Modules |-> FALSE]
    /\ calls = [id \in Ids |-> NoCall]
    /\ moduleUse = [m \in Modules |-> 0]
    /\ accountUse = [a \in Accounts |-> 0]
    /\ lastDial = [a \in Accounts |-> None]
    /\ orders = {}

-----------------------------------------------------------------------------
(* Credentials and permissions.                                            *)

\* Mutant: grants that expired but were not swept yet are overlooked.
LiveGrantsOf(a) == {i \in Ids : registrations[i].account = a /\ registrations[i].live}
GrantsOf(a) == {i \in Ids : registrations[i].account = a}

\* revoke: every leg of the account is withdrawn, whether or not its grant is
\* still listed, then every grant of the account is removed.
AccountLegs(id, a) ==
    {i \in Ids : accountUse[a] = id /\ calls[id].legs[i].account = a}
CallsAfterRevoke(a) ==
    [id \in Ids |-> Withdraw(calls[id], AccountLegs(id, a) \cup RevokedLegs(id, GrantsOf(a), FALSE))]

\* The legs of account a that policy p no longer permits (end of PutPolicy).
\* Mutant: turning Receive off does not withdraw a pending offer.
DisallowedModule(c, id, a, p) == {i \in AccountLegs(id, a) : c.module \notin p.modules}
Disallowed(c, id, a, p) ==
    {i \in AccountLegs(id, a) :
        c.module \notin p.modules \/ (c.phase = "ringing" /\ ~ p.receive)}

PutPolicy(a, p) ==
    LET replaced == HasPolicy(a) /\ policies[a].revision # p.revision
        revoked  == IF replaced THEN CallsAfterRevoke(a) ELSE calls
        settled  == [id \in Ids |-> Withdraw(revoked[id], Disallowed(revoked[id], id, a, p))]
    IN  /\ p.revision > 0 /\ p.modules # {}
        /\ p.revision >= revisions[a]
        /\ HasPolicy(a) \/ p.revision # revisions[a]
        /\ policies' = [policies EXCEPT ![a] = p]
        /\ revisions' = [revisions EXCEPT ![a] = p.revision]
        /\ registrations' = IF replaced THEN Dropped(GrantsOf(a)) ELSE registrations
        /\ calls' = settled
        /\ orders' = orders \cup AllCleanupOrders(calls, calls')
        /\ UNCHANGED <<next, ready, moduleUse, accountUse, lastDial>>

Revoke(a) ==
    /\ registrations' = Dropped(GrantsOf(a))
    /\ calls' = CallsAfterRevoke(a)
    /\ orders' = orders \cup AllCleanupOrders(calls, calls')

DeleteAccount(a) ==
    /\ policies' = [policies EXCEPT ![a] = NoPolicy]
    /\ lastDial' = [lastDial EXCEPT ![a] = None]
    /\ Revoke(a)
    /\ UNCHANGED <<next, revisions, ready, moduleUse, accountUse>>

SuspendAccount(a) ==
    /\ Revoke(a)
    /\ UNCHANGED <<next, policies, revisions, ready, moduleUse, accountUse, lastDial>>

Register(a) ==
    /\ HasPolicy(a)
    /\ next < MaxId
    /\ next' = next + 1
    /\ registrations' = [registrations EXCEPT ![next + 1] =
            [revision |-> policies[a].revision, account |-> a, live |-> TRUE]]
    /\ UNCHANGED <<policies, revisions, ready, calls, moduleUse, accountUse, lastDial, orders>>

\* Refresh renews a grant that has not expired; its Expires moves, which the
\* abstraction of time does not show until ExpireRegistration.  It is a stutter
\* and needs no action of its own.

\* The instant Expires of grant i passes.
ExpireRegistration(i) ==
    /\ Valid(i)
    /\ registrations' = [registrations EXCEPT ![i].live = FALSE]
    /\ UNCHANGED <<next, policies, revisions, ready, calls, moduleUse, accountUse, lastDial, orders>>

Logout(i) ==
    /\ Registered(i)
    /\ registrations' = Dropped({i})
    /\ calls' = CallsAfterRevocation({i}, TRUE)
    /\ orders' = orders \cup AllCleanupOrders(calls, calls')
    /\ UNCHANGED <<next, policies, revisions, ready, moduleUse, accountUse, lastDial>>

-----------------------------------------------------------------------------
(* Calls.                                                                  *)

SetModuleReady(m, up) ==
    /\ ready' = [ready EXCEPT ![m] = up]
    /\ calls' = IF up THEN calls
                ELSE [id \in Ids |-> IF moduleUse[m] = id THEN End(calls[id]) ELSE calls[id]]
    /\ orders' = orders \cup AllCleanupOrders(calls, calls')
    /\ UNCHANGED <<next, policies, revisions, registrations, moduleUse, accountUse, lastDial>>

\* Mutant: a ready module is eligible even while a call reserves it.
EligibleReady(a) == {m \in Modules : ready[m] /\ m \in policies[a].modules}
Eligible(a) == {m \in Modules : ready[m] /\ moduleUse[m] = 0 /\ m \in policies[a].modules}

\* An account does not dial on the same module twice in a row unless it must.
DialChoices(a) ==
    IF Cardinality(Eligible(a)) > 1 THEN Eligible(a) \ {lastDial[a]} ELSE Eligible(a)

Dial(i, m) ==
    LET a == registrations[i].account
        id == next + 1
    IN  /\ Valid(i)
        /\ accountUse[a] = 0
        /\ m \in DialChoices(a)
        /\ next < MaxId
        /\ next' = id
        /\ calls' = [calls EXCEPT ![id] =
                [module |-> m, phase |-> "dialing", winner |-> i, deadline |-> "pending",
                 legs |-> [j \in Ids |-> IF j = i THEN [account |-> a, closing |-> FALSE] ELSE NoLeg],
                 moduleClosed |-> FALSE, owner |-> a]]
        /\ moduleUse' = [moduleUse EXCEPT ![m] = id]
        /\ accountUse' = [accountUse EXCEPT ![a] = id]
        /\ lastDial' = [lastDial EXCEPT ![a] = m]
        /\ orders' = orders \cup {Order("DialModule", id, i)}
        /\ UNCHANGED <<policies, revisions, registrations, ready>>

\* The grants an incoming call on module m rings.
Targets(m) ==
    {i \in Ids : /\ Valid(i)
                 /\ policies[registrations[i].account].receive
                 /\ m \in policies[registrations[i].account].modules
                 /\ accountUse[registrations[i].account] = 0}

Incoming(m) ==
    LET id == next + 1
        targets == Targets(m)
    IN  /\ ready[m] /\ moduleUse[m] = 0
        /\ targets # {}
        /\ next < MaxId
        /\ next' = id
        /\ calls' = [calls EXCEPT ![id] =
                [module |-> m, phase |-> "ringing", winner |-> 0, deadline |-> "pending",
                 legs |-> [j \in Ids |-> IF j \in targets
                             THEN [account |-> registrations[j].account, closing |-> FALSE]
                             ELSE NoLeg],
                 moduleClosed |-> FALSE, owner |-> None]]
        /\ moduleUse' = [moduleUse EXCEPT ![m] = id]
        /\ accountUse' = [a \in Accounts |->
                IF \E i \in targets : registrations[i].account = a THEN id ELSE accountUse[a]]
        /\ orders' = orders \cup {Order("Ring", id, i) : i \in targets}
        /\ UNCHANGED <<policies, revisions, registrations, ready, lastDial>>

\* The first client to answer wins; at or after the deadline the answer is
\* refused and ends the call instead.
Answer(i, id) ==
    LET c == calls[id]
        won == [CloseLegs(c, Ids \ {i}) EXCEPT !.phase = "connecting", !.winner = i,
                                               !.deadline = "pending", !.owner = registrations[i].account]
        d == IF TimedOut(c) THEN End(c) ELSE won
    IN  /\ Valid(i)
        /\ c.phase = "ringing" /\ i \in OpenLegs(c)
        /\ calls' = [calls EXCEPT ![id] = d]
        /\ orders' = orders \cup CleanupOrders(id, c, d)
                            \cup {o \in {Order("AnswerModule", id, i)} : d.phase = "connecting"}
        /\ UNCHANGED <<next, policies, revisions, registrations, ready, moduleUse, accountUse, lastDial>>

\* Evidence from the driver that the far end is connected.
Connected(id) ==
    LET c == calls[id]
    IN  /\ c.phase \in {"dialing", "connecting"}
        /\ ~ TimedOut(c)
        /\ c.winner \in LegIds(c) /\ Valid(c.winner)
        /\ calls' = [calls EXCEPT ![id].phase = "connected", ![id].deadline = "none"]
        /\ UNCHANGED <<next, policies, revisions, registrations, ready, moduleUse, accountUse, lastDial, orders>>

Hangup(i, id) ==
    LET d == Withdraw(calls[id], {i})
    IN  /\ Valid(i)
        /\ i \in LegIds(calls[id])
        /\ calls' = [calls EXCEPT ![id] = d]
        /\ orders' = orders \cup CleanupOrders(id, calls[id], d)
        /\ UNCHANGED <<next, policies, revisions, registrations, ready, moduleUse, accountUse, lastDial>>

-----------------------------------------------------------------------------
(* Evidence of cleanup.                                                    *)

\* finish: call id, now d, is forgotten once its module and all its legs are
\* closed, and its reservations go with it.  uses is r.accountUse before.
\* Mutant: clients gone is enough, the module may still be up.
FinishedClients(d) == LegIds(d) = {}
Finished(d) == d.moduleClosed /\ LegIds(d) = {}

Finish(id, d, uses) ==
    /\ calls' = [calls EXCEPT ![id] = IF Finished(d) THEN NoCall ELSE d]
    /\ moduleUse' = [m \in Modules |->
            IF Finished(d) /\ m = d.module /\ moduleUse[m] = id THEN 0 ELSE moduleUse[m]]
    /\ accountUse' = [a \in Accounts |->
            IF Finished(d) /\ a = d.owner /\ uses[a] = id THEN 0 ELSE uses[a]]

\* Also a spontaneous remote hangup.
ModuleClosed(id) ==
    LET c == [calls[id] EXCEPT !.moduleClosed = TRUE]
        d == End(c)
    IN  /\ Active(id)
        /\ Finish(id, d, accountUse)
        /\ orders' = (orders \cup CleanupOrders(id, c, d)) \ {Order("HangupModule", id, 0)}
        /\ UNCHANGED <<next, policies, revisions, registrations, ready, lastDial>>

\* accountUse once leg i has left call d: an account that neither owns the call
\* nor has another leg in it is free.
UseAfterLeg(id, d, a) ==
    [accountUse EXCEPT ![a] =
        IF @ = id /\ d.owner # a /\ \A j \in LegIds(d) : d.legs[j].account # a THEN 0 ELSE @]

ClientClosed(id, i) ==
    LET c == Withdraw(calls[id], {i})
        d == [c EXCEPT !.legs[i] = NoLeg]
    IN  /\ i \in LegIds(calls[id])
        /\ Finish(id, d, UseAfterLeg(id, d, c.legs[i].account))
        /\ orders' = (orders \cup CleanupOrders(id, calls[id], c)) \ {Order("TerminateClient", id, i)}
        /\ UNCHANGED <<next, policies, revisions, registrations, ready, lastDial>>

\* The deadline of call id passes.
DeadlinePasses(id) ==
    /\ calls[id].deadline = "pending"
    /\ calls' = [calls EXCEPT ![id].deadline = "passed"]
    /\ UNCHANGED <<next, policies, revisions, registrations, ready, moduleUse, accountUse, lastDial, orders>>

\* Tick: expired grants first, then calls past their deadline.
Expired == {i \in Ids : Registered(i) /\ ~ registrations[i].live}

Tick ==
    LET revoked == CallsAfterRevocation(Expired, TRUE)
        settled == [id \in Ids |-> IF TimedOut(revoked[id]) THEN End(revoked[id]) ELSE revoked[id]]
    IN  /\ Expired # {} \/ \E id \in Ids : TimedOut(calls[id])
        /\ registrations' = Dropped(Expired)
        /\ calls' = settled
        /\ orders' = orders \cup AllCleanupOrders(calls, calls')
        /\ UNCHANGED <<next, policies, revisions, ready, moduleUse, accountUse, lastDial>>

-----------------------------------------------------------------------------
(* Adapters.                                                               *)

\* ActionCurrent: may an adapter still perform order o?
ActionCurrent(o) ==
    LET c == calls[o.call]
        i == o.registration
    IN  /\ c.phase # "none"
        /\ CASE o.kind = "Ring" ->
                  c.phase = "ringing" /\ ~ TimedOut(c) /\ i \in OpenLegs(c) /\ Valid(i)
             [] o.kind \in {"DialModule", "AnswerModule"} ->
                  /\ c.phase = IF o.kind = "DialModule" THEN "dialing" ELSE "connecting"
                  /\ ~ c.moduleClosed /\ ~ TimedOut(c) /\ c.winner = i
                  /\ i \in OpenLegs(c) /\ Valid(i)
             [] o.kind = "TerminateClient" -> i \in LegIds(c) /\ c.legs[i].closing
             [] o.kind = "HangupModule" -> c.phase = "ending" /\ ~ c.moduleClosed

Next ==
    \/ \E a \in Accounts, r \in 1 .. MaxRevision, p \in Allocations :
            PutPolicy(a, [modules |-> p.modules, receive |-> p.receive, revision |-> r])
    \/ \E a \in Accounts : DeleteAccount(a) \/ SuspendAccount(a) \/ Register(a)
    \/ \E i \in Ids : ExpireRegistration(i) \/ Logout(i)
    \/ \E m \in Modules : Incoming(m) \/ \E up \in BOOLEAN : SetModuleReady(m, up)
    \/ \E i \in Ids, m \in Modules : Dial(i, m)
    \/ \E i \in Ids, id \in Ids : Answer(i, id) \/ Hangup(i, id) \/ ClientClosed(id, i)
    \/ \E id \in Ids : Connected(id) \/ ModuleClosed(id) \/ DeadlinePasses(id)
    \/ Tick

Spec == Init /\ [][Next]_vars

\* The gateway calls Tick on every refresh, deadlines pass by themselves, and an
\* adapter that was ordered to hang up or to terminate a client eventually
\* confirms it (the workers retry the hangup until it succeeds).
Fairness ==
    /\ WF_vars(Tick)
    /\ \A id \in Ids : WF_vars(DeadlinePasses(id))
    /\ \A id \in Ids : WF_vars(Order("HangupModule", id, 0) \in orders /\ ModuleClosed(id))
    /\ \A id, i \in Ids : WF_vars(Order("TerminateClient", id, i) \in orders /\ ClientClosed(id, i))

FairSpec == Spec /\ Fairness

-----------------------------------------------------------------------------
(* Properties.                                                             *)

TypeOK ==
    /\ next \in 0 .. MaxId
    /\ policies \in [Accounts -> Policy]
    /\ revisions \in [Accounts -> 0 .. MaxRevision]
    /\ registrations \in [Ids -> Registration]
    /\ ready \in [Modules -> BOOLEAN]
    /\ calls \in [Ids -> Call]
    /\ moduleUse \in [Modules -> 0 .. MaxId]
    /\ accountUse \in [Accounts -> 0 .. MaxId]
    /\ lastDial \in [Accounts -> Modules \cup {None}]
    /\ orders \subseteq Orders

\* Module reservations are exact: each active call holds its module, and a
\* reserved module belongs to an active call on that module.  So two calls never
\* share a module and no reservation outlives its call (newCall, finish).
ModuleReservation ==
    /\ \A id \in Ids : Active(id) => calls[id].module \in Modules /\ moduleUse[calls[id].module] = id
    /\ \A m \in Modules : moduleUse[m] # 0 =>
            Active(moduleUse[m]) /\ calls[moduleUse[m]].module = m

\* Account reservations are exact: every leg, closing or not, keeps its account
\* reserved for its call, and a reserved account owns the call or still has a leg
\* in it.  So an account is in at most one call and is never locked for good by a
\* call it has left (addLeg, ClientClosed, finish).
AccountReservation ==
    /\ \A id \in Ids : \A i \in LegIds(calls[id]) : accountUse[calls[id].legs[i].account] = id
    /\ \A a \in Accounts : accountUse[a] # 0 =>
            LET c == calls[accountUse[a]]
            IN  c.phase # "none" /\ (c.owner = a \/ \E i \in LegIds(c) : c.legs[i].account = a)

\* What each phase of a call means.  A call that is being set up or is up has
\* exactly one open leg, the winner's; a ringing call still has a client that can
\* answer; an ending call has no open leg and still has something to clean up.
CallShape ==
    \A id \in Ids :
        LET c == calls[id]
        IN  /\ c.phase \in {"dialing", "connecting", "connected"} =>
                    OpenLegs(c) = {c.winner} /\ c.owner = c.legs[c.winner].account /\ ~ c.moduleClosed
            /\ c.phase = "ringing" =>
                    c.winner = 0 /\ c.owner = None /\ OpenLegs(c) # {} /\ ~ c.moduleClosed
            /\ c.phase = "ending" => OpenLegs(c) = {} /\ ~ Finished(c) /\ c.deadline = "none"
            /\ c.phase = "none" => c = NoCall

\* "Established dialogs outlive registrations, but never account authorization":
\* every open leg belongs to an account whose present policy allocates it the
\* module, and lets it receive while the call still rings (PutPolicy, revoke).
Authorized ==
    \A id \in Ids : \A i \in OpenLegs(calls[id]) :
        LET p == policies[calls[id].legs[i].account]
        IN  calls[id].module \in p.modules /\ (calls[id].phase = "ringing" => p.receive)

\* Every grant that is listed was authenticated with the credentials its account
\* has now: a password change or a deletion leaves no older grant behind.
CurrentCredentials ==
    \A i \in Ids : Registered(i) =>
        LET a == registrations[i].account
        IN  HasPolicy(a) /\ registrations[i].revision = policies[a].revision

\* Cleanup is ordered exactly while it is needed.  Each closing leg has an
\* outstanding TerminateClient and each ending call whose module is up has an
\* outstanding HangupModule, however the call came to end; and no call is
\* forgotten, nor a leg dropped, while such an order is outstanding ("Router owns
\* reservations until adapters confirm cleanup").
CleanupOrdered ==
    \A id \in Ids :
        /\ \A i \in Ids : Order("TerminateClient", id, i) \in orders <=>
                i \in LegIds(calls[id]) /\ calls[id].legs[i].closing
        /\ Order("HangupModule", id, 0) \in orders <=>
                calls[id].phase = "ending" /\ ~ calls[id].moduleClosed

\* Adapters may hold orders for any length of time; those that ActionCurrent
\* still accepts never drive one module two ways: not for two calls, and not
\* both to dial or answer and to hang up.
OneCurrentOrder ==
    \A o, q \in {x \in orders : x.kind \in {"DialModule", "AnswerModule", "HangupModule"} /\ ActionCurrent(x)} :
        calls[o.call].module = calls[q.call].module => o = q

\* The first answer wins for good: once a call has a winner no step gives it
\* another, and an ending call never comes back to life (Answer, end).
NoSecondWinner ==
    [][\A id \in Ids :
        /\ calls[id].winner # 0 => calls'[id].winner \in {calls[id].winner, 0}
        /\ calls[id].winner # 0 /\ calls'[id].winner = 0 => calls'[id].phase = "none"
        /\ calls[id].phase = "ending" => calls'[id].phase \in {"ending", "none"}]_vars

\* Removing an account or changing its credentials takes effect in the same
\* step: no grant of the account and no open leg of it is left, established
\* dialogs included (revoke).
RevocationIsImmediate ==
    [][\A a \in Accounts :
        (HasPolicy(a) /\ policies'[a].revision # policies[a].revision) =>
            /\ \A i \in Ids : registrations'[i].account # a
            /\ \A id, i \in Ids : calls'[id].legs[i].account = a => calls'[id].legs[i].closing]_vars

\* "REGISTER expiry/removal changes reachability, not an established dialog":
\* losing the registration of a connected call, by logout or by expiry, never
\* ends it (revokeRegistration's keep).
DialogOutlivesRegistration ==
    [][(Tick \/ \E i \in Ids : Logout(i)) =>
        \A id \in Ids : calls[id].phase = "connected" => calls'[id].phase = "connected"]_vars

\* Every call that is ending is eventually forgotten, with its reservations.
EndingReleased == \A id \in Ids : calls[id].phase = "ending" ~> calls[id].phase = "none"

\* No call stays unanswered: it connects or is forgotten.
SetupSettles ==
    \A id \in Ids : calls[id].phase \in {"dialing", "ringing", "connecting"}
                        ~> calls[id].phase \in {"connected", "none"}

\* Whatever sequence of calls, edits and losses led here, a module and an account
\* are reserved by exactly the call that uses them: none is in two calls, and none
\* is locked for good.
ReservationsExact == TypeOK /\ ModuleReservation /\ AccountReservation

\* Every call is in the shape of its phase and exactly the cleanup it still needs is
\* ordered, along every path that ends a call or a leg of it; orders still under way
\* do not drive a module two ways.
CallsWellFormed == CallShape /\ CleanupOrdered /\ OneCurrentOrder

\* The client that won keeps its call: no later answer takes it over, and neither
\* logout nor expiry of its registration ends the dialog.
WinnerKept == NoSecondWinner /\ DialogOutlivesRegistration

\* No call hangs: it connects or is forgotten, and once it ends it is released.
CallsSettle == SetupSettles /\ EndingReleased

=============================================================================
