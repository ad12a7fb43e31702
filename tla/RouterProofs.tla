---------------------------- MODULE RouterProofs ----------------------------
(***************************************************************************)
(* Proofs about Router, for any number of accounts, modules, identifiers   *)
(* and revisions: type correctness, exact module and account reservations  *)
(* and the currency of credentials; then the calls, on top of these: the   *)
(* shape of every phase, the exactness of the ordered cleanup, the         *)
(* authorization of every open leg and the permanence of a winner.         *)
(*                                                                         *)
(* The reservations are inductive together with two facts about calls: no  *)
(* call has an identifier that was not handed out yet, and a ringing call  *)
(* has no owner.  Most operations change calls only by closing legs and    *)
(* ending; SameHold collects what such a change leaves alone.  For the     *)
(* calls themselves Tighter is that relation; the orders that closeLeg and *)
(* end return are exactly what separates the cleanup two such calls need.  *)
(***************************************************************************)
EXTENDS Router, TLAPS

Fresh == \A id \in Ids : id > next => calls[id].phase = "none"

RingingUnowned == \A id \in Ids : calls[id].phase = "ringing" => calls[id].owner = None

Reservations == Fresh /\ RingingUnowned /\ ModuleReservation /\ AccountReservation

RouterInv == TypeOK /\ Reservations /\ CurrentCredentials

\* d is the call c with some legs closed or ended: it holds the same module and accounts.
SameHold(c, d) ==
    /\ d \in Call
    /\ d.module = c.module /\ d.owner = c.owner
    /\ d.phase = "none" <=> c.phase = "none"
    /\ d.phase = "ringing" => c.phase = "ringing"
    /\ \A i \in Ids : d.legs[i].account = c.legs[i].account

-----------------------------------------------------------------------------
\* closeLeg keeps what the call holds.
LEMMA CloseLegsHold ==
    ASSUME NEW c \in Call, NEW S
    PROVE  SameHold(c, CloseLegs(c, S)) /\ CloseLegs(c, S).phase = c.phase
<1> DEFINE l == [i \in Ids |-> IF i \in S \cap LegIds(c) THEN [c.legs[i] EXCEPT !.closing = TRUE] ELSE c.legs[i]]
<1>1. \A i \in Ids : c.legs[i] \in Leg  BY DEF Call
<1>2. \A i \in Ids : l[i] \in Leg /\ l[i].account = c.legs[i].account  BY <1>1 DEF Leg
<1>3. l \in [Ids -> Leg]  BY <1>2
<1>4. CloseLegs(c, S) = [c EXCEPT !.legs = l]  BY DEF CloseLegs
<1> HIDE DEF l
<1>5. CloseLegs(c, S) \in Call  BY <1>3, <1>4 DEF Call
<1> QED  BY <1>2, <1>4, <1>5 DEF SameHold, Call

\* end keeps what the call holds.
LEMMA EndHold ==
    ASSUME NEW c \in Call
    PROVE  SameHold(c, End(c))
<1>1. CASE c.phase \in {"ending", "none"}  BY <1>1 DEF End, SameHold
<1>2. CASE c.phase \notin {"ending", "none"}
  <2> DEFINE e == CloseLegs(c, Ids)
  <2>1. SameHold(c, e) /\ e.phase = c.phase  BY CloseLegsHold
  <2>2. End(c) = [e EXCEPT !.phase = "ending", !.deadline = "none"]  BY <1>2 DEF End
  <2>3. e \in Call  BY <2>1 DEF SameHold
  <2> HIDE DEF e
  <2>4. /\ End(c).phase = "ending" /\ End(c).module = e.module /\ End(c).owner = e.owner /\ End(c).legs = e.legs
        /\ End(c) \in Call
    BY <2>2, <2>3 DEF Call, Phases
  <2> QED  BY <1>2, <2>1, <2>4 DEF SameHold
<1> QED  BY <1>1, <1>2

\* withdraw keeps what the call holds.
LEMMA WithdrawHold ==
    ASSUME NEW c \in Call, NEW S
    PROVE  SameHold(c, Withdraw(c, S))
<1> DEFINE d == CloseLegs(c, S)
<1>1. SameHold(c, d)  BY CloseLegsHold
<1>2. SameHold(c, End(c))  BY EndHold
<1>3. d \in Call  BY <1>1 DEF SameHold
<1>4. SameHold(d, End(d))  BY <1>3, EndHold
<1>5. SameHold(c, End(d))  BY <1>1, <1>4 DEF SameHold
<1>6. Withdraw(c, S) \in {End(c), End(d), d}  BY DEF Withdraw
<1> HIDE DEF d
<1> QED  BY <1>1, <1>2, <1>5, <1>6

\* The cleanup orders are orders.
LEMMA CleanupOrdersType ==
    ASSUME NEW id \in Ids, NEW c, NEW d
    PROVE  CleanupOrders(id, c, d) \subseteq Orders
<1>1. 0 \in 0 .. MaxId /\ Ids \subseteq 0 .. MaxId  BY RouterConstants DEF Ids
<1>2. OpenLegs(c) \subseteq Ids  BY DEF OpenLegs, LegIds
<1>3. \A k \in {"Ring", "DialModule", "AnswerModule", "TerminateClient", "HangupModule"}, i \in 0 .. MaxId :
        Order(k, id, i) \in Orders
  BY DEF Order, Orders
<1> QED  BY <1>1, <1>2, <1>3 DEF CleanupOrders

\* The cleanup of every call is a set of orders.
LEMMA AllCleanupOrdersType ==
    ASSUME NEW before, NEW after
    PROVE  AllCleanupOrders(before, after) \subseteq Orders
BY CleanupOrdersType DEF AllCleanupOrders

-----------------------------------------------------------------------------
(* Operations that only close legs or end calls.                           *)

Settled ==
    /\ calls' \in [Ids -> Call]
    /\ \A id \in Ids : SameHold(calls[id], calls'[id])
    /\ UNCHANGED <<next, moduleUse, accountUse>>

\* Such an operation keeps the reservations.
LEMMA SettledReservations ==
    ASSUME TypeOK, Reservations, Settled
    PROVE  Reservations'
<1> USE DEF Settled
<1>1. Fresh'  BY DEF Reservations, Fresh, SameHold
<1>2. RingingUnowned'  BY DEF Reservations, RingingUnowned, SameHold
<1>3. ModuleReservation'
  <2>1. \A m \in Modules : moduleUse[m] # 0 => moduleUse[m] \in Ids  BY RouterConstants DEF TypeOK, Ids
  <2> QED  BY <2>1 DEF Reservations, ModuleReservation, SameHold, Active
<1>4. AccountReservation'
  <2>1. \A a \in Accounts : accountUse[a] # 0 => accountUse[a] \in Ids  BY RouterConstants DEF TypeOK, Ids
  <2>2. \A id \in Ids : \A i \in LegIds(calls'[id]) : accountUse'[calls'[id].legs[i].account] = id
    BY DEF Reservations, AccountReservation, SameHold, LegIds
  <2>3. ASSUME NEW a \in Accounts, accountUse'[a] # 0
        PROVE  LET c == calls'[accountUse'[a]]
               IN  c.phase # "none" /\ (c.owner = a \/ \E i \in LegIds(c) : c.legs[i].account = a)
    BY <2>1, <2>3 DEF Reservations, AccountReservation, SameHold, LegIds
  <2> QED  BY <2>2, <2>3 DEF AccountReservation
<1> QED  BY <1>1, <1>2, <1>3, <1>4 DEF Reservations

\* Revoking an account's grants and legs only closes legs and ends calls.
LEMMA RevokeSettles ==
    ASSUME TypeOK, NEW a \in Accounts
    PROVE  /\ CallsAfterRevoke(a) \in [Ids -> Call]
           /\ \A id \in Ids : SameHold(calls[id], CallsAfterRevoke(a)[id])
<1>1. \A id \in Ids : calls[id] \in Call  BY DEF TypeOK
<1>2. \A id \in Ids : SameHold(calls[id], CallsAfterRevoke(a)[id])
  BY <1>1, WithdrawHold DEF CallsAfterRevoke
<1> QED  BY <1>2 DEF CallsAfterRevoke, SameHold

\* So does revoking a set of grants.
LEMMA RevocationSettles ==
    ASSUME TypeOK, NEW S, NEW keep
    PROVE  /\ CallsAfterRevocation(S, keep) \in [Ids -> Call]
           /\ \A id \in Ids : SameHold(calls[id], CallsAfterRevocation(S, keep)[id])
<1>1. \A id \in Ids : calls[id] \in Call  BY DEF TypeOK
<1>2. \A id \in Ids : SameHold(calls[id], CallsAfterRevocation(S, keep)[id])
  BY <1>1, WithdrawHold DEF CallsAfterRevocation
<1> QED  BY <1>2 DEF CallsAfterRevocation, SameHold

\* A changed policy, which may first revoke the account.
LEMMA PutPolicySettles ==
    ASSUME TypeOK, NEW a \in Accounts, NEW p, PutPolicy(a, p)
    PROVE  Settled
<1> DEFINE revoked == IF HasPolicy(a) /\ policies[a].revision # p.revision THEN CallsAfterRevoke(a) ELSE calls
           settled == [id \in Ids |-> Withdraw(revoked[id], Disallowed(revoked[id], id, a, p))]
<1>1. calls \in [Ids -> Call] /\ \A id \in Ids : SameHold(calls[id], calls[id])  BY DEF TypeOK, SameHold
<1>2. revoked \in [Ids -> Call] /\ \A id \in Ids : SameHold(calls[id], revoked[id])  BY <1>1, RevokeSettles
<1>3. calls' = settled /\ UNCHANGED <<next, moduleUse, accountUse>>  BY DEF PutPolicy
<1> HIDE DEF revoked
<1>4. \A id \in Ids : SameHold(revoked[id], settled[id])  BY <1>2, WithdrawHold
<1>5. \A id \in Ids : SameHold(calls[id], settled[id])  BY <1>2, <1>4 DEF SameHold
<1>6. settled \in [Ids -> Call]  BY <1>5 DEF SameHold
<1> QED  BY <1>3, <1>5, <1>6 DEF Settled

\* Deleting and suspending an account.
LEMMA RevokeStepSettles ==
    ASSUME TypeOK, NEW a \in Accounts, DeleteAccount(a) \/ SuspendAccount(a)
    PROVE  Settled
BY RevokeSettles DEF DeleteAccount, SuspendAccount, Revoke, Settled

\* A logout.
LEMMA LogoutSettles ==
    ASSUME TypeOK, NEW i \in Ids, Logout(i)
    PROVE  Settled
BY RevocationSettles DEF Logout, Settled

\* A module that becomes ready or is lost.
LEMMA ReadySettles ==
    ASSUME TypeOK, NEW m \in Modules, NEW up \in BOOLEAN, SetModuleReady(m, up)
    PROVE  Settled
<1>1. calls \in [Ids -> Call] /\ \A id \in Ids : SameHold(calls[id], calls[id])  BY DEF TypeOK, SameHold
<1>2. \A id \in Ids : SameHold(calls[id], End(calls[id]))  BY <1>1, EndHold
<1>3. \A id \in Ids : SameHold(calls[id], calls'[id])  BY <1>1, <1>2 DEF SetModuleReady
<1>4. DOMAIN calls' = Ids /\ calls' = [id \in Ids |-> calls'[id]]  BY <1>1 DEF SetModuleReady
<1>5. calls' \in [Ids -> Call]  BY <1>3, <1>4 DEF SameHold
<1> QED  BY <1>3, <1>5 DEF Settled, SetModuleReady

\* A step that changes one call, and that one only so: Connected, Hangup, a passing deadline.
LEMMA OneCallSettles ==
    ASSUME TypeOK, NEW id \in Ids, NEW d, SameHold(calls[id], d), calls' = [calls EXCEPT ![id] = d],
           UNCHANGED <<next, moduleUse, accountUse>>
    PROVE  Settled
BY DEF TypeOK, Settled, SameHold

\* The periodic sweep.
LEMMA TickSettles ==
    ASSUME TypeOK, Tick
    PROVE  Settled
<1> DEFINE revoked == CallsAfterRevocation(Expired, TRUE)
           settled == [id \in Ids |-> IF TimedOut(revoked[id]) THEN End(revoked[id]) ELSE revoked[id]]
<1>1. revoked \in [Ids -> Call] /\ \A id \in Ids : SameHold(calls[id], revoked[id])  BY RevocationSettles
<1>2. calls' = settled /\ UNCHANGED <<next, moduleUse, accountUse>>  BY DEF Tick
<1> HIDE DEF revoked
<1>3. \A id \in Ids : SameHold(revoked[id], End(revoked[id]))  BY <1>1, EndHold
<1>4. \A id \in Ids : SameHold(calls[id], settled[id])  BY <1>1, <1>3 DEF SameHold
<1>5. settled \in [Ids -> Call]  BY <1>4 DEF SameHold
<1> QED  BY <1>2, <1>4, <1>5 DEF Settled

\* Connected, Hangup and the passing of a deadline.
LEMMA CallStepSettles ==
    ASSUME TypeOK, NEW id \in Ids, NEW i \in Ids, Connected(id) \/ Hangup(i, id) \/ DeadlinePasses(id)
    PROVE  Settled
<1>1. calls[id] \in Call  BY DEF TypeOK
<1>2. CASE Connected(id)
  <2> DEFINE d == [calls[id] EXCEPT !.phase = "connected", !.deadline = "none"]
  <2>1. SameHold(calls[id], d)  BY <1>1, <1>2 DEF Connected, SameHold, Call, Phases
  <2>2. calls' = [calls EXCEPT ![id] = d]  BY <1>2 DEF Connected
  <2> QED  BY <1>2, <2>1, <2>2, OneCallSettles DEF Connected
<1>3. CASE Hangup(i, id)
  BY <1>1, <1>3, WithdrawHold, OneCallSettles DEF Hangup
<1>4. CASE DeadlinePasses(id)
  <2> DEFINE d == [calls[id] EXCEPT !.deadline = "passed"]
  <2>1. SameHold(calls[id], d)  BY <1>1 DEF SameHold, Call
  <2>2. calls' = [calls EXCEPT ![id] = d]  BY <1>4 DEF DeadlinePasses
  <2> QED  BY <1>4, <2>1, <2>2, OneCallSettles DEF DeadlinePasses
<1> QED  BY <1>2, <1>3, <1>4

-----------------------------------------------------------------------------
(* A new call.                                                             *)

\* The call that Dial or Incoming creates: c on module m takes the accounts in A, which were free.
LEMMA NewCallReserves ==
    ASSUME TypeOK, Reservations, NEW m \in Modules, NEW c \in Call, NEW A \in SUBSET Accounts,
           next + 1 \in Ids, next' = next + 1, moduleUse[m] = 0, \A a \in A : accountUse[a] = 0,
           c.module = m, c.phase \in {"dialing", "ringing"}, c.phase = "ringing" => c.owner = None,
           \A i \in LegIds(c) : c.legs[i].account \in A,
           \A a \in A : \E i \in LegIds(c) : c.legs[i].account = a,
           calls' = [calls EXCEPT ![next + 1] = c],
           moduleUse' = [moduleUse EXCEPT ![m] = next + 1],
           accountUse' = [a \in Accounts |-> IF a \in A THEN next + 1 ELSE accountUse[a]]
    PROVE  Reservations'
<1> DEFINE new == next + 1
<1>0. next \in Nat /\ new \in Nat /\ new # 0 /\ new > next  BY RouterConstants DEF TypeOK
<1>1. calls \in [Ids -> Call] /\ calls[new].phase = "none"
  BY <1>0 DEF TypeOK, Reservations, Fresh
<1>2. calls'[new] = c /\ \A id \in Ids \ {new} : calls'[id] = calls[id]  BY <1>1
<1>3. Fresh'  BY <1>0, <1>1, <1>2, RouterConstants DEF Reservations, Fresh, Ids
<1>4. RingingUnowned'  BY <1>1, <1>2 DEF Reservations, RingingUnowned
<1>5. ModuleReservation'
  <2>1. moduleUse \in [Modules -> 0 .. MaxId]  BY DEF TypeOK
  <2>2. \A k \in Modules : moduleUse[k] # new  BY <1>0, <1>1 DEF Reservations, ModuleReservation, Active
  <2>3. \A k \in Modules : moduleUse[k] # 0 => moduleUse[k] \in Ids  BY <2>1, RouterConstants DEF Ids
  <2>4. ASSUME NEW id \in Ids, calls'[id].phase # "none"
        PROVE  calls'[id].module \in Modules /\ moduleUse'[calls'[id].module] = id
    <3>1. CASE id = new  BY <1>2, <2>1, <3>1
    <3>2. CASE id # new
      <4>1. calls[id].module \in Modules /\ moduleUse[calls[id].module] = id
        BY <1>2, <2>4, <3>2 DEF Reservations, ModuleReservation, Active
      <4>2. id # 0  BY RouterConstants DEF Ids
      <4> QED  BY <1>2, <2>1, <3>2, <4>1, <4>2
    <3> QED  BY <3>1, <3>2
  <2>5. ASSUME NEW k \in Modules, moduleUse'[k] # 0
        PROVE  calls'[moduleUse'[k]].phase # "none" /\ calls'[moduleUse'[k]].module = k
    <3>1. CASE k = m  BY <1>2, <2>1, <3>1
    <3>2. CASE k # m
      <4>1. moduleUse'[k] = moduleUse[k]  BY <2>1, <3>2
      <4>2. calls[moduleUse[k]].phase # "none" /\ calls[moduleUse[k]].module = k
        BY <2>5, <4>1 DEF Reservations, ModuleReservation, Active
      <4> QED  BY <1>2, <2>2, <2>3, <2>5, <4>1, <4>2
    <3> QED  BY <3>1, <3>2
  <2> QED  BY <2>4, <2>5 DEF ModuleReservation, Active
<1>6. AccountReservation'
  <2>1. accountUse \in [Accounts -> 0 .. MaxId]  BY DEF TypeOK
  <2>2. \A a \in Accounts : accountUse[a] # new  BY <1>0, <1>1 DEF Reservations, AccountReservation
  <2>3. \A a \in Accounts : accountUse[a] # 0 => accountUse[a] \in Ids  BY <2>1, RouterConstants DEF Ids
  <2>4. ASSUME NEW id \in Ids, NEW i \in LegIds(calls'[id])
        PROVE  accountUse'[calls'[id].legs[i].account] = id
    <3>1. CASE id = new  BY <1>2, <2>4, <3>1
    <3>2. CASE id # new
      <4> DEFINE a == calls[id].legs[i].account
      <4>1. calls'[id] = calls[id] /\ i \in LegIds(calls[id])  BY <1>2, <2>4, <3>2
      <4>2. a \in Accounts  BY <1>1, <4>1 DEF LegIds, Call, Leg
      <4>3. accountUse[a] = id /\ id # 0  BY <4>1, RouterConstants DEF Reservations, AccountReservation, Ids
      <4> QED  BY <4>1, <4>2, <4>3
    <3> QED  BY <3>1, <3>2
  <2>5. ASSUME NEW a \in Accounts, accountUse'[a] # 0
        PROVE  LET d == calls'[accountUse'[a]]
               IN  d.phase # "none" /\ (d.owner = a \/ \E i \in LegIds(d) : d.legs[i].account = a)
    <3>1. CASE a \in A  BY <1>2, <3>1
    <3>2. CASE a \notin A
      <4>1. accountUse'[a] = accountUse[a]  BY <3>2
      <4>2. accountUse[a] \in Ids \ {new}  BY <2>2, <2>3, <2>5, <4>1
      <4>3. calls'[accountUse[a]] = calls[accountUse[a]]  BY <1>2, <4>2
      <4> QED  BY <2>5, <4>1, <4>3 DEF Reservations, AccountReservation
    <3> QED  BY <3>1, <3>2
  <2> QED  BY <2>4, <2>5 DEF AccountReservation
<1> QED  BY <1>3, <1>4, <1>5, <1>6 DEF Reservations

\* The call Dial creates is a call, and its only leg is the dialling client's.
LEMMA DialReserves ==
    ASSUME TypeOK, Reservations, NEW i \in Ids, NEW m \in Modules, Dial(i, m)
    PROVE  calls' \in [Ids -> Call] /\ Reservations'
<1> DEFINE a == registrations[i].account
           l == [j \in Ids |-> IF j = i THEN [account |-> a, closing |-> FALSE] ELSE NoLeg]
           c == [module |-> m, phase |-> "dialing", winner |-> i, deadline |-> "pending",
                 legs |-> l, moduleClosed |-> FALSE, owner |-> a]
<1>1. a \in Accounts  BY DEF Dial, Valid, Registered, TypeOK, Registration
<1>2. next \in 0 .. MaxId /\ next < MaxId /\ next + 1 \in Ids  BY RouterConstants DEF TypeOK, Dial, Ids
<1>3. accountUse \in [Accounts -> 0 .. MaxId] /\ accountUse[a] = 0 /\ moduleUse[m] = 0
  BY DEF Dial, DialChoices, Eligible, TypeOK
<1>4. l \in [Ids -> Leg] /\ LegIds(c) = {i} /\ l[i].account = a
  BY <1>1, RouterConstants DEF Leg, NoLeg, LegIds
<1>5. i \in 0 .. MaxId  BY RouterConstants DEF Ids
<1>6. c \in Call  BY <1>1, <1>4, <1>5 DEF Call, Phases
<1>7. calls' = [calls EXCEPT ![next + 1] = c] /\ next' = next + 1
      /\ moduleUse' = [moduleUse EXCEPT ![m] = next + 1]
  BY DEF Dial
<1>8. accountUse' = [b \in Accounts |-> IF b \in {a} THEN next + 1 ELSE accountUse[b]]
  BY <1>1, <1>3 DEF Dial
<1>9. c.module = m /\ c.legs = l /\ c.phase \in {"dialing", "ringing"} /\ (c.phase = "ringing" => c.owner = None)
  OBVIOUS
<1> HIDE DEF c, l, a
<1> DEFINE A == {a}
<1>10. A \in SUBSET Accounts /\ (\A b \in A : accountUse[b] = 0)
       /\ accountUse' = [b \in Accounts |-> IF b \in A THEN next + 1 ELSE accountUse[b]]
  BY <1>1, <1>3, <1>8
<1>11. (\A k \in LegIds(c) : c.legs[k].account \in A) /\ (\A b \in A : \E k \in LegIds(c) : c.legs[k].account = b)
  BY <1>4, <1>9
<1> HIDE DEF A
<1>12. Reservations'
  BY <1>2, <1>3, <1>6, <1>7, <1>9, <1>10, <1>11, NewCallReserves
<1>13. calls' \in [Ids -> Call]  BY <1>6, <1>7 DEF TypeOK
<1> QED  BY <1>12, <1>13

\* The call Incoming creates is a call that rings its targets.
LEMMA IncomingReserves ==
    ASSUME TypeOK, Reservations, NEW m \in Modules, Incoming(m)
    PROVE  calls' \in [Ids -> Call] /\ accountUse' \in [Accounts -> 0 .. MaxId] /\ Reservations'
<1> DEFINE l == [j \in Ids |-> IF j \in Targets(m) THEN [account |-> registrations[j].account, closing |-> FALSE] ELSE NoLeg]
           c == [module |-> m, phase |-> "ringing", winner |-> 0, deadline |-> "pending",
                 legs |-> l, moduleClosed |-> FALSE, owner |-> None]
           A == {registrations[j].account : j \in Targets(m)}
<1>1. \A j \in Targets(m) : j \in Ids /\ registrations[j].account \in Accounts /\ accountUse[registrations[j].account] = 0
  BY DEF Targets, Valid, Registered, TypeOK, Registration
<1>2. next \in 0 .. MaxId /\ next < MaxId /\ next + 1 \in Ids /\ next + 1 \in 0 .. MaxId
  BY RouterConstants DEF TypeOK, Incoming, Ids
<1>3. l \in [Ids -> Leg] /\ LegIds(c) = Targets(m) /\ \A j \in Targets(m) : l[j].account = registrations[j].account
  BY <1>1, RouterConstants DEF Leg, NoLeg, LegIds
<1>4. c \in Call  BY <1>3, RouterConstants DEF Call, Phases
<1>5. calls' = [calls EXCEPT ![next + 1] = c] /\ next' = next + 1 /\ moduleUse[m] = 0
      /\ moduleUse' = [moduleUse EXCEPT ![m] = next + 1]
  BY DEF Incoming
<1>6. accountUse' = [a \in Accounts |-> IF \E j \in Targets(m) : registrations[j].account = a THEN next + 1 ELSE accountUse[a]]
  BY DEF Incoming
<1>7. accountUse' = [a \in Accounts |-> IF a \in A THEN next + 1 ELSE accountUse[a]]  BY <1>6
<1>8. c.module = m /\ c.phase = "ringing" /\ c.owner = None /\ c.legs = l  OBVIOUS
<1>9. A \in SUBSET Accounts /\ \A a \in A : accountUse[a] = 0  BY <1>1
<1>10. (\A k \in LegIds(c) : c.legs[k].account \in A) /\ (\A a \in A : \E k \in LegIds(c) : c.legs[k].account = a)
  BY <1>3, <1>8
<1> HIDE DEF c, l, A
<1>11. Reservations'
  BY <1>2, <1>4, <1>5, <1>7, <1>8, <1>9, <1>10, NewCallReserves
<1>12. calls' \in [Ids -> Call]  BY <1>4, <1>5 DEF TypeOK
<1>13. accountUse' \in [Accounts -> 0 .. MaxId]  BY <1>2, <1>7 DEF TypeOK
<1> QED  BY <1>11, <1>12, <1>13

-----------------------------------------------------------------------------
(* Answering: the call gets an owner.                                      *)

\* The answer gives a ringing call, which no account owns, to the winner's account.
LEMMA AnswerReserves ==
    ASSUME TypeOK, Reservations, NEW i \in Ids, NEW id \in Ids, Answer(i, id)
    PROVE  calls' \in [Ids -> Call] /\ Reservations'
<1> DEFINE c == calls[id]
           e == CloseLegs(c, Ids \ {i})
           won == [e EXCEPT !.phase = "connecting", !.winner = i, !.deadline = "pending", !.owner = registrations[i].account]
<1>1. c \in Call /\ c.phase = "ringing" /\ c.owner = None  BY DEF TypeOK, Answer, Reservations, RingingUnowned
<1>2. CASE TimedOut(c)
  <2>1. calls' = [calls EXCEPT ![id] = End(c)]  BY <1>2 DEF Answer
  <2>2. Settled  BY <1>1, <2>1, EndHold, OneCallSettles DEF Answer
  <2> QED  BY <2>2, SettledReservations DEF Settled
<1>3. CASE ~ TimedOut(c)
  <2>1. calls' = [calls EXCEPT ![id] = won] /\ UNCHANGED <<next, moduleUse, accountUse>>  BY <1>3 DEF Answer
  <2>2. SameHold(c, e) /\ e \in Call  BY <1>1, CloseLegsHold DEF SameHold
  <2>3. registrations[i].account \in Accounts /\ i \in 0 .. MaxId
    BY RouterConstants DEF Answer, Valid, Registered, TypeOK, Registration, Ids
  <2>4. /\ won \in Call /\ won.module = c.module /\ won.phase = "connecting"
        /\ won.legs = e.legs
    <3> HIDE DEF e
    <3> QED  BY <2>2, <2>3 DEF Call, Phases, SameHold
  <2>5. \A k \in Ids : won.legs[k].account = c.legs[k].account  BY <2>2, <2>4 DEF SameHold
  <2> HIDE DEF won, e
  <2>6. calls \in [Ids -> Call]  BY DEF TypeOK
  <2>7. calls'[id] = won /\ \A k \in Ids \ {id} : calls'[k] = calls[k]  BY <2>1, <2>6
  <2>8. calls' \in [Ids -> Call]  BY <2>1, <2>4, <2>6
  <2>9. Fresh'  BY <1>1, <2>1, <2>7 DEF Reservations, Fresh
  <2>10. RingingUnowned'  BY <2>4, <2>7 DEF Reservations, RingingUnowned
  <2>11. ModuleReservation'
    <3>1. \A m \in Modules : moduleUse[m] # 0 => moduleUse[m] \in Ids  BY RouterConstants DEF TypeOK, Ids
    <3> QED  BY <1>1, <2>1, <2>4, <2>7, <3>1 DEF Reservations, ModuleReservation, Active
  <2>12. AccountReservation'
    <3>1. \A a \in Accounts : accountUse[a] # 0 => accountUse[a] \in Ids  BY RouterConstants DEF TypeOK, Ids
    <3>2. \A k \in Ids : \A j \in LegIds(calls'[k]) : accountUse'[calls'[k].legs[j].account] = k
      BY <2>1, <2>5, <2>7 DEF Reservations, AccountReservation, LegIds
    <3>3. ASSUME NEW a \in Accounts, accountUse'[a] # 0
          PROVE  LET d == calls'[accountUse'[a]]
                 IN  d.phase # "none" /\ (d.owner = a \/ \E j \in LegIds(d) : d.legs[j].account = a)
      <4>1. accountUse'[a] = accountUse[a] /\ accountUse[a] \in Ids  BY <2>1, <3>1, <3>3
      <4>2. CASE accountUse[a] # id  BY <2>7, <3>3, <4>1, <4>2 DEF Reservations, AccountReservation
      <4>3. CASE accountUse[a] = id
        <5>1. a # None  BY RouterConstants
        <5>2. \E j \in LegIds(c) : c.legs[j].account = a
          BY <1>1, <3>3, <4>1, <4>3, <5>1 DEF Reservations, AccountReservation
        <5>3. \E j \in LegIds(won) : won.legs[j].account = a  BY <2>5, <5>2 DEF LegIds
        <5> QED  BY <2>4, <2>7, <4>1, <4>3, <5>3
      <4> QED  BY <4>2, <4>3
    <3> QED  BY <3>2, <3>3 DEF AccountReservation
  <2> QED  BY <2>8, <2>9, <2>10, <2>11, <2>12 DEF Reservations
<1> QED  BY <1>2, <1>3

-----------------------------------------------------------------------------
(* Finishing: a call is forgotten with its reservations.                   *)

\* finish keeps the reservations of a call that is not finished and drops all of one that is.
LEMMA FinishReserves ==
    ASSUME TypeOK, Reservations, NEW id \in Ids, NEW d \in Call, NEW uses \in [Accounts -> 0 .. MaxId],
           Active(id), Finish(id, d, uses), UNCHANGED next,
           d.module = calls[id].module, d.phase # "none", d.phase = "ringing" => d.owner = None,
           \A i \in LegIds(d) : uses[d.legs[i].account] = id,
           \A a \in Accounts : uses[a] = id => d.owner = a \/ \E i \in LegIds(d) : d.legs[i].account = a,
           \A a \in Accounts : uses[a] = accountUse[a] \/ (accountUse[a] = id /\ uses[a] = 0)
    PROVE  /\ calls' \in [Ids -> Call] /\ moduleUse' \in [Modules -> 0 .. MaxId]
           /\ accountUse' \in [Accounts -> 0 .. MaxId] /\ Reservations'
<1>1. calls \in [Ids -> Call] /\ moduleUse \in [Modules -> 0 .. MaxId] /\ accountUse \in [Accounts -> 0 .. MaxId]
      /\ 0 \in 0 .. MaxId /\ 0 \notin Ids /\ \A k \in 0 .. MaxId : k # 0 => k \in Ids
  BY RouterConstants DEF TypeOK, Ids
<1>2. NoCall \in Call /\ NoCall.phase = "none" /\ LegIds(NoCall) = {}
  <2>1. NoLeg \in Leg /\ NoLeg.account = None  BY DEF Leg, NoLeg
  <2>2. [j \in Ids |-> NoLeg] \in [Ids -> Leg]  BY <2>1
  <2> QED  BY <1>1, <2>1, <2>2 DEF NoCall, Call, LegIds
<1>3. calls'[id] = (IF Finished(d) THEN NoCall ELSE d) /\ \A k \in Ids \ {id} : calls'[k] = calls[k]
  BY <1>1 DEF Finish
<1>4. calls' \in [Ids -> Call]  BY <1>1, <1>2 DEF Finish
<1>5. moduleUse' = [m \in Modules |-> IF Finished(d) /\ m = d.module /\ moduleUse[m] = id THEN 0 ELSE moduleUse[m]]
      /\ accountUse' = [a \in Accounts |-> IF Finished(d) /\ a = d.owner /\ uses[a] = id THEN 0 ELSE uses[a]]
  BY DEF Finish
<1>6. moduleUse' \in [Modules -> 0 .. MaxId] /\ accountUse' \in [Accounts -> 0 .. MaxId]  BY <1>1, <1>5
<1>7. Fresh'
  <2>1. ~ (id > next)  BY DEF Reservations, Fresh, Active
  <2> QED  BY <1>3, <2>1 DEF Reservations, Fresh
<1>8. RingingUnowned'  BY <1>2, <1>3 DEF Reservations, RingingUnowned
<1>9. ModuleReservation'
  <2>1. d.module \in Modules /\ moduleUse[d.module] = id  BY DEF Reservations, ModuleReservation, Active
  <2>2. ASSUME NEW k \in Ids, calls'[k].phase # "none"
        PROVE  calls'[k].module \in Modules /\ moduleUse'[calls'[k].module] = k
    <3>1. CASE k = id  BY <1>2, <1>3, <1>5, <2>1, <2>2, <3>1
    <3>2. CASE k # id
      <4>1. calls[k].module \in Modules /\ moduleUse[calls[k].module] = k
        BY <1>3, <2>2, <3>2 DEF Reservations, ModuleReservation, Active
      <4> QED  BY <1>3, <1>5, <3>2, <4>1
    <3> QED  BY <3>1, <3>2
  <2>3. ASSUME NEW m \in Modules, moduleUse'[m] # 0
        PROVE  calls'[moduleUse'[m]].phase # "none" /\ calls'[moduleUse'[m]].module = m
    <3>1. moduleUse'[m] = moduleUse[m] /\ moduleUse[m] \in Ids  BY <1>1, <1>5, <2>3
    <3>2. calls[moduleUse[m]].phase # "none" /\ calls[moduleUse[m]].module = m
      BY <2>3, <3>1 DEF Reservations, ModuleReservation, Active
    <3>3. CASE moduleUse[m] = id
      <4>1. ~ Finished(d)  BY <1>5, <2>3, <3>2, <3>3
      <4> QED  BY <1>3, <3>1, <3>2, <3>3, <4>1
    <3>4. CASE moduleUse[m] # id  BY <1>3, <3>1, <3>2, <3>4
    <3> QED  BY <3>3, <3>4
  <2> QED  BY <2>2, <2>3 DEF ModuleReservation, Active
<1>10. AccountReservation'
  <2>1. ASSUME NEW k \in Ids, NEW i \in LegIds(calls'[k])
        PROVE  accountUse'[calls'[k].legs[i].account] = k
    <3>1. CASE k = id
      <4>1. ~ Finished(d) /\ calls'[k] = d  BY <1>2, <1>3, <2>1, <3>1
      <4>2. d.legs[i].account \in Accounts  BY <2>1, <4>1 DEF LegIds, Call, Leg
      <4> QED  BY <1>5, <2>1, <3>1, <4>1, <4>2
    <3>2. CASE k # id
      <4> DEFINE a == calls[k].legs[i].account
      <4>1. calls'[k] = calls[k] /\ i \in LegIds(calls[k])  BY <1>3, <2>1, <3>2
      <4>2. a \in Accounts  BY <1>1, <4>1 DEF LegIds, Call, Leg
      <4>3. accountUse[a] = k  BY <4>1 DEF Reservations, AccountReservation
      <4>4. uses[a] = k  BY <3>2, <4>2, <4>3
      <4> QED  BY <1>5, <3>2, <4>1, <4>2, <4>4
    <3> QED  BY <3>1, <3>2
  <2>2. ASSUME NEW a \in Accounts, accountUse'[a] # 0
        PROVE  LET c == calls'[accountUse'[a]]
               IN  c.phase # "none" /\ (c.owner = a \/ \E i \in LegIds(c) : c.legs[i].account = a)
    <3>1. accountUse'[a] = uses[a] /\ uses[a] \in Ids /\ uses[a] # 0  BY <1>1, <1>5, <2>2
    <3>2. CASE uses[a] = id
      <4>1. d.owner = a \/ \E i \in LegIds(d) : d.legs[i].account = a  BY <3>2
      <4>2. ~ Finished(d)  BY <1>5, <2>2, <3>2, <4>1 DEF Finished
      <4> QED  BY <1>3, <3>1, <3>2, <4>1, <4>2
    <3>3. CASE uses[a] # id
      <4>1. uses[a] = accountUse[a]  BY <3>1
      <4>2. calls'[uses[a]] = calls[uses[a]]  BY <1>3, <3>1, <3>3
      <4> QED  BY <3>1, <4>1, <4>2 DEF Reservations, AccountReservation
    <3> QED  BY <3>2, <3>3
  <2> QED  BY <2>1, <2>2 DEF AccountReservation
<1> QED  BY <1>4, <1>6, <1>7, <1>8, <1>9, <1>10 DEF Reservations

\* The module is down: the call ends and keeps its accounts until its clients are gone.
LEMMA ModuleClosedReserves ==
    ASSUME TypeOK, Reservations, NEW id \in Ids, ModuleClosed(id)
    PROVE  /\ calls' \in [Ids -> Call] /\ moduleUse' \in [Modules -> 0 .. MaxId]
           /\ accountUse' \in [Accounts -> 0 .. MaxId] /\ Reservations'
<1> DEFINE c == [calls[id] EXCEPT !.moduleClosed = TRUE]
           d == End(c)
<1>1. calls[id] \in Call /\ accountUse \in [Accounts -> 0 .. MaxId] /\ 0 \notin Ids
  BY RouterConstants DEF TypeOK, Ids
<1>2. c \in Call /\ SameHold(calls[id], c)  BY <1>1 DEF Call, SameHold
<1>3. Active(id) /\ Finish(id, d, accountUse) /\ UNCHANGED next  BY DEF ModuleClosed
<1> HIDE DEF c
<1>4. SameHold(c, d)  BY <1>2, EndHold
<1>5. SameHold(calls[id], d)  BY <1>2, <1>4 DEF SameHold
<1> HIDE DEF d
<1>6. /\ d \in Call /\ d.module = calls[id].module /\ d.phase # "none"
      /\ d.phase = "ringing" => d.owner = None
  BY <1>3, <1>5 DEF SameHold, Active, Reservations, RingingUnowned
<1>7. \A j \in LegIds(d) : accountUse[d.legs[j].account] = id
  BY <1>5 DEF SameHold, LegIds, Reservations, AccountReservation
<1>8. \A a \in Accounts : accountUse[a] = id => d.owner = a \/ \E j \in LegIds(d) : d.legs[j].account = a
  BY <1>1, <1>5 DEF SameHold, LegIds, Reservations, AccountReservation
<1> QED  BY <1>1, <1>3, <1>6, <1>7, <1>8, FinishReserves

\* A client is gone: its account is free unless it owns the call or has another leg in it.
LEMMA ClientClosedReserves ==
    ASSUME TypeOK, Reservations, NEW id \in Ids, NEW i \in Ids, ClientClosed(id, i)
    PROVE  /\ calls' \in [Ids -> Call] /\ moduleUse' \in [Modules -> 0 .. MaxId]
           /\ accountUse' \in [Accounts -> 0 .. MaxId] /\ Reservations'
<1> DEFINE c == Withdraw(calls[id], {i})
           d == [c EXCEPT !.legs[i] = NoLeg]
           gone == c.legs[i].account
           uses == UseAfterLeg(id, d, gone)
<1>1. calls[id] \in Call /\ accountUse \in [Accounts -> 0 .. MaxId] /\ 0 \notin Ids /\ 0 \in 0 .. MaxId
  BY RouterConstants DEF TypeOK, Ids
<1>2. SameHold(calls[id], c)  BY <1>1, WithdrawHold
<1>3. i \in LegIds(calls[id]) /\ Finish(id, d, uses) /\ UNCHANGED next  BY DEF ClientClosed
<1>4. calls[id].legs[i].account \in Accounts /\ accountUse[calls[id].legs[i].account] = id
  BY <1>1, <1>3 DEF LegIds, Call, Leg, Reservations, AccountReservation
<1>5. gone \in Accounts /\ accountUse[gone] = id  BY <1>2, <1>4 DEF SameHold
<1>6. Active(id)  BY <1>1, <1>5 DEF Reservations, AccountReservation, Active
<1>7. uses = [accountUse EXCEPT ![gone] = IF @ = id /\ d.owner # gone /\ \A j \in LegIds(d) : d.legs[j].account # gone
                                          THEN 0 ELSE @]
  BY DEF UseAfterLeg
<1>8. c \in Call  BY <1>2 DEF SameHold
<1> HIDE DEF c
<1>9. /\ d \in Call /\ d.module = c.module /\ d.phase = c.phase /\ d.owner = c.owner
      /\ d.legs = [c.legs EXCEPT ![i] = NoLeg]
  BY <1>8 DEF Call, Leg, NoLeg
<1>10. c.legs \in [Ids -> Leg]  BY <1>8 DEF Call
<1>11. LegIds(d) = LegIds(c) \ {i} /\ \A j \in LegIds(d) : d.legs[j].account = c.legs[j].account
  BY <1>9, <1>10 DEF LegIds, NoLeg
<1> HIDE DEF d, gone
<1>12. uses \in [Accounts -> 0 .. MaxId]  BY <1>1, <1>5, <1>7
<1>13. \A a \in Accounts : a # gone => uses[a] = accountUse[a]  BY <1>1, <1>7
<1>14. uses[gone] = IF d.owner # gone /\ (\A j \in LegIds(d) : d.legs[j].account # gone) THEN 0 ELSE id
  BY <1>1, <1>5, <1>7
<1> HIDE DEF uses
<1>15. \A a \in Accounts : uses[a] = accountUse[a] \/ (accountUse[a] = id /\ uses[a] = 0)
  BY <1>5, <1>13, <1>14
<1>16. /\ d.module = calls[id].module /\ d.phase # "none"
       /\ d.phase = "ringing" => d.owner = None
  BY <1>2, <1>6, <1>9 DEF SameHold, Active, Reservations, RingingUnowned
<1>17. \A j \in LegIds(c) : accountUse[c.legs[j].account] = id /\ c.legs[j].account \in Accounts
  BY <1>2, <1>10 DEF SameHold, LegIds, Leg, Reservations, AccountReservation
<1>18. \A j \in LegIds(d) : uses[d.legs[j].account] = id
  BY <1>11, <1>13, <1>14, <1>17
<1>19. ASSUME NEW a \in Accounts, uses[a] = id
       PROVE  d.owner = a \/ \E j \in LegIds(d) : d.legs[j].account = a
  <2>1. CASE a = gone  BY <1>1, <1>14, <1>19, <2>1
  <2>2. CASE a # gone
    <3>1. accountUse[a] = id  BY <1>13, <1>19, <2>2
    <3>2. calls[id].owner = a \/ \E j \in LegIds(calls[id]) : calls[id].legs[j].account = a
      BY <1>1, <3>1 DEF Reservations, AccountReservation
    <3>3. c.owner = a \/ \E j \in LegIds(c) : c.legs[j].account = a  BY <1>2, <3>2 DEF SameHold, LegIds
    <3> QED  BY <1>9, <1>11, <2>2, <3>3 DEF gone
  <2> QED  BY <2>1, <2>2
<1> QED  BY <1>3, <1>6, <1>9, <1>12, <1>15, <1>16, <1>18, <1>19, FinishReserves

-----------------------------------------------------------------------------
(* The invariant.                                                          *)

\* The values the operations give to the tables of accounts, grants and orders.
LEMMA TableTypes ==
    ASSUME TypeOK
    PROVE  /\ \A S : Dropped(S) \in [Ids -> Registration]
           /\ NoPolicy \in Policy
           /\ \A id \in Ids, i \in 0 .. MaxId, k \in {"Ring", "DialModule", "AnswerModule"} : Order(k, id, i) \in Orders
<1>1. NoRegistration \in Registration  BY RouterConstants DEF NoRegistration, Registration
<1>2. \A S : Dropped(S) \in [Ids -> Registration]  BY <1>1 DEF Dropped, TypeOK
<1>3. NoPolicy \in Policy  BY RouterConstants DEF NoPolicy, Policy
<1> QED  BY <1>2, <1>3 DEF Order, Orders

\* The initial state.
LEMMA InitInv == Init => RouterInv
<1> SUFFICES ASSUME Init PROVE RouterInv  OBVIOUS
<1>1. 0 \in 0 .. MaxId /\ 0 \in 0 .. MaxRevision  BY RouterConstants
<1>2. NoPolicy \in Policy  BY <1>1 DEF NoPolicy, Policy
<1>3. NoRegistration \in Registration  BY <1>1 DEF NoRegistration, Registration
<1>4. NoCall \in Call /\ NoCall.phase = "none" /\ LegIds(NoCall) = {}
  <2>1. NoLeg \in Leg /\ NoLeg.account = None  BY DEF Leg, NoLeg
  <2>2. [j \in Ids |-> NoLeg] \in [Ids -> Leg]  BY <2>1
  <2> QED  BY <1>1, <2>1, <2>2 DEF NoCall, Call, LegIds
<1>5. TypeOK  BY <1>1, <1>2, <1>3, <1>4 DEF TypeOK, Init
<1>6. \A id \in Ids : calls[id] = NoCall  BY DEF Init
<1>7. Reservations
  BY <1>4, <1>6 DEF Init, Reservations, Fresh, RingingUnowned, ModuleReservation, AccountReservation, Active
<1>8. CurrentCredentials  BY DEF Init, CurrentCredentials, Registered, NoRegistration
<1> QED  BY <1>5, <1>7, <1>8 DEF RouterInv

\* A changed policy keeps the types and leaves only grants of the account's present revision.
LEMMA PutPolicyInv ==
    ASSUME RouterInv, NEW a \in Accounts, NEW r \in 1 .. MaxRevision, NEW p \in Policy, p.revision = r, PutPolicy(a, p)
    PROVE  RouterInv'
<1> USE DEF RouterInv
<1>1. Settled  BY PutPolicySettles
<1>2. Reservations'  BY <1>1, SettledReservations
<1>3. orders' \subseteq Orders  BY AllCleanupOrdersType DEF PutPolicy, TypeOK
<1>4. registrations' \in [Ids -> Registration]
  BY TableTypes DEF PutPolicy, TypeOK
<1>5. policies' = [policies EXCEPT ![a] = p] /\ revisions' = [revisions EXCEPT ![a] = p.revision]
      /\ UNCHANGED <<next, ready, moduleUse, accountUse, lastDial>>
  BY DEF PutPolicy
<1>6. p.revision \in 0 .. MaxRevision  BY RouterConstants
<1>7. TypeOK'  BY <1>1, <1>3, <1>4, <1>5, <1>6 DEF TypeOK, Settled
<1>8. CurrentCredentials'
  <2> SUFFICES ASSUME NEW i \in Ids, registrations'[i].account # None
               PROVE  /\ policies'[registrations'[i].account].modules # {}
                      /\ registrations'[i].revision = policies'[registrations'[i].account].revision
    BY DEF CurrentCredentials, Registered, HasPolicy
  <2> DEFINE replaced == HasPolicy(a) /\ policies[a].revision # p.revision
  <2>1. registrations' = IF replaced THEN Dropped(GrantsOf(a)) ELSE registrations  BY DEF PutPolicy
  <2>2. registrations'[i] = registrations[i] /\ (replaced => registrations[i].account # a)
    BY <2>1 DEF Dropped, NoRegistration, GrantsOf
  <2>3. registrations[i].account \in Accounts  BY <2>2 DEF TypeOK, Registration
  <2>4. HasPolicy(registrations[i].account) /\ registrations[i].revision = policies[registrations[i].account].revision
    BY <2>2 DEF CurrentCredentials, Registered
  <2>5. p.modules # {}  BY DEF PutPolicy
  <2>6. policies \in [Accounts -> Policy]  BY DEF TypeOK
  <2>7. CASE registrations[i].account = a  BY <1>5, <2>2, <2>4, <2>5, <2>6, <2>7
  <2>8. CASE registrations[i].account # a  BY <1>5, <2>2, <2>3, <2>4, <2>6, <2>8 DEF HasPolicy
  <2> QED  BY <2>7, <2>8
<1> QED  BY <1>2, <1>7, <1>8

\* Steps that remove grants or make them expire, and leave the policies alone, keep the grants current.
LEMMA FewerGrantsCurrent ==
    ASSUME CurrentCredentials, UNCHANGED policies,
           \A i \in Ids : \/ registrations'[i].account = None
                          \/ /\ registrations'[i].account = registrations[i].account
                             /\ registrations'[i].revision = registrations[i].revision
    PROVE  CurrentCredentials'
BY DEF CurrentCredentials, Registered, HasPolicy

\* Deleting or suspending an account removes its grants.
LEMMA RevokeInv ==
    ASSUME RouterInv, NEW a \in Accounts, DeleteAccount(a) \/ SuspendAccount(a)
    PROVE  RouterInv'
<1> USE DEF RouterInv
<1>1. Settled  BY RevokeStepSettles
<1>2. Reservations'  BY <1>1, SettledReservations
<1>3. orders' \subseteq Orders  BY AllCleanupOrdersType DEF DeleteAccount, SuspendAccount, Revoke, TypeOK
<1>4. registrations' = Dropped(GrantsOf(a))  BY DEF DeleteAccount, SuspendAccount, Revoke
<1>5. policies' \in [Accounts -> Policy] /\ lastDial' \in [Accounts -> Modules \cup {None}]
  BY TableTypes DEF DeleteAccount, SuspendAccount, TypeOK
<1>6. UNCHANGED <<next, revisions, ready, moduleUse, accountUse>>  BY DEF DeleteAccount, SuspendAccount
<1>7. TypeOK'  BY <1>1, <1>3, <1>4, <1>5, <1>6, TableTypes DEF TypeOK, Settled
<1>8. \A i \in Ids : registrations'[i].account = None \/ (registrations'[i] = registrations[i] /\ registrations[i].account # a)
  BY <1>4 DEF Dropped, GrantsOf, NoRegistration
<1>9. \A b \in Accounts : b # a => policies'[b] = policies[b]
  BY DEF DeleteAccount, SuspendAccount, TypeOK
<1>10. \A i \in Ids : registrations[i].account \in Accounts \cup {None}  BY DEF TypeOK, Registration
<1>11. CurrentCredentials'  BY <1>8, <1>9, <1>10 DEF CurrentCredentials, Registered, HasPolicy
<1> QED  BY <1>2, <1>7, <1>11

\* A registration is made with the credentials the account has now.
LEMMA RegisterInv ==
    ASSUME RouterInv, NEW a \in Accounts, Register(a)
    PROVE  RouterInv'
<1> USE DEF RouterInv
<1> DEFINE g == [revision |-> policies[a].revision, account |-> a, live |-> TRUE]
<1>1. next \in 0 .. MaxId /\ next' = next + 1 /\ next + 1 \in Ids /\ next' \in 0 .. MaxId
  BY RouterConstants DEF Register, TypeOK, Ids
<1>2. g \in Registration  BY DEF Registration, TypeOK, Policy
<1>3. registrations' = [registrations EXCEPT ![next + 1] = g]
      /\ UNCHANGED <<policies, revisions, ready, calls, moduleUse, accountUse, lastDial, orders>> /\ HasPolicy(a)
  BY DEF Register
<1>4. TypeOK'  BY <1>1, <1>2, <1>3 DEF TypeOK
<1>5. Fresh'  BY <1>1, <1>3, RouterConstants DEF Reservations, Fresh, Ids
<1>6. Reservations'
  BY <1>3, <1>5 DEF Reservations, RingingUnowned, ModuleReservation, AccountReservation, Active, LegIds
<1>7. registrations \in [Ids -> Registration]  BY DEF TypeOK
<1>8. g.account = a /\ g.revision = policies[a].revision  OBVIOUS
<1> HIDE DEF g
<1>9. registrations'[next + 1] = g /\ \A k \in Ids \ {next + 1} : registrations'[k] = registrations[k]
  BY <1>1, <1>3, <1>7
<1>10. CurrentCredentials'  BY <1>3, <1>8, <1>9 DEF CurrentCredentials, Registered, HasPolicy
<1> QED  BY <1>4, <1>6, <1>10

\* The instant a grant expires.
LEMMA ExpireInv ==
    ASSUME RouterInv, NEW i \in Ids, ExpireRegistration(i)
    PROVE  RouterInv'
<1> USE DEF RouterInv
<1>1. registrations' = [registrations EXCEPT ![i].live = FALSE]
      /\ UNCHANGED <<next, policies, revisions, ready, calls, moduleUse, accountUse, lastDial, orders>>
  BY DEF ExpireRegistration
<1>2. registrations' \in [Ids -> Registration]  BY <1>1 DEF TypeOK, Registration
<1>3. TypeOK'  BY <1>1, <1>2 DEF TypeOK
<1>4. Reservations'
  BY <1>1 DEF Reservations, Fresh, RingingUnowned, ModuleReservation, AccountReservation, Active, LegIds
<1>5. \A k \in Ids : registrations'[k].account = registrations[k].account
                     /\ registrations'[k].revision = registrations[k].revision
  BY <1>1 DEF TypeOK, Registration
<1> QED  BY <1>1, <1>3, <1>4, <1>5, FewerGrantsCurrent

\* Logout and Tick remove grants and settle calls.
LEMMA SweepInv ==
    ASSUME RouterInv, NEW i, (i \in Ids /\ Logout(i)) \/ Tick
    PROVE  RouterInv'
<1> USE DEF RouterInv
<1>1. Settled  BY LogoutSettles, TickSettles
<1>2. Reservations'  BY <1>1, SettledReservations
<1>3. PICK S : registrations' = Dropped(S)
  <2>1. CASE Logout(i)  BY <2>1 DEF Logout
  <2>2. CASE Tick  BY <2>2 DEF Tick
  <2> QED  BY <2>1, <2>2
<1>4. orders' \subseteq Orders  BY AllCleanupOrdersType DEF Logout, Tick, TypeOK
<1>5. UNCHANGED <<next, policies, revisions, ready, moduleUse, accountUse, lastDial>>  BY DEF Logout, Tick
<1>6. registrations' \in [Ids -> Registration]  BY <1>3, TableTypes
<1>7. TypeOK'  BY <1>1, <1>4, <1>5, <1>6 DEF TypeOK, Settled
<1>8. \A k \in Ids : registrations'[k].account = None \/ registrations'[k] = registrations[k]
  BY <1>3 DEF Dropped, NoRegistration
<1>9. CurrentCredentials'  BY <1>5, <1>8, FewerGrantsCurrent
<1> QED  BY <1>2, <1>7, <1>9

\* Steps that leave grants and policies alone need only their effect on calls and reservations checked.
LEMMA CallStepInv ==
    ASSUME RouterInv, UNCHANGED <<policies, revisions, registrations>>,
           next' \in 0 .. MaxId, ready' \in [Modules -> BOOLEAN], calls' \in [Ids -> Call],
           moduleUse' \in [Modules -> 0 .. MaxId], accountUse' \in [Accounts -> 0 .. MaxId],
           lastDial' \in [Accounts -> Modules \cup {None}], orders' \subseteq Orders, Reservations'
    PROVE  RouterInv'
<1>1. CurrentCredentials'  BY FewerGrantsCurrent DEF RouterInv
<1>2. TypeOK'  BY DEF RouterInv, TypeOK
<1> QED  BY <1>1, <1>2 DEF RouterInv

\* A module that becomes ready or is lost.
LEMMA ReadyInv ==
    ASSUME RouterInv, NEW m \in Modules, NEW up \in BOOLEAN, SetModuleReady(m, up)
    PROVE  RouterInv'
<1> USE DEF RouterInv
<1>1. Settled  BY ReadySettles
<1>2. Reservations'  BY <1>1, SettledReservations
<1>3. orders' \subseteq Orders  BY AllCleanupOrdersType DEF SetModuleReady, TypeOK
<1>4. ready' \in [Modules -> BOOLEAN]  BY DEF SetModuleReady, TypeOK
<1>5. UNCHANGED <<next, policies, revisions, registrations, moduleUse, accountUse, lastDial>>  BY DEF SetModuleReady
<1>6. next' \in 0 .. MaxId /\ moduleUse' \in [Modules -> 0 .. MaxId] /\ accountUse' \in [Accounts -> 0 .. MaxId]
      /\ lastDial' \in [Accounts -> Modules \cup {None}]
  BY <1>5 DEF TypeOK
<1> QED  BY <1>1, <1>2, <1>3, <1>4, <1>5, <1>6, CallStepInv DEF Settled

\* Dialling out.
LEMMA DialInv ==
    ASSUME RouterInv, NEW i \in Ids, NEW m \in Modules, Dial(i, m)
    PROVE  RouterInv'
<1> USE DEF RouterInv
<1>1. calls' \in [Ids -> Call] /\ Reservations'  BY DialReserves
<1>2. next + 1 \in Ids /\ next' \in 0 .. MaxId /\ next' = next + 1  BY RouterConstants DEF Dial, TypeOK, Ids
<1>3. moduleUse' \in [Modules -> 0 .. MaxId] /\ accountUse' \in [Accounts -> 0 .. MaxId]
      /\ lastDial' \in [Accounts -> Modules \cup {None}] /\ ready' \in [Modules -> BOOLEAN]
  BY <1>2 DEF Dial, TypeOK
<1>4. i \in 0 .. MaxId  BY RouterConstants DEF Ids
<1>5. orders' \subseteq Orders  BY <1>2, <1>4, TableTypes DEF Dial, TypeOK
<1>6. UNCHANGED <<policies, revisions, registrations>>  BY DEF Dial
<1> QED  BY <1>1, <1>2, <1>3, <1>5, <1>6, CallStepInv

\* An incoming call.
LEMMA IncomingInv ==
    ASSUME RouterInv, NEW m \in Modules, Incoming(m)
    PROVE  RouterInv'
<1> USE DEF RouterInv
<1>1. calls' \in [Ids -> Call] /\ accountUse' \in [Accounts -> 0 .. MaxId] /\ Reservations'  BY IncomingReserves
<1>2. next + 1 \in Ids /\ next' \in 0 .. MaxId /\ next' = next + 1  BY RouterConstants DEF Incoming, TypeOK, Ids
<1>3. moduleUse' \in [Modules -> 0 .. MaxId] /\ ready' \in [Modules -> BOOLEAN]
      /\ lastDial' \in [Accounts -> Modules \cup {None}]
  BY <1>2 DEF Incoming, TypeOK
<1>4. \A j \in Targets(m) : j \in 0 .. MaxId  BY RouterConstants DEF Targets, Ids
<1>5. \A j \in Targets(m) : Order("Ring", next + 1, j) \in Orders  BY <1>2, <1>4, TableTypes
<1>6. orders' \subseteq Orders  BY <1>5 DEF Incoming, TypeOK
<1>7. UNCHANGED <<policies, revisions, registrations>>  BY DEF Incoming
<1> QED  BY <1>1, <1>2, <1>3, <1>6, <1>7, CallStepInv

\* The steps of one call: answers, evidence from the driver and the clients, deadlines.
LEMMA CallInv ==
    ASSUME RouterInv, NEW id \in Ids, NEW i \in Ids,
           \/ Connected(id) \/ Hangup(i, id) \/ DeadlinePasses(id)
           \/ Answer(i, id) \/ ModuleClosed(id) \/ ClientClosed(id, i)
    PROVE  RouterInv'
<1> USE DEF RouterInv
<1>1. UNCHANGED <<next, policies, revisions, registrations, ready, lastDial>>
  BY DEF Connected, Hangup, DeadlinePasses, Answer, ModuleClosed, ClientClosed
<1>2. next' \in 0 .. MaxId /\ ready' \in [Modules -> BOOLEAN] /\ lastDial' \in [Accounts -> Modules \cup {None}]
  BY <1>1 DEF TypeOK
<1>3. i \in 0 .. MaxId  BY RouterConstants DEF Ids
<1>4. orders' \subseteq Orders
  BY <1>3, CleanupOrdersType, TableTypes
  DEF Connected, Hangup, DeadlinePasses, Answer, ModuleClosed, ClientClosed, TypeOK
<1>5. /\ calls' \in [Ids -> Call] /\ moduleUse' \in [Modules -> 0 .. MaxId]
      /\ accountUse' \in [Accounts -> 0 .. MaxId] /\ Reservations'
  <2>1. CASE Connected(id) \/ Hangup(i, id) \/ DeadlinePasses(id)
    BY <2>1, CallStepSettles, SettledReservations DEF Settled, TypeOK
  <2>2. CASE Answer(i, id)  BY <2>2, AnswerReserves DEF Answer, TypeOK
  <2>3. CASE ModuleClosed(id) \/ ClientClosed(id, i)
    BY <2>3, ModuleClosedReserves, ClientClosedReserves
  <2> QED  BY <2>1, <2>2, <2>3
<1> QED  BY <1>1, <1>2, <1>4, <1>5, CallStepInv

\* The invariant is inductive.
LEMMA NextInv == RouterInv /\ [Next]_vars => RouterInv'
<1> SUFFICES ASSUME RouterInv, [Next]_vars PROVE RouterInv'  OBVIOUS
<1>1. ASSUME NEW a \in Accounts, NEW r \in 1 .. MaxRevision, NEW p \in Allocations,
             PutPolicy(a, [modules |-> p.modules, receive |-> p.receive, revision |-> r])
      PROVE  RouterInv'
  <2> DEFINE q == [modules |-> p.modules, receive |-> p.receive, revision |-> r]
  <2>1. q \in Policy /\ q.revision = r  BY RouterConstants DEF Policy
  <2> HIDE DEF q
  <2> QED  BY <1>1, <2>1, PutPolicyInv DEF q
<1>2. ASSUME NEW a \in Accounts, DeleteAccount(a) \/ SuspendAccount(a) PROVE RouterInv'  BY <1>2, RevokeInv
<1>3. ASSUME NEW a \in Accounts, Register(a) PROVE RouterInv'  BY <1>3, RegisterInv
<1>4. ASSUME NEW i \in Ids, ExpireRegistration(i) PROVE RouterInv'  BY <1>4, ExpireInv
<1>5. ASSUME NEW i \in Ids, Logout(i) PROVE RouterInv'  BY <1>5, SweepInv
<1>6. CASE Tick  BY <1>6, SweepInv
<1>7. ASSUME NEW m \in Modules, NEW up \in BOOLEAN, SetModuleReady(m, up) PROVE RouterInv'  BY <1>7, ReadyInv
<1>8. ASSUME NEW m \in Modules, Incoming(m) PROVE RouterInv'  BY <1>8, IncomingInv
<1>9. ASSUME NEW m \in Modules, NEW i \in Ids, Dial(i, m) PROVE RouterInv'  BY <1>9, DialInv
<1>10. ASSUME NEW i \in Ids, NEW id \in Ids,
              \/ Answer(i, id) \/ Hangup(i, id) \/ ClientClosed(id, i)
              \/ Connected(id) \/ ModuleClosed(id) \/ DeadlinePasses(id)
       PROVE  RouterInv'
  BY <1>10, CallInv
<1>11. CASE UNCHANGED vars
  BY <1>11 DEF vars, RouterInv, TypeOK, Reservations, Fresh, RingingUnowned, ModuleReservation, AccountReservation,
       CurrentCredentials, Active, LegIds, Registered, HasPolicy
<1> QED  BY <1>1, <1>2, <1>3, <1>4, <1>5, <1>6, <1>7, <1>8, <1>9, <1>10, <1>11 DEF Next

-----------------------------------------------------------------------------
(* The results.                                                            *)

\* The invariant holds in every behaviour of the router.
THEOREM RouterInvariant == Spec => []RouterInv
<1>1. Init => RouterInv  BY InitInv
<1>2. RouterInv /\ [Next]_vars => RouterInv'  BY NextInv
<1> QED  BY <1>1, <1>2, PTL DEF Spec

\* Every table of the router keeps its type (type Router).
THEOREM RouterTypes == Spec => []TypeOK
<1>1. RouterInv => TypeOK  BY DEF RouterInv
<1> QED  BY <1>1, RouterInvariant, PTL

\* A module is reserved by exactly the call that uses it (newCall, finish).
THEOREM RouterModules == Spec => []ModuleReservation
<1>1. RouterInv => ModuleReservation  BY DEF RouterInv, Reservations
<1> QED  BY <1>1, RouterInvariant, PTL

\* An account is reserved by exactly the call it owns or has a leg in (addLeg, ClientClosed, finish).
THEOREM RouterAccounts == Spec => []AccountReservation
<1>1. RouterInv => AccountReservation  BY DEF RouterInv, Reservations
<1> QED  BY <1>1, RouterInvariant, PTL

\* Both reservations are exact, in tables of the right type.
THEOREM RouterReservations == Spec => []ReservationsExact
<1>1. TypeOK /\ ModuleReservation /\ AccountReservation => ReservationsExact
    BY DEF ReservationsExact
<1> QED  BY <1>1, RouterTypes, RouterModules, RouterAccounts, PTL

\* No grant outlives the credentials it was made with (PutPolicy, revoke).
THEOREM RouterCredentials == Spec => []CurrentCredentials
<1>1. RouterInv => CurrentCredentials  BY DEF RouterInv
<1> QED  BY <1>1, RouterInvariant, PTL

-----------------------------------------------------------------------------
(* The calls.                                                              *)

\* CallShape of one call, and no deadline for a call that is up.
WellShaped(c) ==
    /\ c.phase \in {"dialing", "connecting", "connected"} =>
            OpenLegs(c) = {c.winner} /\ c.owner = c.legs[c.winner].account /\ ~ c.moduleClosed
    /\ c.phase = "ringing" => c.winner = 0 /\ c.owner = None /\ OpenLegs(c) # {} /\ ~ c.moduleClosed
    /\ c.phase = "ending" => OpenLegs(c) = {} /\ ~ Finished(c) /\ c.deadline = "none"
    /\ c.phase = "none" => c = NoCall
    /\ c.phase = "connected" => c.deadline = "none"

Shaped == \A id \in Ids : WellShaped(calls[id])

\* An order to hang up names no registration.
HangupBare == \A o \in orders : o.kind = "HangupModule" => o.registration = 0

\* Identifiers are handed out once, to a grant or to a call.
GrantsFresh ==
    \A i \in Ids : i > next =>
        registrations[i].account = None /\ \A id \in Ids : calls[id].legs[i].account = None

\* A leg is its grant's, for as long as the grant is listed.
LegsMatch ==
    \A id \in Ids : \A i \in LegIds(calls[id]) :
        Registered(i) => registrations[i].account = calls[id].legs[i].account

CallsInv ==
    /\ RouterInv
    /\ Shaped /\ CleanupOrdered /\ HangupBare /\ GrantsFresh /\ LegsMatch /\ Authorized

\* d is the call c with some legs closed, or ended; tighter, if it has its shape then.
Closer(c, d) ==
    /\ SameHold(c, d)
    /\ d.winner = c.winner /\ d.moduleClosed = c.moduleClosed
    /\ \A i \in Ids : c.legs[i].closing => d.legs[i].closing
    /\ d.phase \in {c.phase, "ending"}

Tighter(c, d) == Closer(c, d) /\ WellShaped(d)

-----------------------------------------------------------------------------
(* Closing legs and ending a call.                                         *)

\* closeLeg closes the legs of S and leaves everything else of the call alone.
LEMMA CloseLegsExact ==
    ASSUME NEW c \in Call, NEW S
    PROVE  LET d == CloseLegs(c, S)
           IN  /\ d \in Call
               /\ d.phase = c.phase /\ d.winner = c.winner /\ d.moduleClosed = c.moduleClosed
               /\ d.owner = c.owner /\ d.deadline = c.deadline /\ d.module = c.module
               /\ \A i \in Ids : d.legs[i].account = c.legs[i].account
               /\ \A i \in Ids : c.legs[i].closing => d.legs[i].closing
               /\ LegIds(d) = LegIds(c) /\ OpenLegs(d) = OpenLegs(c) \ S
<1> DEFINE l == [i \in Ids |-> IF i \in S \cap LegIds(c) THEN [c.legs[i] EXCEPT !.closing = TRUE] ELSE c.legs[i]]
           d == CloseLegs(c, S)
<1>1. \A i \in Ids : c.legs[i] \in Leg  BY DEF Call
<1>2. \A i \in Ids : /\ l[i].account = c.legs[i].account
                     /\ i \in S \cap LegIds(c) => l[i].closing
                     /\ i \notin S \cap LegIds(c) => l[i] = c.legs[i]
  BY <1>1 DEF Leg
<1>3. d = [c EXCEPT !.legs = l]  BY DEF CloseLegs
<1>4. d \in Call  BY CloseLegsHold DEF SameHold
<1> HIDE DEF l
<1>5. /\ d.phase = c.phase /\ d.winner = c.winner /\ d.moduleClosed = c.moduleClosed
      /\ d.owner = c.owner /\ d.deadline = c.deadline /\ d.module = c.module /\ d.legs = l
  BY <1>3 DEF Call
<1> HIDE DEF d
<1>6. LegIds(d) = LegIds(c)  BY <1>2, <1>5 DEF LegIds
<1>7. \A i \in Ids : c.legs[i].closing => d.legs[i].closing  BY <1>2, <1>5
<1>8. OpenLegs(d) = OpenLegs(c) \ S  BY <1>2, <1>5, <1>6 DEF OpenLegs, LegIds
<1> QED  BY <1>2, <1>4, <1>5, <1>6, <1>7, <1>8 DEF d

\* end ends a call that is under way: every leg closes.
LEMMA EndExact ==
    ASSUME NEW c \in Call, c.phase \notin {"ending", "none"}
    PROVE  LET d == End(c)
           IN  /\ d \in Call
               /\ d.phase = "ending" /\ d.deadline = "none"
               /\ d.winner = c.winner /\ d.moduleClosed = c.moduleClosed
               /\ d.owner = c.owner /\ d.module = c.module
               /\ \A i \in Ids : d.legs[i].account = c.legs[i].account
               /\ \A i \in Ids : c.legs[i].closing => d.legs[i].closing
               /\ LegIds(d) = LegIds(c) /\ OpenLegs(d) = {}
<1> DEFINE e == CloseLegs(c, Ids)
           d == End(c)
<1>1. /\ e \in Call /\ e.winner = c.winner /\ e.moduleClosed = c.moduleClosed /\ e.owner = c.owner
      /\ e.module = c.module
      /\ \A i \in Ids : e.legs[i].account = c.legs[i].account
      /\ \A i \in Ids : c.legs[i].closing => e.legs[i].closing
      /\ LegIds(e) = LegIds(c) /\ OpenLegs(e) = OpenLegs(c) \ Ids
  BY CloseLegsExact
<1>2. d = [e EXCEPT !.phase = "ending", !.deadline = "none"]  BY DEF End
<1> HIDE DEF e
<1>3. /\ d.phase = "ending" /\ d.deadline = "none" /\ d.winner = e.winner /\ d.owner = e.owner
      /\ d.moduleClosed = e.moduleClosed /\ d.module = e.module /\ d.legs = e.legs /\ d \in Call
  BY <1>1, <1>2 DEF Call, Phases
<1> HIDE DEF d
<1>4. OpenLegs(e) = {}  BY <1>1 DEF OpenLegs, LegIds
<1>5. LegIds(d) = LegIds(e) /\ OpenLegs(d) = OpenLegs(e)  BY <1>3 DEF LegIds, OpenLegs
<1> QED  BY <1>1, <1>3, <1>4, <1>5 DEF d

\* A call is as tight as itself, and tightening twice is tightening.
LEMMA TighterSelf ==
    ASSUME NEW c \in Call, WellShaped(c)
    PROVE  Tighter(c, c)
BY DEF Tighter, Closer, SameHold

\* Closing further legs of a call that was tightened tightens it further.
LEMMA TighterTwice ==
    ASSUME NEW c, NEW d, NEW e, Tighter(c, d), Tighter(d, e)
    PROVE  Tighter(c, e)
BY DEF Tighter, Closer, SameHold

\* end tightens a call, even one whose module just closed, unless that finishes it.
LEMMA EndTight ==
    ASSUME NEW c \in Call, WellShaped(c)
    PROVE  Tighter(c, End(c))
<1>1. CASE c.phase \in {"ending", "none"}  BY <1>1, TighterSelf DEF End
<1>2. CASE c.phase \notin {"ending", "none"}
  <2>1. SameHold(c, End(c))  BY EndHold
  <2>2. ~ End(c).moduleClosed /\ End(c).phase = "ending"
    BY <1>2, EndExact DEF WellShaped, Call, Phases
  <2>3. WellShaped(End(c))  BY <1>2, <2>2, EndExact DEF WellShaped, Finished
  <2> QED  BY <1>2, <2>1, <2>3, EndExact DEF Tighter, Closer
<1> QED  BY <1>1, <1>2

\* withdraw tightens a call: it ends with its winner's leg, or with the last client it rings.
LEMMA WithdrawTight ==
    ASSUME NEW c \in Call, WellShaped(c), NEW S
    PROVE  Tighter(c, Withdraw(c, S))
<1> DEFINE d == CloseLegs(c, S)
<1>1. /\ d \in Call
      /\ d.phase = c.phase /\ d.winner = c.winner /\ d.moduleClosed = c.moduleClosed
      /\ d.owner = c.owner /\ d.deadline = c.deadline /\ d.module = c.module
      /\ \A i \in Ids : d.legs[i].account = c.legs[i].account
      /\ \A i \in Ids : c.legs[i].closing => d.legs[i].closing
      /\ LegIds(d) = LegIds(c) /\ OpenLegs(d) = OpenLegs(c) \ S
  BY CloseLegsExact
<1>2. SameHold(c, d)  BY CloseLegsHold
<1>3. Withdraw(c, S) = IF c.winner \in S \cap LegIds(c) THEN End(c)
                       ELSE IF c.phase = "ringing" /\ S \cap LegIds(c) # {} /\ OpenLegs(d) = {} THEN End(d)
                       ELSE d
  BY DEF Withdraw
<1>4. c.phase = "none" => d = c
  <2> SUFFICES ASSUME c.phase = "none" PROVE d = c  OBVIOUS
  <2>1. c = NoCall  BY DEF WellShaped
  <2>2. LegIds(c) = {}  BY <2>1 DEF LegIds, NoCall, NoLeg
  <2>3. c.legs = [i \in Ids |-> c.legs[i]]  BY DEF Call
  <2>4. d = [c EXCEPT !.legs = c.legs]  BY <2>2, <2>3 DEF CloseLegs
  <2> QED  BY <2>4 DEF Call
<1> HIDE DEF d
<1>5. CASE c.winner \in S \cap LegIds(c)  BY <1>3, <1>5, EndTight
<1>6. CASE /\ c.winner \notin S \cap LegIds(c)
           /\ c.phase = "ringing" /\ S \cap LegIds(c) # {} /\ OpenLegs(d) = {}
  <2>1. Withdraw(c, S) = End(d) /\ d.phase \notin {"ending", "none"}  BY <1>1, <1>3, <1>6
  <2>2. SameHold(d, End(d)) /\ SameHold(c, End(d))  BY <1>1, <1>2, EndHold DEF SameHold
  <2>3. ~ End(d).moduleClosed  BY <1>1, <1>6, <2>1, EndExact DEF WellShaped
  <2>4. WellShaped(End(d))  BY <1>1, <2>1, <2>3, EndExact DEF WellShaped, Finished
  <2>5. /\ End(d).winner = d.winner /\ End(d).moduleClosed = d.moduleClosed /\ End(d).phase = "ending"
        /\ \A i \in Ids : d.legs[i].closing => End(d).legs[i].closing
    BY <1>1, <2>1, EndExact
  <2> QED  BY <1>1, <2>1, <2>2, <2>4, <2>5 DEF Tighter, Closer
<1>7. CASE /\ c.winner \notin S \cap LegIds(c)
           /\ ~ (c.phase = "ringing" /\ S \cap LegIds(c) # {} /\ OpenLegs(d) = {})
  <2>1. Withdraw(c, S) = d  BY <1>3, <1>7
  <2>2. OpenLegs(c) \subseteq LegIds(c) /\ LegIds(c) \subseteq Ids  BY DEF OpenLegs, LegIds
  <2>3. c.phase \in {"dialing", "connecting", "connected"} =>
            OpenLegs(d) = {d.winner} /\ d.owner = d.legs[d.winner].account /\ ~ d.moduleClosed
    BY <1>1, <1>7, <2>2 DEF WellShaped
  <2>4. c.phase = "ringing" => d.winner = 0 /\ d.owner = None /\ OpenLegs(d) # {} /\ ~ d.moduleClosed
    BY <1>1, <1>7, <2>2 DEF WellShaped
  <2>5. c.phase = "ending" => OpenLegs(d) = {} /\ ~ Finished(d) /\ d.deadline = "none"
    BY <1>1 DEF WellShaped, Finished
  <2>6. WellShaped(d)  BY <1>1, <1>4, <2>3, <2>4, <2>5 DEF WellShaped
  <2> QED  BY <1>1, <1>2, <2>1, <2>6 DEF Tighter, Closer
<1> QED  BY <1>5, <1>6, <1>7

-----------------------------------------------------------------------------
(* The orders.                                                             *)

\* CleanupOrdered of one call, for the orders O.
Ordered(id, c, O) ==
    /\ \A i \in Ids : Order("TerminateClient", id, i) \in O <=> i \in LegIds(c) /\ c.legs[i].closing
    /\ Order("HangupModule", id, 0) \in O <=> c.phase = "ending" /\ ~ c.moduleClosed

\* O and P order the same cleanup of call id.
SameCleanup(id, O, P) ==
    /\ \A i \in Ids : Order("TerminateClient", id, i) \in O <=> Order("TerminateClient", id, i) \in P
    /\ Order("HangupModule", id, 0) \in O <=> Order("HangupModule", id, 0) \in P

\* An order is for its kind, call and registration only.
LEMMA OrderFields ==
    \A k, id, i : /\ Order(k, id, i).kind = k /\ Order(k, id, i).call = id
                  /\ Order(k, id, i).registration = i
BY DEF Order

\* What closeLeg and end return is the cleanup that a tighter call needs in addition.
LEMMA CloserOrdered ==
    ASSUME NEW id \in Ids, NEW c \in Call, NEW d, Closer(c, d), NEW O, Ordered(id, c, O)
    PROVE  Ordered(id, d, O \cup CleanupOrders(id, c, d))
<1> DEFINE X == CleanupOrders(id, c, d)
<1>1. LegIds(d) = LegIds(c)  BY DEF Tighter, Closer, SameHold, LegIds
<1>2. \A i \in Ids : Order("TerminateClient", id, i) \in X <=> i \in OpenLegs(c) /\ i \in LegIds(d) /\ d.legs[i].closing
  BY OrderFields DEF CleanupOrders
<1>3. Order("HangupModule", id, 0) \in X <=> c.phase # "ending" /\ d.phase = "ending" /\ ~ d.moduleClosed
  BY OrderFields DEF CleanupOrders
<1> HIDE DEF X
<1>4. \A i \in Ids : Order("TerminateClient", id, i) \in O \cup X <=> i \in LegIds(d) /\ d.legs[i].closing
  BY <1>1, <1>2 DEF Ordered, Tighter, Closer, OpenLegs
<1>5. Order("HangupModule", id, 0) \in O \cup X <=> d.phase = "ending" /\ ~ d.moduleClosed
  BY <1>3 DEF Ordered, Tighter, Closer
<1> QED  BY <1>4, <1>5 DEF Ordered, X

\* The cleanup of one call is no other call's.
LEMMA CleanupIsOwn ==
    ASSUME NEW id \in Ids, NEW other \in Ids, NEW c, NEW d, NEW k, NEW i,
           Order(k, other, i) \in CleanupOrders(id, c, d)
    PROVE  other = id
BY OrderFields DEF CleanupOrders

\* So what a step over all calls orders for a call is that call's cleanup.
LEMMA AllCleanupOwn ==
    ASSUME NEW id \in Ids, NEW before, NEW after, NEW O
    PROVE  SameCleanup(id, O \cup CleanupOrders(id, before[id], after[id]), O \cup AllCleanupOrders(before, after))
BY CleanupIsOwn DEF SameCleanup, AllCleanupOrders

\* The same cleanup serves the same call.
LEMMA OrderedSame ==
    ASSUME NEW id, NEW c, NEW O, NEW P, Ordered(id, c, O), SameCleanup(id, O, P)
    PROVE  Ordered(id, c, P)
BY DEF Ordered, SameCleanup

\* An order to hang up that the cleanup adds names no registration.
LEMMA CleanupBare ==
    ASSUME NEW id, NEW c, NEW d, NEW o \in CleanupOrders(id, c, d), o.kind = "HangupModule"
    PROVE  o.registration = 0
BY OrderFields DEF CleanupOrders

-----------------------------------------------------------------------------
(* Operations that only tighten calls.                                     *)

Tightened ==
    /\ calls' \in [Ids -> Call]
    /\ \A id \in Ids : Tighter(calls[id], calls'[id])

\* The cleanup such an operation orders is the one that is missing.
LEMMA TightenedOrders ==
    ASSUME CallsInv, Tightened, orders' = orders \cup AllCleanupOrders(calls, calls')
    PROVE  Shaped' /\ CleanupOrdered' /\ HangupBare'
<1>1. Shaped'  BY DEF Tightened, Tighter, Closer, Shaped
<1>2. ASSUME NEW id \in Ids PROVE Ordered(id, calls'[id], orders')
  <2>1. calls[id] \in Call /\ Ordered(id, calls[id], orders)
    BY DEF CallsInv, RouterInv, TypeOK, CleanupOrdered, Ordered
  <2>2. Ordered(id, calls'[id], orders \cup CleanupOrders(id, calls[id], calls'[id]))
    BY <2>1, CloserOrdered DEF Tightened, Tighter
  <2> QED  BY <2>2, AllCleanupOwn, OrderedSame
<1>3. CleanupOrdered'  BY <1>2 DEF CleanupOrdered, Ordered
<1>4. HangupBare'
  BY CleanupBare DEF CallsInv, HangupBare, AllCleanupOrders
<1> QED  BY <1>1, <1>3, <1>4

\* A step that tightens one call.
LEMMA OneCallTightened ==
    ASSUME CallsInv, NEW id \in Ids, NEW d, Tighter(calls[id], d), calls' = [calls EXCEPT ![id] = d],
           orders' = orders \cup CleanupOrders(id, calls[id], d)
    PROVE  Tightened /\ Shaped' /\ CleanupOrdered' /\ HangupBare'
<1>1. calls \in [Ids -> Call] /\ d \in Call  BY DEF CallsInv, RouterInv, TypeOK, Tighter, Closer, SameHold
<1>2. calls'[id] = d /\ \A k \in Ids \ {id} : calls'[k] = calls[k]  BY <1>1
<1>3. \A k \in Ids : Tighter(calls[k], calls'[k])
  BY <1>1, <1>2, TighterSelf DEF CallsInv, Shaped
<1>4. Tightened  BY <1>1, <1>3 DEF Tightened
<1>5. Shaped'  BY <1>3 DEF Shaped, Tighter, Closer
<1>6. ASSUME NEW k \in Ids PROVE Ordered(k, calls'[k], orders')
  <2>1. Ordered(k, calls[k], orders)  BY DEF CallsInv, CleanupOrdered, Ordered
  <2>2. CASE k = id  BY <1>1, <1>2, <2>1, <2>2, CloserOrdered DEF Tighter
  <2>3. CASE k # id
    <3>1. SameCleanup(k, orders, orders')  BY <2>3, CleanupIsOwn DEF SameCleanup
    <3> QED  BY <1>2, <2>1, <2>3, <3>1, OrderedSame
  <2> QED  BY <2>2, <2>3
<1>7. CleanupOrdered'  BY <1>6 DEF CleanupOrdered, Ordered
<1>8. HangupBare'  BY CleanupBare DEF CallsInv, HangupBare
<1> QED  BY <1>4, <1>5, <1>7, <1>8

\* d is the call c with no new leg, none reopened and no new offer.
Fewer(c, d) ==
    /\ \A i \in Ids : d.legs[i].account \in {c.legs[i].account, None}
    /\ \A i \in OpenLegs(d) : i \in OpenLegs(c) /\ d.legs[i].account = c.legs[i].account /\ d.module = c.module
    /\ d.phase = "ringing" => c.phase = "ringing"

\* A tighter call has fewer open legs.
LEMMA TighterIsFewer ==
    ASSUME NEW c, NEW d, Tighter(c, d)
    PROVE  Fewer(c, d)
BY DEF Tighter, Closer, SameHold, Fewer, OpenLegs, LegIds

\* Legs and grants that were there before keep their accounts.
LEMMA FewerLegs ==
    ASSUME CallsInv, \A id \in Ids : Fewer(calls[id], calls'[id]), next' = next,
           \A i \in Ids : registrations'[i].account \in {registrations[i].account, None}
    PROVE  GrantsFresh' /\ LegsMatch'
<1>1. GrantsFresh'  BY DEF CallsInv, GrantsFresh, Fewer
<1>2. LegsMatch'  BY DEF CallsInv, LegsMatch, LegIds, Registered, Fewer
<1> QED  BY <1>1, <1>2

\* Open legs stay authorized as long as the policies stay.
LEMMA FewerAuthorized ==
    ASSUME CallsInv, \A id \in Ids : Fewer(calls[id], calls'[id]), UNCHANGED policies
    PROVE  Authorized'
BY DEF CallsInv, Authorized, Fewer

\* The legs withdrawn from a call are not open any more, and no other leg opens.
LEMMA WithdrawCloses ==
    ASSUME NEW c \in Call, WellShaped(c), NEW S
    PROVE  OpenLegs(Withdraw(c, S)) \subseteq OpenLegs(c) \ S
<1> DEFINE d == CloseLegs(c, S)
<1>1. d \in Call /\ d.phase = c.phase /\ OpenLegs(d) = OpenLegs(c) \ S  BY CloseLegsExact
<1>2. Withdraw(c, S) = IF c.winner \in S \cap LegIds(c) THEN End(c)
                       ELSE IF c.phase = "ringing" /\ S \cap LegIds(c) # {} /\ OpenLegs(d) = {} THEN End(d)
                       ELSE d
  BY DEF Withdraw
<1> HIDE DEF d
<1>3. OpenLegs(End(c)) = {}
  <2>1. CASE c.phase \in {"ending", "none"}
    <3>1. c.phase = "none" => LegIds(c) = {}  BY DEF WellShaped, NoCall, NoLeg, LegIds
    <3> QED  BY <2>1, <3>1 DEF WellShaped, End, OpenLegs
  <2> QED  BY <2>1, EndExact
<1>4. c.phase = "ringing" => OpenLegs(End(d)) = {}  BY <1>1, EndExact
<1> QED  BY <1>1, <1>2, <1>3, <1>4

\* Every leg is of an account, which its call reserves.
LEMMA LegAccount ==
    ASSUME CallsInv, NEW id \in Ids, NEW i \in LegIds(calls[id])
    PROVE  calls[id].legs[i].account \in Accounts /\ accountUse[calls[id].legs[i].account] = id
BY DEF CallsInv, RouterInv, TypeOK, Reservations, AccountReservation, LegIds, Call, Leg

-----------------------------------------------------------------------------
(* Credentials and permissions.                                            *)

\* Revoking an account tightens calls and leaves none of its legs open.
LEMMA RevokeTightens ==
    ASSUME CallsInv, NEW a \in Accounts
    PROVE  /\ CallsAfterRevoke(a) \in [Ids -> Call]
           /\ \A id \in Ids : Tighter(calls[id], CallsAfterRevoke(a)[id])
           /\ \A id \in Ids : \A i \in OpenLegs(CallsAfterRevoke(a)[id]) : calls[id].legs[i].account # a
<1>1. \A id \in Ids : calls[id] \in Call /\ WellShaped(calls[id])  BY DEF CallsInv, RouterInv, TypeOK, Shaped
<1>2. \A id \in Ids : Tighter(calls[id], CallsAfterRevoke(a)[id])
  BY <1>1, WithdrawTight DEF CallsAfterRevoke
<1>3. CallsAfterRevoke(a) \in [Ids -> Call]
  BY RevokeSettles DEF CallsInv, RouterInv
<1>4. ASSUME NEW id \in Ids, NEW i \in OpenLegs(CallsAfterRevoke(a)[id]), calls[id].legs[i].account = a
      PROVE  FALSE
  <2> DEFINE S == AccountLegs(id, a) \cup RevokedLegs(id, GrantsOf(a), FALSE)
  <2>0. CallsAfterRevoke(a)[id] = Withdraw(calls[id], S)  BY DEF CallsAfterRevoke
  <2>1. i \in OpenLegs(calls[id]) /\ i \notin AccountLegs(id, a)
    <3> HIDE DEF S
    <3>1. i \in OpenLegs(calls[id]) \ S  BY <1>1, <1>4, <2>0, WithdrawCloses
    <3> QED  BY <3>1 DEF S
  <2>2. i \in LegIds(calls[id]) /\ i \in Ids  BY <2>1 DEF OpenLegs, LegIds
  <2>3. accountUse[a] = id  BY <1>4, <2>2, LegAccount
  <2> QED  BY <1>4, <2>1, <2>2, <2>3 DEF AccountLegs
<1> QED  BY <1>2, <1>3, <1>4

\* Revoking grants tightens calls.
LEMMA RevocationTightens ==
    ASSUME CallsInv, NEW S, NEW keep
    PROVE  /\ CallsAfterRevocation(S, keep) \in [Ids -> Call]
           /\ \A id \in Ids : Tighter(calls[id], CallsAfterRevocation(S, keep)[id])
<1>1. \A id \in Ids : calls[id] \in Call /\ WellShaped(calls[id])  BY DEF CallsInv, RouterInv, TypeOK, Shaped
<1>2. \A id \in Ids : Tighter(calls[id], CallsAfterRevocation(S, keep)[id])
  BY <1>1, WithdrawTight DEF CallsAfterRevocation
<1> QED  BY <1>2, RevocationSettles DEF CallsInv, RouterInv

\* A changed policy tightens calls, and leaves open what it permits.
LEMMA PutPolicyCalls ==
    ASSUME CallsInv, NEW a \in Accounts, NEW p \in Policy, PutPolicy(a, p)
    PROVE  Tightened /\ Authorized'
<1> DEFINE revoked == IF HasPolicy(a) /\ policies[a].revision # p.revision THEN CallsAfterRevoke(a) ELSE calls
           settled == [id \in Ids |-> Withdraw(revoked[id], Disallowed(revoked[id], id, a, p))]
<1>1. calls \in [Ids -> Call] /\ \A id \in Ids : Tighter(calls[id], calls[id])
  BY TighterSelf DEF CallsInv, RouterInv, TypeOK, Shaped
<1>2. revoked \in [Ids -> Call] /\ \A id \in Ids : Tighter(calls[id], revoked[id])  BY <1>1, RevokeTightens
<1>3. calls' = settled /\ policies' = [policies EXCEPT ![a] = p]  BY DEF PutPolicy
<1> HIDE DEF revoked
<1>4. \A id \in Ids : WellShaped(revoked[id]) /\ revoked[id] \in Call  BY <1>2 DEF Tighter, Closer
<1>5. \A id \in Ids : Tighter(revoked[id], settled[id])  BY <1>4, WithdrawTight
<1>6. \A id \in Ids : Tighter(calls[id], settled[id])  BY <1>2, <1>5, TighterTwice
<1>7. settled \in [Ids -> Call]  BY <1>5 DEF Tighter, Closer, SameHold
<1>8. ASSUME NEW id \in Ids, NEW i \in OpenLegs(settled[id])
      PROVE  LET q == policies'[settled[id].legs[i].account]
             IN  settled[id].module \in q.modules /\ (settled[id].phase = "ringing" => q.receive)
  <2> DEFINE b == calls[id].legs[i].account
  <2>1. i \in OpenLegs(revoked[id]) \ Disallowed(revoked[id], id, a, p)
    BY <1>4, <1>8, WithdrawCloses
  <2>2. i \in OpenLegs(calls[id]) /\ i \in LegIds(calls[id]) /\ i \in Ids
    BY <1>2, <2>1 DEF Tighter, Closer, SameHold, OpenLegs, LegIds
  <2>3. b \in Accounts /\ accountUse[b] = id  BY <2>2, LegAccount
  <2>4. /\ settled[id].legs[i].account = b
        /\ settled[id].module = calls[id].module /\ settled[id].module = revoked[id].module
        /\ settled[id].phase = "ringing" => calls[id].phase = "ringing" /\ revoked[id].phase = "ringing"
    BY <1>5, <1>6, <2>2 DEF Tighter, Closer, SameHold
  <2>5. policies \in [Accounts -> Policy]  BY DEF CallsInv, RouterInv, TypeOK
  <2> HIDE DEF settled
  <2>6. CASE b = a
    <3>1. i \in AccountLegs(id, a)  BY <2>2, <2>3, <2>6 DEF AccountLegs
    <3>2. revoked[id].module \in p.modules /\ (revoked[id].phase = "ringing" => p.receive)
      BY <2>1, <3>1 DEF Disallowed
    <3> QED  BY <1>3, <2>4, <2>5, <2>6, <3>2
  <2>7. CASE b # a
    <3>1. policies'[b] = policies[b]  BY <1>3, <2>3, <2>5, <2>7
    <3>2. calls[id].module \in policies[b].modules /\ (calls[id].phase = "ringing" => policies[b].receive)
      BY <2>2 DEF CallsInv, Authorized
    <3> QED  BY <2>4, <3>1, <3>2
  <2> QED  BY <2>6, <2>7
<1>9. Authorized'  BY <1>3, <1>8 DEF Authorized
<1>10. Tightened  BY <1>3, <1>6, <1>7 DEF Tightened
<1> QED  BY <1>9, <1>10

\* An account that is deleted or suspended has no open leg left.
LEMMA RevokeCalls ==
    ASSUME CallsInv, NEW a \in Accounts, DeleteAccount(a) \/ SuspendAccount(a)
    PROVE  Tightened /\ Authorized'
<1>1. calls' = CallsAfterRevoke(a)  BY DEF DeleteAccount, SuspendAccount, Revoke
<1>2. Tightened  BY <1>1, RevokeTightens DEF Tightened
<1>3. policies \in [Accounts -> Policy]  BY DEF CallsInv, RouterInv, TypeOK
<1>4. \A b \in Accounts \ {a} : policies'[b] = policies[b]  BY <1>3 DEF DeleteAccount, SuspendAccount
<1>5. ASSUME NEW id \in Ids, NEW i \in OpenLegs(calls'[id])
      PROVE  LET q == policies'[calls'[id].legs[i].account]
             IN  calls'[id].module \in q.modules /\ (calls'[id].phase = "ringing" => q.receive)
  <2> DEFINE b == calls[id].legs[i].account
  <2>1. i \in OpenLegs(calls[id]) /\ i \in LegIds(calls[id]) /\ i \in Ids /\ calls'[id].legs[i].account = b
    BY <1>2, <1>5 DEF Tightened, Tighter, Closer, SameHold, OpenLegs, LegIds
  <2>2. b \in Accounts /\ b # a  BY <1>1, <1>5, <2>1, LegAccount, RevokeTightens
  <2>3. calls[id].module \in policies[b].modules /\ (calls[id].phase = "ringing" => policies[b].receive)
    BY <2>1 DEF CallsInv, Authorized
  <2>4. calls'[id].module = calls[id].module /\ (calls'[id].phase = "ringing" => calls[id].phase = "ringing")
    BY <1>2 DEF Tightened, Tighter, Closer, SameHold
  <2> QED  BY <1>4, <2>1, <2>2, <2>3, <2>4
<1>6. Authorized'  BY <1>5 DEF Authorized
<1> QED  BY <1>2, <1>6

-----------------------------------------------------------------------------
(* Operations on one call.                                                 *)

\* A step that makes one call d and orders the cleanup d needs, and no other call's.
LEMMA OneCallReplaced ==
    ASSUME CallsInv, NEW id \in Ids, NEW d, WellShaped(d), calls' = [calls EXCEPT ![id] = d],
           Ordered(id, d, orders'), \A k \in Ids \ {id} : SameCleanup(k, orders, orders'),
           \A o \in orders' \ orders : o.kind = "HangupModule" => o.registration = 0
    PROVE  Shaped' /\ CleanupOrdered' /\ HangupBare'
<1>1. calls \in [Ids -> Call]  BY DEF CallsInv, RouterInv, TypeOK
<1>2. calls'[id] = d /\ \A k \in Ids \ {id} : calls'[k] = calls[k]  BY <1>1
<1>3. Shaped'  BY <1>2 DEF CallsInv, Shaped
<1>4. ASSUME NEW k \in Ids PROVE Ordered(k, calls'[k], orders')
  <2>1. Ordered(k, calls[k], orders)  BY DEF CallsInv, CleanupOrdered, Ordered
  <2> QED  BY <1>2, <2>1, OrderedSame
<1>5. CleanupOrdered'  BY <1>4 DEF CleanupOrdered, Ordered
<1>6. HangupBare'  BY DEF CallsInv, HangupBare
<1> QED  BY <1>3, <1>5, <1>6

\* No call and no order has the identifier that is handed out next.
LEMMA NextIsNew ==
    ASSUME CallsInv, next + 1 \in Ids
    PROVE  LET new == next + 1
           IN  /\ calls[new] = NoCall
               /\ \A i \in Ids : Order("TerminateClient", new, i) \notin orders
               /\ Order("HangupModule", new, 0) \notin orders
               /\ \A id \in Ids : new \notin LegIds(calls[id])
               /\ ~ Registered(new)
<1>1. next \in Nat /\ next + 1 > next  BY RouterConstants DEF CallsInv, RouterInv, TypeOK
<1>2. calls[next + 1].phase = "none"  BY <1>1 DEF CallsInv, RouterInv, Reservations, Fresh
<1>3. calls[next + 1] = NoCall  BY <1>2 DEF CallsInv, Shaped, WellShaped
<1>4. LegIds(NoCall) = {} /\ NoCall.phase = "none"  BY DEF LegIds, NoCall, NoLeg
<1>5. GrantsFresh /\ CleanupOrdered  BY DEF CallsInv
<1>6. Ordered(next + 1, NoCall, orders)  BY <1>3, <1>5 DEF CleanupOrdered, Ordered
<1>7. \A id \in Ids : next + 1 \notin LegIds(calls[id])  BY <1>1, <1>5 DEF GrantsFresh, LegIds
<1>8. ~ Registered(next + 1)  BY <1>1, <1>5 DEF GrantsFresh, Registered
<1> QED  BY <1>3, <1>4, <1>6, <1>7, <1>8 DEF Ordered

\* The call that Dial or Incoming creates: its legs are grants that may use the module.
LEMMA NewCallCalls ==
    ASSUME CallsInv, next + 1 \in Ids, next' = next + 1, NEW c \in Call, WellShaped(c),
           c.phase \in {"dialing", "ringing"}, \A i \in LegIds(c) : ~ c.legs[i].closing,
           \A i \in LegIds(c) :
                /\ Registered(i) /\ c.legs[i].account = registrations[i].account
                /\ c.module \in policies[c.legs[i].account].modules
                /\ c.phase = "ringing" => policies[c.legs[i].account].receive,
           calls' = [calls EXCEPT ![next + 1] = c], UNCHANGED <<registrations, policies>>,
           NEW X, orders' = orders \cup X,
           \A o \in X : o.kind \in {"Ring", "DialModule"}
    PROVE  Shaped' /\ CleanupOrdered' /\ HangupBare' /\ GrantsFresh' /\ LegsMatch' /\ Authorized'
<1> DEFINE new == next + 1
<1>1. calls \in [Ids -> Call]  BY DEF CallsInv, RouterInv, TypeOK
<1>2. calls'[new] = c /\ \A k \in Ids \ {new} : calls'[k] = calls[k]  BY <1>1
<1>3. \A k, id, i : k \in {"TerminateClient", "HangupModule"} => Order(k, id, i) \notin X  BY OrderFields
<1>4. Ordered(new, c, orders')  BY <1>3, NextIsNew DEF Ordered
<1>5. \A k \in Ids : SameCleanup(k, orders, orders')  BY <1>3 DEF SameCleanup
<1>6. Shaped' /\ CleanupOrdered' /\ HangupBare'  BY <1>4, <1>5, OneCallReplaced
<1>7. GrantsFresh'
  <2> SUFFICES ASSUME NEW i \in Ids, i > next'
               PROVE  registrations'[i].account = None /\ \A id \in Ids : calls'[id].legs[i].account = None
    BY DEF GrantsFresh
  <2>1. next \in Nat /\ i > next  BY RouterConstants DEF CallsInv, RouterInv, TypeOK, Ids
  <2>2. registrations[i].account = None /\ \A id \in Ids : calls[id].legs[i].account = None
    BY <2>1 DEF CallsInv, GrantsFresh
  <2>3. c.legs[i].account = None  BY <2>2 DEF LegIds, Registered
  <2> QED  BY <1>2, <2>2, <2>3
<1>8. LegsMatch'  BY <1>2 DEF CallsInv, LegsMatch, Registered
<1>9. Authorized'
  <2> SUFFICES ASSUME NEW id \in Ids, NEW i \in OpenLegs(calls'[id])
               PROVE  LET p == policies[calls'[id].legs[i].account]
                      IN  calls'[id].module \in p.modules /\ (calls'[id].phase = "ringing" => p.receive)
    BY DEF Authorized
  <2>1. CASE id = new  BY <1>2, <2>1 DEF OpenLegs
  <2>2. CASE id # new  BY <1>2, <2>2 DEF CallsInv, Authorized
  <2> QED  BY <2>1, <2>2
<1> QED  BY <1>6, <1>7, <1>8, <1>9

\* A call that goes out has one leg, the dialling client's.
LEMMA DialCalls ==
    ASSUME CallsInv, NEW i \in Ids, NEW m \in Modules, Dial(i, m)
    PROVE  Shaped' /\ CleanupOrdered' /\ HangupBare' /\ GrantsFresh' /\ LegsMatch' /\ Authorized'
<1> DEFINE a == registrations[i].account
           l == [j \in Ids |-> IF j = i THEN [account |-> a, closing |-> FALSE] ELSE NoLeg]
           c == [module |-> m, phase |-> "dialing", winner |-> i, deadline |-> "pending",
                 legs |-> l, moduleClosed |-> FALSE, owner |-> a]
           X == {Order("DialModule", next + 1, i)}
<1>1. a \in Accounts /\ Registered(i)  BY DEF Dial, Valid, Registered, CallsInv, RouterInv, TypeOK, Registration
<1>2. next + 1 \in Ids /\ i \in 0 .. MaxId  BY RouterConstants DEF CallsInv, RouterInv, TypeOK, Dial, Ids
<1>3. m \in policies[a].modules  BY DEF Dial, DialChoices, Eligible
<1>4. l \in [Ids -> Leg] /\ LegIds(c) = {i} /\ OpenLegs(c) = {i} /\ l[i].account = a /\ ~ l[i].closing
  BY <1>1, RouterConstants DEF Leg, NoLeg, LegIds, OpenLegs
<1>5. c \in Call  BY <1>1, <1>2, <1>4 DEF Call, Phases
<1>6. WellShaped(c)  BY <1>4 DEF WellShaped
<1>7. calls' = [calls EXCEPT ![next + 1] = c] /\ next' = next + 1 /\ orders' = orders \cup X
      /\ UNCHANGED <<registrations, policies>>
  BY DEF Dial
<1>8. \A o \in X : o.kind \in {"Ring", "DialModule"}  BY OrderFields
<1>9. c.phase = "dialing" /\ c.module = m /\ c.legs = l  OBVIOUS
<1> HIDE DEF c, l, X, a
<1>10. \A k \in LegIds(c) : /\ Registered(k) /\ c.legs[k].account = registrations[k].account
                            /\ c.module \in policies[c.legs[k].account].modules /\ ~ c.legs[k].closing
                            /\ c.phase = "ringing" => policies[c.legs[k].account].receive
  BY <1>1, <1>3, <1>4, <1>9 DEF a
<1> QED  BY <1>2, <1>5, <1>6, <1>7, <1>8, <1>9, <1>10, NewCallCalls

\* A call that comes in rings a client or more, each of which may receive it.
LEMMA IncomingCalls ==
    ASSUME CallsInv, NEW m \in Modules, Incoming(m)
    PROVE  Shaped' /\ CleanupOrdered' /\ HangupBare' /\ GrantsFresh' /\ LegsMatch' /\ Authorized'
<1> DEFINE l == [j \in Ids |-> IF j \in Targets(m) THEN [account |-> registrations[j].account, closing |-> FALSE] ELSE NoLeg]
           c == [module |-> m, phase |-> "ringing", winner |-> 0, deadline |-> "pending",
                 legs |-> l, moduleClosed |-> FALSE, owner |-> None]
           X == {Order("Ring", next + 1, i) : i \in Targets(m)}
<1>1. \A j \in Targets(m) : /\ j \in Ids /\ registrations[j].account \in Accounts /\ Registered(j)
                            /\ m \in policies[registrations[j].account].modules
                            /\ policies[registrations[j].account].receive
  BY DEF Targets, Valid, Registered, CallsInv, RouterInv, TypeOK, Registration
<1>2. next + 1 \in Ids /\ 0 \in 0 .. MaxId  BY RouterConstants DEF CallsInv, RouterInv, TypeOK, Incoming, Ids
<1>3. /\ l \in [Ids -> Leg] /\ LegIds(c) = Targets(m) /\ OpenLegs(c) = Targets(m)
      /\ \A j \in Targets(m) : l[j].account = registrations[j].account /\ ~ l[j].closing
  BY <1>1, RouterConstants DEF Leg, NoLeg, LegIds, OpenLegs
<1>4. c \in Call  BY <1>2, <1>3 DEF Call, Phases
<1>5. Targets(m) # {}  BY DEF Incoming
<1>6. WellShaped(c)  BY <1>3, <1>5 DEF WellShaped
<1>7. calls' = [calls EXCEPT ![next + 1] = c] /\ next' = next + 1 /\ orders' = orders \cup X
      /\ UNCHANGED <<registrations, policies>>
  BY DEF Incoming
<1>8. \A o \in X : o.kind \in {"Ring", "DialModule"}  BY OrderFields
<1>9. c.phase = "ringing" /\ c.module = m /\ c.legs = l  OBVIOUS
<1> HIDE DEF c, l, X
<1>10. \A k \in LegIds(c) : /\ Registered(k) /\ c.legs[k].account = registrations[k].account
                            /\ c.module \in policies[c.legs[k].account].modules /\ ~ c.legs[k].closing
                            /\ c.phase = "ringing" => policies[c.legs[k].account].receive
  BY <1>1, <1>3, <1>9
<1> QED  BY <1>2, <1>4, <1>6, <1>7, <1>8, <1>9, <1>10, NewCallCalls

\* The step leaves one call as it leaves all others: what the lemmas on Fewer ask for.
LEMMA OneCallFewer ==
    ASSUME CallsInv, NEW id \in Ids, NEW d, Fewer(calls[id], d), calls' = [calls EXCEPT ![id] = d],
           UNCHANGED <<next, registrations, policies>>
    PROVE  GrantsFresh' /\ LegsMatch' /\ Authorized'
<1>1. calls \in [Ids -> Call]  BY DEF CallsInv, RouterInv, TypeOK
<1>2. \A k \in Ids : Fewer(calls[k], calls'[k])  BY <1>1 DEF Fewer
<1> QED  BY <1>2, FewerLegs, FewerAuthorized

\* The first answer: the other legs close and the call is the winner's.
LEMMA AnswerCalls ==
    ASSUME CallsInv, NEW i \in Ids, NEW id \in Ids, Answer(i, id)
    PROVE  Shaped' /\ CleanupOrdered' /\ HangupBare' /\ GrantsFresh' /\ LegsMatch' /\ Authorized'
<1> DEFINE c == calls[id]
           e == CloseLegs(c, Ids \ {i})
           won == [e EXCEPT !.phase = "connecting", !.winner = i, !.deadline = "pending", !.owner = registrations[i].account]
<1>1. c \in Call /\ WellShaped(c) /\ c.phase = "ringing" /\ i \in OpenLegs(c)
  BY DEF CallsInv, RouterInv, TypeOK, Shaped, Answer
<1>2. UNCHANGED <<next, registrations, policies>>  BY DEF Answer
<1>3. CASE TimedOut(c)
  <2>1. calls' = [calls EXCEPT ![id] = End(c)] /\ Tighter(c, End(c))  BY <1>1, <1>3, EndTight DEF Answer
  <2>2. End(c).phase = "ending"  BY <1>1, EndExact
  <2>3. orders' = orders \cup CleanupOrders(id, c, End(c))  BY <1>3, <2>2 DEF Answer
  <2>4. Shaped' /\ CleanupOrdered' /\ HangupBare'  BY <2>1, <2>3, OneCallTightened
  <2> QED  BY <1>2, <2>1, <2>4, TighterIsFewer, OneCallFewer
<1>4. CASE ~ TimedOut(c)
  <2>1. /\ e \in Call /\ e.moduleClosed = c.moduleClosed /\ e.module = c.module /\ e.phase = c.phase
        /\ \A k \in Ids : e.legs[k].account = c.legs[k].account
        /\ \A k \in Ids : c.legs[k].closing => e.legs[k].closing
        /\ LegIds(e) = LegIds(c) /\ OpenLegs(e) = OpenLegs(c) \ (Ids \ {i})
    BY <1>1, CloseLegsExact
  <2>2. OpenLegs(e) = {i}  BY <1>1, <2>1 DEF OpenLegs, LegIds
  <2>3. registrations[i].account = c.legs[i].account
    BY <1>1 DEF CallsInv, LegsMatch, OpenLegs, Answer, Valid
  <2>4. calls' = [calls EXCEPT ![id] = won]
        /\ orders' = orders \cup CleanupOrders(id, c, won) \cup {o \in {Order("AnswerModule", id, i)} : won.phase = "connecting"}
    BY <1>4 DEF Answer
  <2> HIDE DEF e
  <2>5. /\ won.phase = "connecting" /\ won.winner = i /\ won.owner = registrations[i].account
        /\ won.legs = e.legs /\ won.moduleClosed = e.moduleClosed /\ won.module = e.module
    BY <2>1 DEF Call
  <2> HIDE DEF won
  <2>6. LegIds(won) = LegIds(e) /\ OpenLegs(won) = {i}  BY <2>2, <2>5 DEF LegIds, OpenLegs
  <2>7. WellShaped(won)  BY <1>1, <2>1, <2>3, <2>5, <2>6 DEF WellShaped
  <2>8. orders' = orders \cup CleanupOrders(id, c, won) \cup {Order("AnswerModule", id, i)}  BY <2>4, <2>5
  <2>9. Ordered(id, won, orders')
    <3>1. Ordered(id, c, orders)  BY DEF CallsInv, CleanupOrdered, Ordered
    <3>2. \A k \in Ids : Order("TerminateClient", id, k) \in CleanupOrders(id, c, won)
            <=> k \in OpenLegs(c) /\ k \in LegIds(won) /\ won.legs[k].closing
      BY OrderFields DEF CleanupOrders
    <3>3. Order("HangupModule", id, 0) \notin CleanupOrders(id, c, won)
      BY <2>5, OrderFields DEF CleanupOrders
    <3>4. \A k : Order("TerminateClient", id, k) # Order("AnswerModule", id, i)  BY OrderFields
    <3>5. Order("HangupModule", id, 0) # Order("AnswerModule", id, i)  BY OrderFields
    <3>6. ASSUME NEW k \in Ids
          PROVE  Order("TerminateClient", id, k) \in orders' <=> k \in LegIds(won) /\ won.legs[k].closing
      BY <2>1, <2>5, <2>6, <2>8, <3>1, <3>2, <3>4 DEF Ordered, OpenLegs
    <3>7. Order("HangupModule", id, 0) \notin orders'  BY <1>1, <2>8, <3>1, <3>3, <3>5 DEF Ordered
    <3> QED  BY <2>5, <3>6, <3>7 DEF Ordered
  <2>10. \A k \in Ids \ {id} : SameCleanup(k, orders, orders')
    BY <2>8, CleanupIsOwn, OrderFields DEF SameCleanup
  <2>11. \A o \in orders' \ orders : o.kind = "HangupModule" => o.registration = 0
    BY <2>8, CleanupBare, OrderFields
  <2>12. Shaped' /\ CleanupOrdered' /\ HangupBare'  BY <2>4, <2>7, <2>9, <2>10, <2>11, OneCallReplaced
  <2>13. Fewer(c, won)  BY <1>1, <2>1, <2>5, <2>6 DEF Fewer
  <2> QED  BY <1>2, <2>4, <2>12, <2>13, OneCallFewer
<1> QED  BY <1>3, <1>4

\* Evidence that the far end is connected, and a deadline that passes.
LEMMA ProgressCalls ==
    ASSUME CallsInv, NEW id \in Ids, Connected(id) \/ DeadlinePasses(id)
    PROVE  Shaped' /\ CleanupOrdered' /\ HangupBare' /\ GrantsFresh' /\ LegsMatch' /\ Authorized'
<1> DEFINE c == calls[id]
           d == IF Connected(id) THEN [c EXCEPT !.phase = "connected", !.deadline = "none"]
                ELSE [c EXCEPT !.deadline = "passed"]
<1>1. c \in Call /\ WellShaped(c)  BY DEF CallsInv, RouterInv, TypeOK, Shaped
<1>2. calls' = [calls EXCEPT ![id] = d] /\ UNCHANGED <<orders, next, registrations, policies>>
  BY DEF Connected, DeadlinePasses
<1>3. /\ d.winner = c.winner /\ d.owner = c.owner /\ d.legs = c.legs /\ d.moduleClosed = c.moduleClosed
      /\ d.module = c.module
      /\ \/ c.phase \in {"dialing", "connecting"} /\ d.phase = "connected" /\ d.deadline = "none"
         \/ c.deadline = "pending" /\ d.phase = c.phase
  BY <1>1 DEF Connected, DeadlinePasses, Call
<1> HIDE DEF d
<1>4. c.deadline = "pending" => c.phase \notin {"none", "ending", "connected"}
  BY <1>1 DEF WellShaped, NoCall
<1>5. LegIds(d) = LegIds(c) /\ OpenLegs(d) = OpenLegs(c)  BY <1>3 DEF LegIds, OpenLegs
<1>6. WellShaped(d)  BY <1>1, <1>3, <1>4, <1>5 DEF WellShaped
<1>7. Ordered(id, c, orders)  BY DEF CallsInv, CleanupOrdered, Ordered
<1>8. Ordered(id, d, orders')  BY <1>2, <1>3, <1>4, <1>5, <1>7 DEF Ordered
<1>9. \A k \in Ids \ {id} : SameCleanup(k, orders, orders')  BY <1>2 DEF SameCleanup
<1>10. Shaped' /\ CleanupOrdered' /\ HangupBare'  BY <1>2, <1>6, <1>8, <1>9, OneCallReplaced
<1>11. Fewer(c, d)  BY <1>3, <1>5 DEF Fewer
<1> QED  BY <1>2, <1>10, <1>11, OneCallFewer

\* A client hangs up.
LEMMA HangupCalls ==
    ASSUME CallsInv, NEW id \in Ids, NEW i \in Ids, Hangup(i, id)
    PROVE  Shaped' /\ CleanupOrdered' /\ HangupBare' /\ GrantsFresh' /\ LegsMatch' /\ Authorized'
<1>1. calls[id] \in Call /\ WellShaped(calls[id])  BY DEF CallsInv, RouterInv, TypeOK, Shaped
<1>2. Tighter(calls[id], Withdraw(calls[id], {i}))  BY <1>1, WithdrawTight
<1> QED  BY <1>2, TighterIsFewer, OneCallTightened, OneCallFewer DEF Hangup

-----------------------------------------------------------------------------
(* Evidence of cleanup.                                                    *)

\* A call that is replaced by d, or forgotten if d has nothing left to clean up.
LEMMA FinishCalls ==
    ASSUME CallsInv, NEW id \in Ids, NEW d, Finished(d) \/ WellShaped(d), Ordered(id, d, orders'),
           Fewer(calls[id], d), d.phase = "ending" \/ ~ Finished(d),
           calls' = [calls EXCEPT ![id] = IF Finished(d) THEN NoCall ELSE d],
           \A k \in Ids \ {id} : SameCleanup(k, orders, orders'),
           \A o \in orders' \ orders : o.kind = "HangupModule" => o.registration = 0,
           UNCHANGED <<next, registrations, policies>>
    PROVE  Shaped' /\ CleanupOrdered' /\ HangupBare' /\ GrantsFresh' /\ LegsMatch' /\ Authorized'
<1> DEFINE e == IF Finished(d) THEN NoCall ELSE d
<1>1. LegIds(NoCall) = {} /\ OpenLegs(NoCall) = {} /\ NoCall.phase = "none"
      /\ \A i \in Ids : NoCall.legs[i].account = None
  BY DEF LegIds, OpenLegs, NoCall, NoLeg
<1>2. WellShaped(NoCall)  BY <1>1 DEF WellShaped
<1>3. WellShaped(e)  BY <1>2
<1>4. Ordered(id, e, orders')  BY <1>1 DEF Ordered, Finished
<1>5. Fewer(calls[id], e)  BY <1>1 DEF Fewer
<1> HIDE DEF e
<1>6. calls' = [calls EXCEPT ![id] = e]  BY DEF e
<1> QED  BY <1>3, <1>4, <1>5, <1>6, OneCallReplaced, OneCallFewer

\* The module confirms that it is down.
LEMMA ModuleClosedCalls ==
    ASSUME CallsInv, NEW id \in Ids, ModuleClosed(id)
    PROVE  Shaped' /\ CleanupOrdered' /\ HangupBare' /\ GrantsFresh' /\ LegsMatch' /\ Authorized'
<1> DEFINE b == calls[id]
           c == [b EXCEPT !.moduleClosed = TRUE]
           d == End(c)
           H == Order("HangupModule", id, 0)
           X == CleanupOrders(id, c, d)
<1>1. b \in Call /\ WellShaped(b) /\ b.phase # "none"
  BY DEF CallsInv, RouterInv, TypeOK, Shaped, ModuleClosed, Active
<1>2. /\ c \in Call /\ c.moduleClosed /\ c.phase = b.phase /\ c.legs = b.legs /\ c.deadline = b.deadline
      /\ c.module = b.module /\ c.winner = b.winner /\ c.owner = b.owner
  BY <1>1 DEF Call
<1> HIDE DEF c
<1>3. LegIds(c) = LegIds(b) /\ OpenLegs(c) = OpenLegs(b)  BY <1>2 DEF LegIds, OpenLegs
<1>4. /\ d \in Call /\ d.phase = "ending" /\ d.deadline = "none" /\ d.moduleClosed /\ OpenLegs(d) = {}
      /\ Closer(c, d)
  <2>1. CASE c.phase = "ending"
    BY <1>1, <1>2, <1>3, <2>1 DEF End, WellShaped, Closer, SameHold
  <2>2. CASE c.phase # "ending"
    <3>1. SameHold(c, d)  BY <1>2, EndHold
    <3> QED  BY <1>1, <1>2, <2>2, <3>1, EndExact DEF Closer
  <2> QED  BY <2>1, <2>2
<1> HIDE DEF d
<1>5. Ordered(id, b, orders)  BY DEF CallsInv, CleanupOrdered, Ordered
<1>6. Ordered(id, c, orders \ {H})
  <2>1. \A i \in Ids : Order("TerminateClient", id, i) # H  BY OrderFields
  <2> QED  BY <1>2, <1>3, <1>5, <2>1 DEF Ordered
<1>7. Ordered(id, d, (orders \ {H}) \cup X)  BY <1>2, <1>4, <1>6, CloserOrdered
<1>8. H \notin X  BY <1>4, OrderFields DEF CleanupOrders
<1>9. orders' = (orders \ {H}) \cup X  BY <1>8 DEF ModuleClosed, c, d
<1>10. \A k \in Ids \ {id} : SameCleanup(k, orders, orders')
  <2>1. \A k \in Ids \ {id} : \A q, i : Order(q, k, i) # H  BY OrderFields
  <2>2. \A k \in Ids \ {id} : \A q, i : Order(q, k, i) \notin X  BY CleanupIsOwn
  <2> QED  BY <1>9, <2>1, <2>2 DEF SameCleanup
<1>11. \A o \in orders' \ orders : o.kind = "HangupModule" => o.registration = 0
  BY <1>9, CleanupBare
<1>12. Finished(d) \/ WellShaped(d)  BY <1>4 DEF WellShaped
<1>13. Fewer(b, d)  BY <1>2, <1>3, <1>4 DEF Fewer, Closer, SameHold
<1>14. calls' = [calls EXCEPT ![id] = IF Finished(d) THEN NoCall ELSE d]
       /\ UNCHANGED <<next, registrations, policies>>
  BY DEF ModuleClosed, Finish, c, d
<1>15. Ordered(id, d, orders')  BY <1>7, <1>9
<1> HIDE DEF X, H
<1> QED  BY <1>4, <1>10, <1>11, <1>12, <1>13, <1>14, <1>15, FinishCalls

\* A client confirms that its leg is closed.
LEMMA ClientClosedCalls ==
    ASSUME CallsInv, NEW id \in Ids, NEW i \in Ids, ClientClosed(id, i)
    PROVE  Shaped' /\ CleanupOrdered' /\ HangupBare' /\ GrantsFresh' /\ LegsMatch' /\ Authorized'
<1> DEFINE b == calls[id]
           c == Withdraw(b, {i})
           d == [c EXCEPT !.legs[i] = NoLeg]
           T == Order("TerminateClient", id, i)
           X == CleanupOrders(id, b, c)
<1>1. b \in Call /\ WellShaped(b) /\ i \in LegIds(b)
  BY DEF CallsInv, RouterInv, TypeOK, Shaped, ClientClosed
<1>2. Tighter(b, c) /\ c \in Call /\ OpenLegs(c) \subseteq OpenLegs(b) \ {i}
  BY <1>1, WithdrawTight, WithdrawCloses DEF Tighter, Closer, SameHold
<1>3. LegIds(c) = LegIds(b)  BY <1>2 DEF Tighter, Closer, SameHold, LegIds
<1> HIDE DEF c
<1>4. /\ d.phase = c.phase /\ d.winner = c.winner /\ d.owner = c.owner /\ d.deadline = c.deadline
      /\ d.moduleClosed = c.moduleClosed /\ d.module = c.module
      /\ d.legs[i] = NoLeg /\ \A k \in Ids \ {i} : d.legs[k] = c.legs[k]
  BY <1>2 DEF Call
<1> HIDE DEF d
<1>5. LegIds(d) = LegIds(c) \ {i} /\ OpenLegs(d) = OpenLegs(c)
  BY <1>2, <1>4 DEF LegIds, OpenLegs, NoLeg
<1>6. c.phase # "none"
  BY <1>1, <1>2 DEF Tighter, WellShaped, Closer, SameHold, NoCall, NoLeg, LegIds
<1>7. Finished(d) \/ WellShaped(d)
  <2>1. WellShaped(c)  BY <1>2 DEF Tighter
  <2>2. c.phase \in {"dialing", "connecting", "connected"} => c.winner \in OpenLegs(d) /\ c.winner \in Ids \ {i}
    BY <1>2, <1>5, <2>1 DEF WellShaped, OpenLegs, LegIds
  <2> QED  BY <1>4, <1>5, <1>6, <2>1, <2>2 DEF WellShaped
<1>8. Ordered(id, c, orders \cup X)
  <2>1. Ordered(id, b, orders)  BY DEF CallsInv, CleanupOrdered, Ordered
  <2> QED  BY <1>1, <1>2, <2>1, CloserOrdered DEF Tighter
<1>9. orders' = (orders \cup X) \ {T}  BY DEF ClientClosed, c
<1>10. Ordered(id, d, orders')
  <2>1. \A k \in Ids \ {i} : Order("TerminateClient", id, k) # T  BY OrderFields
  <2>2. Order("HangupModule", id, 0) # T  BY OrderFields
  <2> QED  BY <1>4, <1>5, <1>8, <1>9, <2>1, <2>2 DEF Ordered
<1>11. \A k \in Ids \ {id} : SameCleanup(k, orders, orders')
  <2>1. \A k \in Ids \ {id} : \A q, j : Order(q, k, j) # T  BY OrderFields
  <2>2. \A k \in Ids \ {id} : \A q, j : Order(q, k, j) \notin X  BY CleanupIsOwn
  <2> QED  BY <1>9, <2>1, <2>2 DEF SameCleanup
<1>12. \A o \in orders' \ orders : o.kind = "HangupModule" => o.registration = 0
  BY <1>9, CleanupBare
<1>13. Fewer(b, d)
  BY <1>2, <1>4, <1>5 DEF Fewer, Tighter, Closer, SameHold, NoLeg, OpenLegs, LegIds
<1>14. Finished(d) => d.phase = "ending"
  <2>1. WellShaped(c)  BY <1>2 DEF Tighter
  <2>2. c.phase \in Phases \cup {"none"}  BY <1>2 DEF Call
  <2> QED  BY <1>4, <1>5, <1>6, <2>1, <2>2 DEF WellShaped, Finished, Phases
<1>15. calls' = [calls EXCEPT ![id] = IF Finished(d) THEN NoCall ELSE d]
       /\ UNCHANGED <<next, registrations, policies>>
  BY DEF ClientClosed, Finish, c, d
<1> HIDE DEF X, T
<1> QED  BY <1>7, <1>10, <1>11, <1>12, <1>13, <1>14, <1>15, FinishCalls

-----------------------------------------------------------------------------
(* The invariant.                                                          *)

\* A step that tightens calls, adds no grant and settles what stays authorized.
LEMMA TightenedCalls ==
    ASSUME CallsInv, Tightened, orders' = orders \cup AllCleanupOrders(calls, calls'), next' = next,
           \A i \in Ids : registrations'[i].account \in {registrations[i].account, None},
           Authorized' \/ UNCHANGED policies
    PROVE  Shaped' /\ CleanupOrdered' /\ HangupBare' /\ GrantsFresh' /\ LegsMatch' /\ Authorized'
<1>1. \A id \in Ids : Fewer(calls[id], calls'[id])  BY TighterIsFewer DEF Tightened
<1> QED  BY <1>1, TightenedOrders, FewerLegs, FewerAuthorized

\* Changes to accounts: what they withdraw is withdrawn, what stays is still permitted.
LEMMA AccountCalls ==
    ASSUME CallsInv, NEW a \in Accounts,
           (\E p \in Policy : PutPolicy(a, p)) \/ DeleteAccount(a) \/ SuspendAccount(a)
    PROVE  Shaped' /\ CleanupOrdered' /\ HangupBare' /\ GrantsFresh' /\ LegsMatch' /\ Authorized'
<1>1. Tightened /\ Authorized'  BY PutPolicyCalls, RevokeCalls
<1>2. orders' = orders \cup AllCleanupOrders(calls, calls') /\ next' = next
  BY DEF PutPolicy, DeleteAccount, SuspendAccount, Revoke
<1>3. \A i \in Ids : registrations'[i].account \in {registrations[i].account, None}
  BY DEF PutPolicy, DeleteAccount, SuspendAccount, Revoke, Dropped, NoRegistration
<1> QED  BY <1>1, <1>2, <1>3, TightenedCalls

\* A new grant belongs to no leg yet; one that expires stays listed.
LEMMA GrantCalls ==
    ASSUME CallsInv, (\E a \in Accounts : Register(a)) \/ (\E i \in Ids : ExpireRegistration(i))
    PROVE  Shaped' /\ CleanupOrdered' /\ HangupBare' /\ GrantsFresh' /\ LegsMatch' /\ Authorized'
<1>1. UNCHANGED <<policies, calls, orders>>  BY DEF Register, ExpireRegistration
<1>2. Shaped' /\ CleanupOrdered' /\ HangupBare' /\ Authorized'
  BY <1>1 DEF CallsInv, Shaped, CleanupOrdered, HangupBare, Authorized
<1>3. registrations \in [Ids -> Registration] /\ next \in Nat
  BY RouterConstants DEF CallsInv, RouterInv, TypeOK
<1>4. CASE \E a \in Accounts : Register(a)
  <2>1. next' = next + 1 /\ next + 1 \in Ids /\ \A i \in Ids \ {next + 1} : registrations'[i] = registrations[i]
    BY <1>3, <1>4, RouterConstants DEF Register, Ids
  <2>2. \A i \in Ids : i > next' => i > next /\ i # next + 1  BY <1>3, <2>1 DEF Ids
  <2>3. GrantsFresh'  BY <1>1, <2>1, <2>2 DEF CallsInv, GrantsFresh
  <2>4. \A id \in Ids : next + 1 \notin LegIds(calls[id])  BY <2>1, NextIsNew
  <2>5. LegsMatch'  BY <1>1, <2>1, <2>4 DEF CallsInv, LegsMatch, Registered, LegIds
  <2> QED  BY <1>2, <2>3, <2>5
<1>5. CASE \E i \in Ids : ExpireRegistration(i)
  <2>1. next' = next /\ \A i \in Ids : registrations'[i].account = registrations[i].account
    BY <1>3, <1>5 DEF ExpireRegistration, Registration
  <2>2. GrantsFresh'  BY <1>1, <2>1 DEF CallsInv, GrantsFresh
  <2>3. LegsMatch'
    <3>1. LegsMatch /\ calls' = calls  BY <1>1 DEF CallsInv
    <3>2. \A id \in Ids : LegIds(calls[id]) \subseteq Ids  BY DEF LegIds
    <3> QED  BY <2>1, <3>1, <3>2 DEF LegsMatch, Registered
  <2> QED  BY <1>2, <2>2, <2>3
<1> QED  BY <1>4, <1>5

\* Logout and the periodic sweep tighten calls.
LEMMA SweepTightens ==
    ASSUME CallsInv, (\E i \in Ids : Logout(i)) \/ Tick
    PROVE  Tightened
<1>1. CASE \E i \in Ids : Logout(i)
  <2>1. PICK i \in Ids : Logout(i)  BY <1>1
  <2> DEFINE after == CallsAfterRevocation({i}, TRUE)
  <2>2. after \in [Ids -> Call] /\ \A id \in Ids : Tighter(calls[id], after[id])  BY RevocationTightens
  <2>3. calls' = after  BY <2>1 DEF Logout
  <2> HIDE DEF after
  <2> QED  BY <2>2, <2>3 DEF Tightened
<1>2. CASE Tick
  <2> DEFINE revoked == CallsAfterRevocation(Expired, TRUE)
             settled == [id \in Ids |-> IF TimedOut(revoked[id]) THEN End(revoked[id]) ELSE revoked[id]]
  <2>1. \A id \in Ids : Tighter(calls[id], revoked[id])  BY RevocationTightens
  <2>2. calls' = settled  BY <1>2 DEF Tick
  <2> HIDE DEF revoked
  <2>3. \A id \in Ids : revoked[id] \in Call /\ WellShaped(revoked[id])  BY <2>1 DEF Tighter, Closer, SameHold
  <2>4. \A id \in Ids : Tighter(revoked[id], End(revoked[id]))  BY <2>3, EndTight
  <2>5. \A id \in Ids : Tighter(calls[id], settled[id])  BY <2>1, <2>4, TighterTwice
  <2>6. settled \in [Ids -> Call]  BY <2>5 DEF Tighter, Closer, SameHold
  <2> QED  BY <2>2, <2>5, <2>6 DEF Tightened
<1> QED  BY <1>1, <1>2

\* Losing grants, by logout or in the periodic sweep.
LEMMA SweepCalls ==
    ASSUME CallsInv, (\E i \in Ids : Logout(i)) \/ Tick
    PROVE  Shaped' /\ CleanupOrdered' /\ HangupBare' /\ GrantsFresh' /\ LegsMatch' /\ Authorized'
<1>1. UNCHANGED <<policies, next>> /\ orders' = orders \cup AllCleanupOrders(calls, calls')
  BY DEF Logout, Tick
<1>2. \A i \in Ids : registrations'[i].account \in {registrations[i].account, None}
  <2>1. \A S : \A i \in Ids : Dropped(S)[i].account \in {registrations[i].account, None}
    BY DEF Dropped, NoRegistration
  <2>2. \E S : registrations' = Dropped(S)
    <3>1. ASSUME NEW i \in Ids, Logout(i) PROVE registrations' = Dropped({i})  BY <3>1 DEF Logout
    <3>2. ASSUME Tick PROVE registrations' = Dropped(Expired)  BY <3>2 DEF Tick
    <3> QED  BY <3>1, <3>2
  <2> QED  BY <2>1, <2>2
<1>3. Tightened  BY SweepTightens
<1> QED  BY <1>1, <1>2, <1>3, TightenedCalls

\* A module that becomes ready or is lost.
LEMMA ReadyTightens ==
    ASSUME CallsInv, NEW m \in Modules, NEW up \in BOOLEAN, SetModuleReady(m, up)
    PROVE  Tightened
<1>1. calls \in [Ids -> Call] /\ \A id \in Ids : WellShaped(calls[id])
  BY DEF CallsInv, RouterInv, TypeOK, Shaped
<1>2. \A id \in Ids : Tighter(calls[id], calls[id]) /\ Tighter(calls[id], End(calls[id]))
  BY <1>1, TighterSelf, EndTight
<1>3. \A id \in Ids : Tighter(calls[id], calls'[id])  BY <1>1, <1>2 DEF SetModuleReady
<1>4. calls' \in [Ids -> Call]  BY ReadySettles DEF CallsInv, RouterInv, Settled
<1> QED  BY <1>3, <1>4 DEF Tightened

\* A module becomes ready, or is lost with its calls.
LEMMA ReadyCalls ==
    ASSUME CallsInv, NEW m \in Modules, NEW up \in BOOLEAN, SetModuleReady(m, up)
    PROVE  Shaped' /\ CleanupOrdered' /\ HangupBare' /\ GrantsFresh' /\ LegsMatch' /\ Authorized'
<1>1. Tightened  BY ReadyTightens
<1>2. /\ UNCHANGED <<policies, next, registrations>>
      /\ orders' = orders \cup AllCleanupOrders(calls, calls')
  BY DEF SetModuleReady
<1> QED  BY <1>1, <1>2, TightenedCalls

\* A router without calls and grants.
LEMMA InitCalls == Init => CallsInv
<1> SUFFICES ASSUME Init PROVE CallsInv  OBVIOUS
<1>1. LegIds(NoCall) = {} /\ OpenLegs(NoCall) = {} /\ NoCall.phase = "none"
      /\ \A i \in Ids : NoCall.legs[i].account = None
  BY DEF LegIds, OpenLegs, NoCall, NoLeg
<1>2. \A id \in Ids : calls[id] = NoCall  BY DEF Init
<1>3. Shaped  BY <1>1, <1>2 DEF Shaped, WellShaped
<1>4. CleanupOrdered /\ HangupBare  BY <1>1, <1>2 DEF Init, CleanupOrdered, HangupBare
<1>5. GrantsFresh /\ LegsMatch  BY <1>1, <1>2 DEF Init, GrantsFresh, LegsMatch, NoRegistration
<1>6. Authorized  BY <1>1, <1>2 DEF Authorized
<1> QED  BY <1>3, <1>4, <1>5, <1>6, InitInv DEF CallsInv

\* Nothing changes.
LEMMA StutterCalls ==
    ASSUME CallsInv, UNCHANGED vars
    PROVE  Shaped' /\ CleanupOrdered' /\ HangupBare' /\ GrantsFresh' /\ LegsMatch' /\ Authorized'
BY DEF CallsInv, vars, Shaped, CleanupOrdered, HangupBare, GrantsFresh, LegsMatch, Registered, Authorized

\* The invariant is inductive.
LEMMA NextCalls == CallsInv /\ [Next]_vars => CallsInv'
<1> SUFFICES ASSUME CallsInv, [Next]_vars PROVE CallsInv'  OBVIOUS
<1> DEFINE Kept == Shaped' /\ CleanupOrdered' /\ HangupBare' /\ GrantsFresh' /\ LegsMatch' /\ Authorized'
<1>1. RouterInv'  BY NextInv DEF CallsInv
<1>2. Kept
  <2>1. ASSUME NEW a \in Accounts, NEW r \in 1 .. MaxRevision, NEW p \in Allocations,
               PutPolicy(a, [modules |-> p.modules, receive |-> p.receive, revision |-> r])
        PROVE  Kept
    <3> DEFINE q == [modules |-> p.modules, receive |-> p.receive, revision |-> r]
    <3>1. q \in Policy  BY RouterConstants DEF Policy
    <3>2. PutPolicy(a, q)  BY <2>1
    <3> HIDE DEF q
    <3>3. \E x \in Policy : PutPolicy(a, x)  BY <3>1, <3>2
    <3> QED  BY <3>3, AccountCalls
  <2>2. ASSUME NEW a \in Accounts, DeleteAccount(a) \/ SuspendAccount(a) PROVE Kept  BY <2>2, AccountCalls
  <2>3. ASSUME NEW a \in Accounts, Register(a) PROVE Kept  BY <2>3, GrantCalls
  <2>4. ASSUME NEW i \in Ids, ExpireRegistration(i) PROVE Kept  BY <2>4, GrantCalls
  <2>5. ASSUME NEW i \in Ids, Logout(i) PROVE Kept  BY <2>5, SweepCalls
  <2>6. CASE Tick  BY <2>6, SweepCalls
  <2>7. ASSUME NEW m \in Modules, NEW up \in BOOLEAN, SetModuleReady(m, up) PROVE Kept  BY <2>7, ReadyCalls
  <2>8. ASSUME NEW m \in Modules, Incoming(m) PROVE Kept  BY <2>8, IncomingCalls
  <2>9. ASSUME NEW m \in Modules, NEW i \in Ids, Dial(i, m) PROVE Kept  BY <2>9, DialCalls
  <2>10. ASSUME NEW i \in Ids, NEW id \in Ids, Answer(i, id) PROVE Kept  BY <2>10, AnswerCalls
  <2>11. ASSUME NEW i \in Ids, NEW id \in Ids, Hangup(i, id) PROVE Kept  BY <2>11, HangupCalls
  <2>12. ASSUME NEW i \in Ids, NEW id \in Ids, ClientClosed(id, i) PROVE Kept  BY <2>12, ClientClosedCalls
  <2>13. ASSUME NEW id \in Ids, Connected(id) \/ DeadlinePasses(id) PROVE Kept  BY <2>13, ProgressCalls
  <2>14. ASSUME NEW id \in Ids, ModuleClosed(id) PROVE Kept  BY <2>14, ModuleClosedCalls
  <2>15. CASE UNCHANGED vars  BY <2>15, StutterCalls
  <2> HIDE DEF Kept
  <2> QED
    BY <2>1, <2>2, <2>3, <2>4, <2>5, <2>6, <2>7, <2>8, <2>9, <2>10, <2>11, <2>12, <2>13, <2>14, <2>15 DEF Next
<1> QED  BY <1>1, <1>2 DEF CallsInv

\* The invariant holds in every behaviour of the router.
THEOREM CallsInvariant == Spec => []CallsInv
<1>1. Init => CallsInv  BY InitCalls
<1>2. CallsInv /\ [Next]_vars => CallsInv'  BY NextCalls
<1> QED  BY <1>1, <1>2, PTL DEF Spec

-----------------------------------------------------------------------------
(* The results about calls.                                                *)

\* Orders that are current for one module are one order: its call is in one phase.
LEMMA CurrentOrderIsOne == CallsInv => OneCurrentOrder
<1> SUFFICES ASSUME CallsInv,
                    NEW o \in orders, o.kind \in {"DialModule", "AnswerModule", "HangupModule"}, ActionCurrent(o),
                    NEW q \in orders, q.kind \in {"DialModule", "AnswerModule", "HangupModule"}, ActionCurrent(q),
                    calls[o.call].module = calls[q.call].module
             PROVE  o = q
  BY DEF OneCurrentOrder
<1>1. o \in Orders /\ q \in Orders  BY DEF CallsInv, RouterInv, TypeOK
<1>2. calls[o.call].phase # "none" /\ calls[q.call].phase # "none"  BY DEF ActionCurrent
<1>3. o.call = q.call
  BY <1>1, <1>2 DEF CallsInv, RouterInv, Reservations, ModuleReservation, Active, Orders
<1>4. ASSUME NEW x \in orders, x.kind \in {"DialModule", "AnswerModule", "HangupModule"}, ActionCurrent(x)
      PROVE  /\ x.kind = "DialModule" <=> calls[x.call].phase = "dialing"
             /\ x.kind = "AnswerModule" <=> calls[x.call].phase = "connecting"
             /\ x.kind = "HangupModule" <=> calls[x.call].phase = "ending"
             /\ x.registration = IF x.kind = "HangupModule" THEN 0 ELSE calls[x.call].winner
  <2>1. CASE x.kind = "HangupModule"  BY <1>4, <2>1 DEF ActionCurrent, CallsInv, HangupBare
  <2>2. CASE x.kind = "DialModule"  BY <1>4, <2>2 DEF ActionCurrent
  <2>3. CASE x.kind = "AnswerModule"  BY <1>4, <2>3 DEF ActionCurrent
  <2> QED  BY <1>4, <2>1, <2>2, <2>3
<1>5. o.kind = q.kind /\ o.registration = q.registration  BY <1>3, <1>4
<1> QED  BY <1>1, <1>3, <1>5 DEF Orders

\* Calls are in the shape of their phase, exactly the needed cleanup is ordered, and no module
\* is driven two ways (closeLeg, end, finish, ActionCurrent).
THEOREM RouterCalls == Spec => []CallsWellFormed
<1>1. CallsInv => CallsWellFormed
  BY CurrentOrderIsOne DEF CallsInv, Shaped, WellShaped, CallShape, CallsWellFormed
<1> QED  BY <1>1, CallsInvariant, PTL

\* No open leg outlives the permission it needs (PutPolicy, revoke).
THEOREM RouterAuthorization == Spec => []Authorized
<1>1. CallsInv => Authorized  BY DEF CallsInv
<1> QED  BY <1>1, CallsInvariant, PTL

\* What NoSecondWinner says of one call.
Settles(c, d) ==
    /\ c.winner # 0 => d.winner \in {c.winner, 0}
    /\ c.winner # 0 /\ d.winner = 0 => d.phase = "none"
    /\ c.phase = "ending" => d.phase \in {"ending", "none"}

\* An operation on accounts, grants or modules gives no call another winner.
LEMMA TightenedSettles ==
    ASSUME Tightened, NEW id \in Ids
    PROVE  Settles(calls[id], calls'[id])
BY DEF Tightened, Tighter, Closer, Settles

\* Neither do operations on one call; only a ringing call, which has none, gets a winner.
LEMMA OneCallSettlesWinner ==
    ASSUME CallsInv, NEW id \in Ids, NEW d, Settles(calls[id], d), calls' = [calls EXCEPT ![id] = d], NEW k \in Ids
    PROVE  Settles(calls[k], calls'[k])
<1>1. calls \in [Ids -> Call]  BY DEF CallsInv, RouterInv, TypeOK
<1> QED  BY <1>1 DEF Settles

\* finish forgets the call with its winner.
LEMMA FinishSettles ==
    ASSUME CallsInv, NEW id \in Ids, NEW d, Settles(calls[id], d), NEW k \in Ids,
           calls' = [calls EXCEPT ![id] = IF Finished(d) THEN NoCall ELSE d]
    PROVE  Settles(calls[k], calls'[k])
<1> DEFINE e == IF Finished(d) THEN NoCall ELSE d
<1>1. Settles(calls[id], e)  BY DEF Settles, NoCall
<1>2. calls' = [calls EXCEPT ![id] = e]  OBVIOUS
<1> HIDE DEF e
<1> QED  BY <1>1, <1>2, OneCallSettlesWinner

\* No step gives a call a second winner or revives it.
LEMMA StepSettles ==
    ASSUME CallsInv, [Next]_vars, NEW k \in Ids
    PROVE  Settles(calls[k], calls'[k])
<1> DEFINE Kept == Settles(calls[k], calls'[k])
<1>1. Settles(calls[k], calls[k])  BY DEF Settles
<1>2. \A id \in Ids : calls[id] \in Call /\ WellShaped(calls[id])
  BY DEF CallsInv, RouterInv, TypeOK, Shaped
<1>3. Tightened => Kept  BY TightenedSettles
<1>4. calls' = calls => Kept  BY <1>1
<1>5. ASSUME NEW a \in Accounts, NEW r \in 1 .. MaxRevision, NEW p \in Allocations,
             PutPolicy(a, [modules |-> p.modules, receive |-> p.receive, revision |-> r])
      PROVE  Kept
  <2> DEFINE q == [modules |-> p.modules, receive |-> p.receive, revision |-> r]
  <2>1. q \in Policy  BY RouterConstants DEF Policy
  <2>2. PutPolicy(a, q)  BY <1>5
  <2> HIDE DEF q, Kept
  <2> QED  BY <1>3, <2>1, <2>2, PutPolicyCalls
<1>6. ASSUME NEW a \in Accounts, DeleteAccount(a) \/ SuspendAccount(a) PROVE Kept  BY <1>3, <1>6, RevokeCalls
<1>7. ASSUME NEW a \in Accounts, Register(a) PROVE Kept  BY <1>4, <1>7 DEF Register
<1>8. ASSUME NEW i \in Ids, ExpireRegistration(i) PROVE Kept  BY <1>4, <1>8 DEF ExpireRegistration
<1>9. ASSUME NEW i \in Ids, Logout(i) PROVE Kept  BY <1>3, <1>9, SweepTightens
<1>10. ASSUME NEW m \in Modules, NEW up \in BOOLEAN, SetModuleReady(m, up) PROVE Kept
  BY <1>3, <1>10, ReadyTightens
<1>11. ASSUME NEW m \in Modules, NEW i \in Ids, Dial(i, m) PROVE Kept
  <2>1. next + 1 \in Ids  BY <1>11, RouterConstants DEF Dial, CallsInv, RouterInv, TypeOK, Ids
  <2>2. calls[next + 1].winner = 0 /\ calls[next + 1].phase = "none"  BY <2>1, NextIsNew DEF NoCall
  <2>3. \A id \in Ids \ {next + 1} : calls'[id] = calls[id]  BY <1>11 DEF Dial, CallsInv, RouterInv, TypeOK
  <2> QED  BY <1>1, <2>2, <2>3 DEF Settles
<1>12. ASSUME NEW m \in Modules, Incoming(m) PROVE Kept
  <2>1. next + 1 \in Ids  BY <1>12, RouterConstants DEF Incoming, CallsInv, RouterInv, TypeOK, Ids
  <2>2. calls[next + 1].winner = 0 /\ calls[next + 1].phase = "none"  BY <2>1, NextIsNew DEF NoCall
  <2>3. \A id \in Ids \ {next + 1} : calls'[id] = calls[id]  BY <1>12 DEF Incoming, CallsInv, RouterInv, TypeOK
  <2> QED  BY <1>1, <2>2, <2>3 DEF Settles
<1>13. ASSUME NEW i \in Ids, NEW id \in Ids, Answer(i, id) PROVE Kept
  <2>1. calls[id].winner = 0 /\ calls[id].phase = "ringing"  BY <1>2, <1>13 DEF Answer, WellShaped
  <2>2. PICK d : calls' = [calls EXCEPT ![id] = d]  BY <1>13 DEF Answer
  <2>3. Settles(calls[id], d)  BY <2>1 DEF Settles
  <2> QED  BY <2>2, <2>3, OneCallSettlesWinner
<1>14. ASSUME NEW i \in Ids, NEW id \in Ids, Hangup(i, id) PROVE Kept
  <2> DEFINE d == Withdraw(calls[id], {i})
  <2>1. Tighter(calls[id], d)  BY <1>2, WithdrawTight
  <2>2. calls' = [calls EXCEPT ![id] = d]  BY <1>14 DEF Hangup
  <2> HIDE DEF d
  <2>3. Settles(calls[id], d)  BY <2>1 DEF Tighter, Closer, Settles
  <2> QED  BY <2>2, <2>3, OneCallSettlesWinner
<1>15. ASSUME NEW id \in Ids, Connected(id) \/ DeadlinePasses(id) PROVE Kept
  <2>1. CASE id = k
    <3>1. calls'[k].winner = calls[k].winner /\ (calls[k].phase = "ending" => calls'[k].phase = "ending")
      BY <1>2, <1>15, <2>1 DEF Connected, DeadlinePasses, Call, CallsInv, RouterInv, TypeOK
    <3> QED  BY <3>1 DEF Settles
  <2>2. CASE id # k
    <3>1. calls'[k] = calls[k]  BY <1>15, <2>2 DEF Connected, DeadlinePasses, CallsInv, RouterInv, TypeOK
    <3> QED  BY <1>1, <3>1
  <2> QED  BY <2>1, <2>2
<1>16. ASSUME NEW id \in Ids, ModuleClosed(id) PROVE Kept
  <2> DEFINE c == [calls[id] EXCEPT !.moduleClosed = TRUE]
             d == End(c)
  <2>1. c \in Call /\ c.winner = calls[id].winner /\ c.phase = calls[id].phase  BY <1>2 DEF Call
  <2> HIDE DEF c
  <2>2. Settles(calls[id], d)
    <3>1. CASE c.phase \in {"ending", "none"}  BY <2>1, <3>1 DEF End, Settles
    <3>2. CASE c.phase \notin {"ending", "none"}  BY <2>1, <3>2, EndExact DEF Settles
    <3> QED  BY <3>1, <3>2
  <2>3. calls' = [calls EXCEPT ![id] = IF Finished(d) THEN NoCall ELSE d]  BY <1>16 DEF ModuleClosed, Finish, c
  <2> HIDE DEF d
  <2> QED  BY <2>2, <2>3, FinishSettles
<1>17. ASSUME NEW id \in Ids, NEW i \in Ids, ClientClosed(id, i) PROVE Kept
  <2> DEFINE c == Withdraw(calls[id], {i})
             d == [c EXCEPT !.legs[i] = NoLeg]
  <2>1. Tighter(calls[id], c) /\ c \in Call  BY <1>2, WithdrawTight DEF Tighter, Closer, SameHold
  <2> HIDE DEF c
  <2>2. d.winner = c.winner /\ d.phase = c.phase  BY <2>1 DEF Call
  <2>3. calls' = [calls EXCEPT ![id] = IF Finished(d) THEN NoCall ELSE d]  BY <1>17 DEF ClientClosed, Finish, c
  <2> HIDE DEF d
  <2>4. Settles(calls[id], d)  BY <2>1, <2>2 DEF Tighter, Closer, Settles
  <2> QED  BY <2>3, <2>4, FinishSettles
<1>18. CASE UNCHANGED vars  BY <1>4, <1>18 DEF vars
<1>19. CASE \E id \in Ids : Connected(id) \/ ModuleClosed(id) \/ DeadlinePasses(id)  BY <1>15, <1>16, <1>19
<1>20. CASE Tick  BY <1>3, <1>20, SweepTightens
<1>21. CASE \E i \in Ids, id \in Ids : Answer(i, id) \/ Hangup(i, id) \/ ClientClosed(id, i)
  BY <1>13, <1>14, <1>17, <1>21
<1>22. CASE \E m \in Modules : Incoming(m) \/ \E up \in BOOLEAN : SetModuleReady(m, up)  BY <1>10, <1>12, <1>22
<1>23. CASE \E i \in Ids, m \in Modules : Dial(i, m)  BY <1>11, <1>23
<1>24. CASE \E i \in Ids : ExpireRegistration(i) \/ Logout(i)  BY <1>8, <1>9, <1>24
<1>25. CASE \E a \in Accounts : DeleteAccount(a) \/ SuspendAccount(a) \/ Register(a)  BY <1>6, <1>7, <1>25
<1> QED  BY <1>5, <1>18, <1>19, <1>20, <1>21, <1>22, <1>23, <1>24, <1>25 DEF Next

\* Losing a registration leaves a connected call connected.
LEMMA DialogStays ==
    ASSUME CallsInv, (\E i \in Ids : Logout(i)) \/ Tick, NEW id \in Ids, calls[id].phase = "connected"
    PROVE  calls'[id].phase = "connected"
<1>1. calls[id] \in Call /\ WellShaped(calls[id])  BY DEF CallsInv, RouterInv, TypeOK, Shaped
<1>2. ASSUME NEW S
      PROVE  LET d == CallsAfterRevocation(S, TRUE)[id]
             IN  d.phase = "connected" /\ d.deadline = "none"
  <2> DEFINE R == RevokedLegs(id, S, TRUE)
  <2>1. calls[id].winner \notin R  BY DEF RevokedLegs
  <2>2. CallsAfterRevocation(S, TRUE)[id] = Withdraw(calls[id], R)  BY DEF CallsAfterRevocation
  <2> HIDE DEF R
  <2>3. Withdraw(calls[id], R) = CloseLegs(calls[id], R)  BY <2>1 DEF Withdraw
  <2> DEFINE d == CloseLegs(calls[id], R)
  <2>4. d.phase = calls[id].phase /\ d.deadline = calls[id].deadline  BY <1>1, CloseLegsExact
  <2>5. calls[id].deadline = "none"  BY <1>1 DEF WellShaped
  <2> HIDE DEF d
  <2> QED  BY <2>2, <2>3, <2>4, <2>5 DEF d
<1>3. ASSUME NEW i \in Ids, Logout(i) PROVE calls'[id].phase = "connected"  BY <1>2, <1>3 DEF Logout
<1>4. CASE Tick
  <2> DEFINE revoked == CallsAfterRevocation(Expired, TRUE)
  <2>1. revoked[id].phase = "connected" /\ ~ TimedOut(revoked[id])  BY <1>2 DEF TimedOut
  <2>2. calls'[id] = IF TimedOut(revoked[id]) THEN End(revoked[id]) ELSE revoked[id]  BY <1>4 DEF Tick
  <2> QED  BY <2>1, <2>2
<1> QED  BY <1>3, <1>4

\* The first client to answer keeps the call, through every later step (Answer, end, revokeRegistration).
THEOREM RouterWinner == Spec => WinnerKept
<1>1. CallsInv /\ [Next]_vars => \A id \in Ids : Settles(calls[id], calls'[id])  BY StepSettles
<1>2. CallsInv =>
        ((Tick \/ \E i \in Ids : Logout(i)) =>
            \A id \in Ids : calls[id].phase = "connected" => calls'[id].phase = "connected")
  BY DialogStays
<1>3. Spec => NoSecondWinner
  BY <1>1, CallsInvariant, PTL DEF Spec, NoSecondWinner, Settles
<1>4. Spec => DialogOutlivesRegistration
  BY <1>2, CallsInvariant, PTL DEF Spec, DialogOutlivesRegistration
<1> QED  BY <1>3, <1>4, PTL DEF WinnerKept
=============================================================================
