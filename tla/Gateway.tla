------------------------------ MODULE Gateway ------------------------------
(***************************************************************************)
(* The SIP gateway between the account table and the telephony router:     *)
(* how a change of a SIP account reaches the registrar and the router      *)
(* while periodic refreshes read the same table without holding the        *)
(* dialog mutex (backend/sip_gateway.go, sip_accounts.go, sip_calls.go,    *)
(* internal/sipregistrar/registrar.go, internal/telephony/router.go).      *)
(*                                                                         *)
(* An account is reduced to its credential_revision: every change of its   *)
(* name, port or password raises it, so the registrar's test "same key,    *)
(* same ID, same Revision" is equality of revisions; 0 is "no account".    *)
(* Every action that the code runs under sipAccountsMu is one step; the    *)
(* database reads and writes between two holds of the mutex are steps of   *)
(* their own.  Module permissions are the subject of module Router.        *)
(***************************************************************************)
EXTENDS Naturals

CONSTANTS Accounts,   \* account identifiers, each created at most once (token())
          Phones,     \* SIP clients
          None,       \* no binding, no admission, no pending commit
          MaxCred,    \* bound: credential revisions of one account
          MaxWrites,  \* bound: account changes through the API
          MaxFaults   \* bound: lost answers, failed reads, lost listeners, restarts

GatewayBounds ==
  /\ MaxCred \in Nat \ {0} /\ MaxWrites \in Nat /\ MaxFaults \in Nat
  /\ None \notin Accounts /\ None \notin [account : Accounts, revision : 1..MaxCred]

VARIABLES db,        \* sip_accounts: the committed revision of each account
          born,      \* the identifiers that were ever handed out
          late,      \* a commit whose answer was lost and which the server has not decided
          writer,    \* the API request that holds sipWritesMu
          refresher, \* the two callers of refresh: the ticker and the API request
          epoch,     \* g.epoch
          ready,     \* snapshotReady()
          accounts,  \* g.accounts, which the registrar also holds
          policies,  \* g.policies
          pol,       \* Router.policies: the accepted revision
          rev,       \* Router.revisions: the highest revision ever accepted
          reg,       \* Registrar.current: one binding per phone
          grant,     \* the router registration behind each binding (its revision)
          invite,    \* an INVITE whose call record is being inserted (admitting)
          call,      \* the call of each account: the revision it was placed with
          floor,     \* history: the oldest revision that may still be honoured
          writes,    \* counts account changes
          faults     \* counts faults

gateway == <<epoch, ready, accounts, policies>>
router == <<pol, rev, grant, call>>
table == <<db, born, late>>
vars == <<table, writer, refresher, gateway, router, reg, invite, floor, writes, faults>>

Revisions == 0..MaxCred
Refreshers == {"ticker", "api"}
Idle == [epoch |-> 0, pc |-> "idle", snapshot |-> None]
Nobody == [a \in Accounts |-> 0]

Init ==
  /\ \E present \in SUBSET Accounts :
       /\ born = present
       /\ db = [a \in Accounts |-> IF a \in present THEN 1 ELSE 0]
  /\ late = None
  /\ writer = [pc |-> "idle", account |-> None, value |-> 0]
  /\ refresher = [w \in Refreshers |-> Idle]
  /\ epoch = 0 /\ ready = FALSE
  /\ accounts = Nobody /\ policies = Nobody
  /\ pol = Nobody /\ rev = Nobody
  /\ reg = [p \in Phones |-> None]
  /\ grant = [p \in Phones |-> 0]
  /\ invite = [p \in Phones |-> None]
  /\ call = Nobody
  /\ floor = Nobody
  /\ writes = 0 /\ faults = 0

----------------------------------------------------------------------------
(* What the registrar and the router make of a list of accounts.           *)

(* A binding survives only while its account keeps its revision.           *)
Replace(next, offline) ==
  reg' = [p \in Phones |->
           IF /\ reg[p] # None
              /\ \/ accounts[reg[p].account] = 0
                 \/ next[reg[p].account] # accounts[reg[p].account]
                 \/ reg[p].account \in offline
             THEN None ELSE reg[p]]

(* An admission that waits for its record remembers the binding it came    *)
(* through; a binding that was dropped never comes back under its old ID.  *)
ForgetBindings ==
  invite' = [p \in Phones |->
              IF invite[p] # None /\ reg'[p] = None
                THEN [invite[p] EXCEPT !.bound = FALSE] ELSE invite[p]]

(* PutPolicy takes a policy that is not older than the newest revision it  *)
(* has seen, and after a DeleteAccount only a newer one.                   *)
PutPolicy(a, p) == /\ p # 0
                   /\ p >= rev[a]
                   /\ pol[a] = 0 => p > rev[a]

(* The accounts whose router registrations and calls a sync revokes.       *)
Revoked(acc, pols) ==
  {a \in Accounts : \/ ~PutPolicy(a, pols[a])          \* DeleteAccount
                    \/ acc[a] = 0                       \* SuspendAccount
                    \/ pol[a] \notin {0, pols[a]}}      \* a new revision

(* The policies are put, the accounts that lost theirs are deleted, the    *)
(* ones without a listener or under reconciliation suspended, and every    *)
(* binding gets its router registration refreshed or issued anew.          *)
syncLocked(acc, pols) ==
  LET next == {a \in Accounts : PutPolicy(a, pols[a])}
      Issued(a) == IF acc[a] = pols[a] THEN acc[a] ELSE 0 IN
  /\ pol' = [a \in Accounts |-> IF a \in next THEN pols[a] ELSE 0]
  /\ rev' = [a \in Accounts |-> IF a \in next THEN pols[a] ELSE rev[a]]
  /\ grant' = [p \in Phones |->
                IF reg'[p] = None \/ reg'[p].account \notin next THEN 0
                ELSE IF grant[p] # 0 /\ reg'[p].account \notin Revoked(acc, pols)
                  THEN grant[p] ELSE Issued(reg'[p].account)]

CallsLeft(acc, pols) == [a \in Accounts |-> IF a \in Revoked(acc, pols) THEN 0 ELSE call[a]]

SyncOnly(acc, pols) == syncLocked(acc, pols) /\ call' = CallsLeft(acc, pols)

(* One account changes at once and every snapshot being read is fenced.    *)
applyAccountLocked(a, account, policy) ==
  /\ epoch' = epoch + 1
  /\ accounts' = [accounts EXCEPT ![a] = account]
  /\ policies' = [policies EXCEPT ![a] = policy]
  /\ Replace(accounts', {})
  /\ ForgetBindings
  /\ SyncOnly(accounts', policies')

----------------------------------------------------------------------------
(* Account changes through the API.  Everything up to the commit is seen   *)
(* by nobody else: the transaction holds the advisory lock, so it waits    *)
(* for a commit that is still undecided.                                   *)

Request(a, value) ==
  /\ writer.pc = "idle" /\ writes < MaxWrites
  /\ \/ a \notin born /\ value = 1                                 \* POST
     \/ db[a] # 0 /\ value \in {db[a], db[a] + 1} /\ value <= MaxCred \* PATCH
     \/ db[a] # 0 /\ value = 0                                     \* DELETE
  /\ writes' = writes + 1
  /\ born' = born \cup {a}

AdvisoryLock == late = None

Commit(a, value) ==
  /\ Request(a, value)
  /\ AdvisoryLock
  /\ db' = [db EXCEPT ![a] = value]
  /\ writer' = [pc |-> "apply", account |-> a, value |-> value]
  /\ UNCHANGED <<late, refresher, gateway, router, reg, invite, floor, faults>>

(* The commit fails or its answer is lost: it landed, it did not, or the   *)
(* server has yet to decide.                                               *)
CommitUnconfirmed(a, value) ==
  /\ Request(a, value)
  /\ AdvisoryLock
  /\ faults < MaxFaults
  /\ \/ db' = [db EXCEPT ![a] = value] /\ late' = None
     \/ db' = db /\ late' \in {None, [account |-> a, value |-> value]}
  /\ writer' = [pc |-> "suspend", account |-> a, value |-> value]
  /\ faults' = faults + 1
  /\ UNCHANGED <<refresher, gateway, router, reg, invite, floor>>

LateCommit ==
  /\ late # None
  /\ \/ db' = [db EXCEPT ![late.account] = late.value]
     \/ db' = db
  /\ late' = None
  /\ UNCHANGED <<born, writer, refresher, gateway, router, reg, invite, floor, writes, faults>>

(* A deleted account may never be honoured again.                          *)
Floor(value) == IF value = 0 THEN MaxCred + 1 ELSE value

Apply ==
  /\ writer.pc = "apply"
  /\ applyAccountLocked(writer.account, writer.value, writer.value)
  /\ floor' = [floor EXCEPT ![writer.account] = Floor(writer.value)]
  /\ writer' = [writer EXCEPT !.pc = "refresh"]
  /\ UNCHANGED <<table, refresher, ready, writes, faults>>

(* No credential of the account stays live; its policy keeps its version.  *)
suspendAccountLocked ==
  /\ writer.pc = "suspend"
  /\ applyAccountLocked(writer.account, 0, policies[writer.account])
  /\ floor' = [floor EXCEPT ![writer.account] =
                 IF late = None THEN Floor(db[writer.account]) ELSE db[writer.account]]
  /\ writer' = [pc |-> "idle", account |-> None, value |-> 0]
  /\ UNCHANGED <<table, refresher, ready, writes, faults>>

----------------------------------------------------------------------------
(* refresh: note the epoch, read without the mutex, apply if not fenced.   *)

RefreshBegin(w) ==
  /\ refresher[w].pc = "idle"
  /\ w = "api" => writer.pc = "refresh"
  /\ refresher' = [refresher EXCEPT ![w] =
                     [epoch |-> epoch, pc |-> "read", snapshot |-> None]]
  /\ UNCHANGED <<table, writer, gateway, router, reg, invite, floor, writes, faults>>

readSnapshot(w) ==
  /\ refresher[w].pc = "read"
  /\ \/ /\ refresher' = [refresher EXCEPT ![w].pc = "apply", ![w].snapshot = db]
        /\ UNCHANGED faults
     \/ /\ faults < MaxFaults
        /\ refresher' = [refresher EXCEPT ![w].pc = "apply"]
        /\ faults' = faults + 1
  /\ UNCHANGED <<table, writer, gateway, router, reg, invite, floor, writes>>

RefreshDone(w) ==
  /\ refresher' = [refresher EXCEPT ![w] = Idle]
  /\ writer' = IF w = "api" THEN [pc |-> "idle", account |-> None, value |-> 0]
                            ELSE writer

FencedNever(w) == FALSE
Fenced(w) == refresher[w].epoch # epoch

RefreshFenced(w) ==
  /\ refresher[w].pc = "apply"
  /\ Fenced(w)
  /\ RefreshDone(w)
  /\ UNCHANGED <<table, gateway, router, reg, invite, floor, writes, faults>>

RefreshFailed(w) ==
  /\ refresher[w].pc = "apply" /\ refresher[w].snapshot = None
  /\ ~Fenced(w)
  /\ ready' = FALSE
  /\ RefreshDone(w)
  /\ UNCHANGED <<table, epoch, accounts, policies, router, reg, invite, floor, writes, faults>>

(* dark: accounts none of whose listeners could be opened; offline: the    *)
(* accounts whose listener was closed (an address went away).              *)
applySnapshotLocked(w, dark, offline) ==
  LET snapshot == refresher[w].snapshot IN
  /\ refresher[w].pc = "apply" /\ snapshot # None
  /\ ~Fenced(w)
  /\ accounts' = [a \in Accounts |-> IF a \in dark THEN 0 ELSE snapshot[a]]
  /\ policies' = snapshot
  /\ Replace(accounts', offline)
  /\ ForgetBindings
  /\ SyncOnly(accounts', policies')
  /\ ready' = TRUE
  /\ RefreshDone(w)
  /\ UNCHANGED <<table, epoch, floor, writes>>

ListenersKept(w) ==
  /\ applySnapshotLocked(w, {}, {})
  /\ UNCHANGED faults

ListenersLost(w) ==
  /\ faults < MaxFaults
  /\ \E a \in Accounts, dark \in {TRUE, FALSE} :
       /\ accounts[a] # 0 \/ dark
       /\ applySnapshotLocked(w, IF dark THEN {a} ELSE {}, {a})
  /\ faults' = faults + 1

(* No refresh succeeded for fifteen seconds.                               *)
Lapse ==
  /\ ready
  /\ ready' = FALSE
  /\ UNCHANGED <<table, writer, refresher, epoch, accounts, policies, router, reg, invite,
                 floor, writes, faults>>

----------------------------------------------------------------------------
(* Requests of phones.                                                     *)

(* REGISTER with the digest of the account the registrar now holds.        *)
Register(p, a) ==
  /\ ready
  /\ accounts[a] # 0
  /\ reg[p] # None => reg[p].account = a
  /\ reg' = [reg EXCEPT ![p] = [account |-> a, revision |-> accounts[a]]]
  /\ SyncOnly(accounts, policies)
  /\ UNCHANGED <<table, writer, refresher, gateway, invite, floor, writes, faults>>

Unregister(p) ==
  /\ ready
  /\ reg[p] # None /\ accounts[reg[p].account] # 0
  /\ reg' = [reg EXCEPT ![p] = None]
  /\ ForgetBindings
  /\ SyncOnly(accounts, policies)
  /\ UNCHANGED <<table, writer, refresher, gateway, floor, writes, faults>>

(* The binding and its router registration share one expiry.               *)
Expire(p) ==
  /\ reg[p] # None
  /\ reg' = [reg EXCEPT ![p] = None]
  /\ ForgetBindings
  /\ grant' = [grant EXCEPT ![p] = 0]
  /\ UNCHANGED <<table, writer, refresher, gateway, pol, rev, call, floor, writes, faults>>

(* An INVITE is authenticated, then the mutex is given up for the record.  *)
InviteBegin(p) ==
  /\ ready
  /\ reg[p] # None /\ accounts[reg[p].account] # 0
  /\ \A q \in Phones : invite[q] # None => invite[q].account # reg[p].account
  /\ invite' = [invite EXCEPT ![p] = [account |-> reg[p].account,
                                      bound |-> TRUE,
                                      revision |-> accounts[reg[p].account]]]
  /\ UNCHANGED <<table, writer, refresher, gateway, router, reg, floor, writes, faults>>

inviteBindingCurrent(p) ==
  /\ ready
  /\ accounts[invite[p].account] = invite[p].revision
  /\ invite[p].bound

(* Under the mutex again: the account and the binding are checked afresh,  *)
(* the router is brought up to date and decides.                           *)
InvitePlaced(p) ==
  LET a == invite[p].account IN
  /\ invite[p] # None
  /\ inviteBindingCurrent(p)
  /\ reg' = reg
  /\ syncLocked(accounts, policies)
  /\ CallsLeft(accounts, policies)[a] = 0 /\ grant'[p] # 0
  /\ call' = [CallsLeft(accounts, policies) EXCEPT ![a] = invite[p].revision]
  /\ invite' = [invite EXCEPT ![p] = None]
  /\ UNCHANGED <<table, writer, refresher, gateway, floor, writes, faults>>

(* The router refuses: the account has a call, or the binding no grant.    *)
InviteBusy(p) ==
  /\ invite[p] # None
  /\ inviteBindingCurrent(p)
  /\ reg' = reg
  /\ SyncOnly(accounts, policies)
  /\ call'[invite[p].account] # 0 \/ grant'[p] = 0
  /\ invite' = [invite EXCEPT ![p] = None]
  /\ UNCHANGED <<table, writer, refresher, gateway, floor, writes, faults>>

(* The record could not be written, or the account or binding is gone.     *)
InviteRefused(p) ==
  /\ invite[p] # None
  /\ inviteBindingCurrent(p) => faults < MaxFaults
  /\ faults' = IF inviteBindingCurrent(p) THEN faults + 1 ELSE faults
  /\ invite' = [invite EXCEPT ![p] = None]
  /\ UNCHANGED <<table, writer, refresher, gateway, router, reg, floor, writes>>

Hangup(a) ==
  /\ call[a] # 0
  /\ call' = [call EXCEPT ![a] = 0]
  /\ UNCHANGED <<table, writer, refresher, gateway, pol, rev, grant, reg, invite, floor,
                 writes, faults>>

(* The program stops and starts again: only the table survives, and a      *)
(* commit that the server has not decided.                                 *)
Restart ==
  /\ faults < MaxFaults
  /\ writer' = [pc |-> "idle", account |-> None, value |-> 0]
  /\ refresher' = [w \in Refreshers |-> Idle]
  /\ epoch' = 0 /\ ready' = FALSE
  /\ accounts' = Nobody /\ policies' = Nobody
  /\ pol' = Nobody /\ rev' = Nobody
  /\ reg' = [p \in Phones |-> None]
  /\ grant' = [p \in Phones |-> 0]
  /\ invite' = [p \in Phones |-> None]
  /\ call' = Nobody
  /\ faults' = faults + 1
  /\ UNCHANGED <<table, floor, writes>>

----------------------------------------------------------------------------

Next ==
  \/ \E a \in Accounts, value \in Revisions : Commit(a, value) \/ CommitUnconfirmed(a, value)
  \/ LateCommit \/ Apply \/ suspendAccountLocked
  \/ \E w \in Refreshers :
       \/ RefreshBegin(w) \/ readSnapshot(w) \/ RefreshFenced(w) \/ RefreshFailed(w)
       \/ ListenersKept(w) \/ ListenersLost(w)
  \/ Lapse
  \/ \E p \in Phones, a \in Accounts : Register(p, a)
  \/ \E p \in Phones : \/ Unregister(p) \/ Expire(p) \/ InviteBegin(p)
                       \/ InvitePlaced(p) \/ InviteBusy(p) \/ InviteRefused(p)
  \/ \E a \in Accounts : Hangup(a)
  \/ Restart

(* The ticker fires for ever and each of its reads ends within its timeout;*)
(* an API request runs to its end; the database server decides a commit.   *)
Fairness ==
  /\ WF_vars(LateCommit)
  /\ WF_vars(Apply) /\ WF_vars(suspendAccountLocked)
  /\ \A w \in Refreshers :
       /\ WF_vars(RefreshBegin(w)) /\ WF_vars(readSnapshot(w)) /\ WF_vars(RefreshFenced(w))
       /\ WF_vars(RefreshFailed(w) \/ ListenersKept(w) \/ ListenersLost(w))

Spec == Init /\ [][Next]_vars
FairSpec == Spec /\ Fairness

----------------------------------------------------------------------------

TypeOK ==
  /\ db \in [Accounts -> Revisions] /\ born \subseteq Accounts
  /\ late = None \/ late \in [account : Accounts, value : Revisions]
  /\ writer.pc \in {"idle", "apply", "suspend", "refresh"}
  /\ \A w \in Refreshers : /\ refresher[w].pc \in {"idle", "read", "apply"}
                           /\ refresher[w].snapshot \in {None} \cup [Accounts -> Revisions]
                           /\ refresher[w].epoch \in 0..epoch
  /\ epoch \in 0..MaxWrites /\ ready \in BOOLEAN
  /\ {accounts, policies, pol, rev, call} \subseteq [Accounts -> Revisions]
  /\ \A p \in Phones : /\ reg[p] = None \/ reg[p] \in [account : Accounts, revision : 1..MaxCred]
                       /\ invite[p] = None \/ invite[p].account \in Accounts
  /\ grant \in [Phones -> Revisions]
  /\ floor \in [Accounts -> 0..MaxCred + 1]

(* "A stale refresh can never restore credentials revoked by a later       *)
(* mutation" (backend/sip_snapshot_test.go): once a change of an account   *)
(* has been applied, or its outcome is unknown and it has been suspended,  *)
(* no table of the gateway, of the registrar or of the router honours an   *)
(* older revision again, whatever refreshes were under way.  A call placed *)
(* under revoked credentials ends in the step that revokes them, and none  *)
(* is placed with them by an INVITE that was authenticated before          *)
(* (deploy/SIP-CALLS.md: a password change or a deletion ends the          *)
(* account's calls at once).                                               *)
FencedCredentials ==
  /\ \A a \in Accounts : /\ accounts[a] # 0 => accounts[a] >= floor[a]
                         /\ pol[a] # 0 /\ accounts[a] # 0 => pol[a] >= floor[a]
                         /\ call[a] # 0 => call[a] >= floor[a] /\ call[a] = accounts[a]
  /\ \A p \in Phones : /\ reg[p] # None => reg[p].revision >= floor[reg[p].account]
                       /\ grant[p] # 0 => grant[p] >= floor[reg[p].account]

(* The three places that know an account agree: a binding is one of the    *)
(* account's present revision, and a phone holds a router registration     *)
(* only through such a binding and a policy of the same revision.  With    *)
(* the types.                                                              *)
ViewsAgree ==
  /\ TypeOK
  /\ \A p \in Phones :
       /\ reg[p] # None => reg[p].revision = accounts[reg[p].account]
       /\ grant[p] # 0 => /\ reg[p] # None
                          /\ grant[p] = reg[p].revision
                          /\ grant[p] = pol[reg[p].account]

(* The router refuses a revision it deleted before (PutPolicy).  It must   *)
(* therefore never have deleted, for an account that exists, the very      *)
(* revision the table holds: no refresh would bring that account back.     *)
NoLockout ==
  \A a \in Accounts : db[a] # 0 /\ pol[a] = 0 => rev[a] < db[a]

(* When changes and faults stop, every account of the table, and no other, *)
(* is served with its present credentials and stays so.                    *)
Reconciled == accounts = db /\ policies = db /\ pol = db
Converges == <>[]Reconciled
============================================================================
