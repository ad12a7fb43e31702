# Rykvo Voice: TLA+ specification and proofs

Rykvo Voice runs a set of cellular modules (modems, reached by cable or through Wi-Fi
calling) and offers their telephone calls to SIP phones and their SMS and MMS to a web
interface and an HTTP API. This directory specifies the part of the Go backend that
decides: who may use a module, what is sent to a carrier and how often, what is recorded
about it, and what is set up and taken down underneath. Paths below are relative to
`src/backend/` unless they begin with `src/`, `deploy/` or `frontend/`; `vowifi/` stands for
`internal/vocat/vowifi/`.

- [1. The system](#1-the-system)
- [2. Modules and the code](#2-modules-and-the-code)
- [3. Runs and bounds](#3-runs-and-bounds)
- [4. Fairness](#4-fairness)
- [5. Proofs](#5-proofs)
- [6. Findings and observations](#6-findings-and-observations)
- [7. What is not modelled](#7-what-is-not-modelled)
- [8. Plan](#8-plan)

To repeat a check: `tlc -config Calls.cfg MCCalls` (module and configuration of each run
are in `PROJECT.json`); to repeat a proof: `tlapm RouterProofs.tla`.

## 1. The system

### Inventory

| Component | State it keeps | Operations | Talks to |
|---|---|---|---|
| Telephony router (`internal/telephony`) | policies, registrations, calls with their legs, module and account reservations | PutPolicy, DeleteAccount, SuspendAccount, Register, Refresh, Logout, SetModuleReady, Dial, Incoming, Answer, Connected, Hangup, ModuleClosed, ClientClosed, Tick | returns orders (ring, dial, answer, hang up, terminate a client) that the SIP adapters execute; they report back |
| SIP gateway (`sip_gateway.go`, `sip_accounts.go`, `internal/sipregistrar`) | account snapshot, epoch, fenced accounts, registrar bindings | account API, refresh every few seconds, REGISTER, admission of INVITE | the database, the router |
| Outgoing calls (`sip_calls.go`) | one goroutine per call: line, module work, device gate, dialog, record | INVITE, CANCEL, ACK, BYE, poll of the line, cleanup | router, line, phone, `call_records` |
| Incoming calls (`sip_incoming*.go`) | one call goroutine, one goroutine per phone, shared records | probe, ring, 200, BYE, re-INVITE, finalise | router, line, phones, `call_records` |
| Message delivery (`messages_*.go`) | the `messages` table, one worker per module, a replay loop | claim, send or download, store the outcome, timeout, delivery report, deletion | transport of the module, outcome journal |
| Outcome journal (`internal/durable`) | map of pending outcomes, one file per outcome | Apply, Pending, Prepare, Replay | disk, database |
| Dispatch (`internal/dispatch`, `messages_scheduler.go`) | group of goroutines with a limit and a token; keyed locks | Start, Close, Changed; Lock and its unlock function | the message loop, module writers |
| Enqueueing and synchronisation (`messages_sync.go`, `messages_enqueue.go`, `messages_threads*`) | rows, revisions, threads, identities of requests, clients' mirrors | enqueue, sync by cursor, delete, purge | database triggers, browser |
| Webhooks, event log (`webhook*.go`) | event queue, leases, retries | claim, deliver, back off, supersede, page | HTTP endpoints |
| Alerts (`alerts*.go`, `alerts_schema.sql`) | streaks, health windows, notes | count, raise, re-check, post | database triggers, Telegram |
| Wi-Fi message bridge (`internal/hardware/sms_bridge.go`, `mms_bridge.go`) | pending requests, the worker's table of used ids | sms-send, mms-send, sms-ack, life of the worker | a child process over pipes |
| Module work, restart, eSIM, recovery (`modules_work.go`, `modules_restart.go`, `modules_esim*.go`, `modules_recovery.go`) | reservations, job rows, card epoch, recovery streaks | reserve, reset, switch card, commit, poll | devices, database |
| Wi-Fi calling supervisor (`modules_wifi*.go`, `module_networks.go`) | intent, worker, bindings | enable, rebind, recover, change network | worker process |
| Uplinks (`internal/uplink`) | leased routing tables and their records | open, watch, close, sweep | kernel |
| Wi-Fi session (`vowifi/orchestrator.go`, `internal/hardware/wifi_vocat.go`) | radio mode, sessions, phases | Enable, Disable, watch, retry | SIM, tunnel, IMS |
| SIM card access (`vowifi/ec20_*.go`) | AT port, logical channels | identity, AKA, downloads | card |
| IKE tunnel (`vowifi/ike/provider.go`, `transport.go`, `eap.go`) | one SA | IKE_SA_INIT, EAP-AKA, IKE_AUTH, DELETE | operator's gateway |
| Tunnel plane, ESP window (`vowifi/ike/userspace_linux.go`, `esp.go`, ...) | interface, routes, firewall, media leases; bitmap | install, media, close; check, commit | kernel, packets |
| IMS registration, calls, messages (`vowifi/ims`) | sockets, policies, dialogs, RP references | REGISTER, INVITE dialogs, MESSAGE | P-CSCF |
| RTP jitter buffer (`vowifi/ims/rtp_jitter.go`) | slots by sequence number | push, pop | call audio |
| Cellular and Wi-Fi voice (`internal/hardware/voice_*.go`) | handles, sound settings and their journal, streams | open, dial, answer, release, recover | modem, worker process |
| SIP domain tunnel (`tunnel*.go`, `cloudflare.go`) | one binding, row, files | bind, provision, disconnect, clean up | remote service |

The complete list, with the reason for every part that is left out, is `components` in
`PROJECT.json`.

### How they interact

A phone's INVITE goes from the gateway (is the account still valid?) through the router (is
the account allowed the module, and is the module free?) to a call goroutine, which reserves
module work, takes the device gate and opens a line. That line is a cellular handle or a
stream of the Wi-Fi worker, whose session is made by the orchestrator from SIM, tunnel and
IMS. Messages are dispatched by the scheduler to one worker per module, which uses the modem
or the bridge to the Wi-Fi worker and stores what came of it through the journal. Restarts,
eSIM changes, Wi-Fi switching and recoveries compete with both for the module.

### What is hard

- *Concurrency.* An outgoing call is carried by a worker goroutine, an ender goroutine,
  the SIP server and the gateway's sync loop; an incoming call by a main goroutine and one
  goroutine per phone; an IMS dialog by socket readers, watchers, timers and the user. The
  router is a state machine under one mutex, but its orders are executed after the mutex is
  released.
- *Time between reading and acting.* A line takes up to 20 s to open; `refresh` reads the
  account table without the dialog mutex; a message is selected, then checked, then
  claimed, by separate statements; a packet is checked against the window before it is
  authenticated.
- *Failures that may have worked.* A `COMMIT` or an `UPDATE` whose answer is lost, a
  carrier that was given a message when the connection broke, an `ip route` command killed
  by its deadline, a request to a remote service that is abandoned.
- *Crash and restart* between the carrier's answer and the row, between a reset and its
  record, with a call up and the module's sound settings changed.
- *Things that must end*: waiting messages, calls whose phone never answers a BYE, jobs,
  leases, shutdown with goroutines under way.

`hazards` in `PROJECT.json` lists these at their lines, with the properties that would show
them going wrong.

## 2. Modules and the code

Every action is one critical section, statement or call whose effect another goroutine (or
the carrier, the phone, the disk) can see. The correspondence of every definition to its
lines is `map` in `PROJECT.json`. Here and there a definition is preceded by a variant of it with
one plausible mistake, which no specification uses; `mutants` in `PROJECT.json` says which
property notices it.

### Calls

- **`Router`** (`internal/telephony/router.go`). One variable per field of `Router` and
  `orders`, the returned actions an adapter still holds. One action per method; a method that
  returns an error and changes nothing is not a step. An order is executed at any later
  time, or never; `ActionCurrent` is the fence the adapters consult. `r.next` is one counter
  for registrations and calls, as in the code. Deadlines are `none`, `pending` or `passed`.
  Properties: reservations are exact (`ReservationsExact`); a call has the shape of its
  phase, exactly the cleanup it needs is ordered and two current orders never drive one module two
  ways (`CallsWellFormed`); the first answer keeps the call (`WinnerKept`); permission and
  credentials are always the present ones (`Authorized`, `CurrentCredentials`,
  `RevocationIsImmediate`); calls end (`CallsSettle`).
- **`Gateway`** (`sip_gateway.go`, `sip_accounts.go`, `internal/sipregistrar/registrar.go`). The
  account table, API writes with the advisory lock and a `COMMIT` whose answer may be lost
  (`LateCommit` lands after the program gave up), two refreshers that read a snapshot and
  apply it under the epoch, bindings, router grants, INVITEs that wait for the database
  between authentication and admission. `floor` is auxiliary: the lowest revision that may
  still be honoured.
- **`OutgoingCall`** (`sip_calls.go`, `sip_termination.go`, `call_records.go`). Calls on one module
  from INVITE to the end of the worker: admission, gate, media, opening the line, the
  fence, dial, polling, answer, ACK, connection, cleanup, the ender goroutine, CANCEL, BYE,
  revocation, loss of media, carrier and shutdown. `line` is what the carrier knows; the code
  learns it by polling. The router is reduced to what one call sees of it (`route`).
- **`IncomingCall`** (`sip_incoming*.go`). One call from the probe to the last record: the main
  goroutine, a goroutine per phone, the record shared by the phones of one account, the
  re-INVITE of an established dialog, and every other party ending the call at any step.
- **`ImsCall`** (`vowifi/ims/call_*.go`). The dialogs of one session: the goroutines that
  touch them are program counters, requests are lost or arrive, responses wait in `down` and
  are read in any order.
- **`CellularVoice`**, **`WifiVoice`** (`internal/hardware/voice_*.go`). A handle from open to
  the confirmed release, with the module's sound settings and their file; the worker's streams,
  its slot and the list of calls asked for after a lost stream.
- **`RtpJitter`** (`vowifi/ims/rtp_jitter.go`). Sequence numbers and time stamps are modular
  (16 and 32 in the run instead of 2^16 and 2^32), so that they wrap.

### Messages

- **`Messages`** (`messages_runtime.go`, `messages_results.go`, `messages_scheduler.go`,
  `messages_timeout.go`, `messages_mms.go`, `internal/durable/journal.go`). The row (the columns
  the control depends on), the worker and the replay loop as program counters, the journal as
  `memory`, `file` (what a read returns) and `stable` (what a read returns after a power loss),
  and `net`, what the carrier really has. Each database and disk step can fail, and an UPDATE
  that failed may have been committed. `PrepareStep` is the start of the program; `Crash` can
  happen anywhere; deletion, a change of SIM, timeouts and reports write the row at any
  time.
- **`Scheduler`** (`internal/dispatch/group.go`, `messages_scheduler.go`). The loop of
  `runMessages` with ticker and token, the rounds with the two cursors, the group's `active` set,
  goroutines between the deletion of their key and `wg.Done` (`leaving`), `Close`.
- **`Locks`** and **`KeyedMutex`** (`internal/dispatch/locks.go`). `Lock` is the section under
  `l.mu` (`Enter`), the `select` on gate and context (`Acquire`, `GiveUp`), and the unlock
  function in two halves (`Unlock`, `Release`). `Entries` are the heap objects.
  `KeyedMutex` is what the callers rely on: `Refines`.
- **`WifiBridge`** (`internal/hardware/sms_bridge.go`, `mms_bridge.go`). Both ends of the pipe: the
  service's request with its timeout, the worker's `used` table and the one running request
  of each kind, late replies, the end of the process. `doubt` is auxiliary: ids for which an
  earlier attempt ended otherwise than by a refusal that precedes the submission.
- **`ImsSms`** (`vowifi/ims/sms_*.go`): parts with RP references that come around, deliveries
  and UICC downloads in copies that run at once. **`MessageSync`** (`messages_sync.go` and
  the schema's triggers): revisions taken before commits, an advisory lock, the cursor and its
  floor. **`Webhook`**: leases, superseded hints, the cut of the log; in which order a receiver
  sees events is not promised, and the model leaves it open. **`Alerts`**: streaks over
  results that arrive late, the check before posting.

### Modules, Wi-Fi calling and tunnels

- **`ModuleControl`**: work, restart jobs, eSIM changes, automatic resets, host maintenance and
  the rows that a stop of the program leaves. `proof`, `sent` and `swapped` say what really
  happened to the device and the card.
- **`WifiSupervisor`**: the user's intent, the worker goroutine with its retries, the one full
  recovery of an outage, rebinding, changes of network. **`VocatSession`**: the retry loop over the
  orchestrator, watchers, and a message being sent meanwhile. The close of a session succeeds,
  fails, or does not return; then `cleanupCall` abandons it, the session may live on for a while
  (`open`, `doubt`), and the clean-up goes on to the radio. **`UplinkLease`**: workers that
  draw tables, die, are swept; every command as a step.
- **`SimCard`**: every AT command as a step for three users of one port. **`IkeTunnel`**: the
  exchanges over a network that keeps, repeats and loses datagrams, with the fallback to the
  legacy proposal when any of them is refused. **`ImsSession`**: `Start`
  over candidates and transports, challenges, refresh loop, `Close`.
- **`TunnelPlane`**: each resource in the kernel, each command failing with or without its
  effect. **`EspWindow`** and **`ReplayFilter`**: the bitmap receiver, and the filter that
  remembers every packet; `ImplementsFilter` is the refinement. **`DomainTunnel`**: the binding
  against a service whose answers are lost. The clean-up checks the tunnel, lists the records
  once (`Check`, `List`) and deletes by number, as often as it takes (`Unname`, `Delete`), while
  others edit, delete and create in between.

### Runs' modules

An `MC` module composes the components that one run checks. The components of a run
share no state, so a behaviour of `MCMessaging`, say, is a behaviour of one of them: `part` is
chosen in the initial state, the others are "off" or remain as the program finds them, and the
state space is the sum, not the product. Properties of a part begin with `part = ... =>` where
the others are off. A theorem about a component that the `MC` module EXTENDS is about its `Spec`;
one about an instance is about the run's `Behaviour`, for any value of the run's constants.

## 3. Runs and bounds

| Run | Components and instances | States | What it shows |
|---|---|---|---|
| `calls` | `Router`: 2 accounts, 2 modules, one registered client each, 2 call identifiers. `RtpJitter`: 4 packets, 16 sequence numbers | 386,697 | two calls at once compete for accounts and modules, with forked rings, late answers, repeated and unordered reports; packets late, lost, reordered, or from a clock that jumped |
| `incoming` | `IncomingCall`: 2 phones of one account | 2,091,472 | simultaneous answers, losses and ends at every step |
| `carrier_calls` | `OutgoingCall`: one cellular and one Wi-Fi call on one module. `ImsCall`: one call out, one in, one killer, one lost message. `SimCard`: one extra channel, one trouble. `IkeTunnel`: 2 gateways or the legacy proposal, 3 rounds of EAP | 1,968,184 | a call ends from every side at every step; each leg is confirmed or given up in the open; commands of three users of one card; a tunnel is believed only where it is, and given up with its DELETE |
| `messaging` | `WifiBridge`: 2 outgoing ids, 1 incoming, 2 lives of the worker, table of 1 id. `MessageSync` (messages, and threads): 3 ids, 2 peers, 2 writers, 5 revisions. `ImsSms`: 2 parts, 2 references, 3 downloads, cache of 2. `Alerts`: 2 attempts, limits 0 and 1 | 1,154,096 | late results and retries, cursors under concurrent commits, references that come around, results out of order |
| `messages` | `Messages`: 1 message, either direction, 4 faults. `Webhook`: 2 events, 2 attempts, 1 fault | 259,053 | any four failed, ambiguous or interrupted operations against deletion, SIM change, timeout and report; leases, superseded hints |
| `modules` | `ModuleControl`: 3 requests, 2 cards, 2 generations. `WifiSupervisor`: 2 networks, 4 events. `VocatSession`: 1 message, 2 faults. `UplinkLease`: 2 workers, 2 tables. `Gateway`: 2 accounts, 1 phone, 2 writes, 2 credentials | 2,079,949 | what may not meet does not; nothing is forgotten through stops, lost answers, outages and failed commands |
| `modules_end` | the same on smaller bounds, under fairness | 276,207 | jobs, outages, leases and routes come to their end; the gateway converges |
| `registrations` | `Router`: 1 account, 1 module, 3 identifiers, 2 revisions, receive on or off. `IncomingCall`: 1 phone. `ImsSession`: 2 candidates, 3 faults, 2 refreshes. | 64,628 | credentials and permission change against registrations and calls; calls settle; a registration is believed only where it is |
| `dispatch` | `Locks`: 3 goroutines, 2 keys, 3 entries. `Scheduler`: 2 modules, 1 slot | 56,855 | entries deleted and created again under waiters; the refinement of `KeyedMutex`; no lost wakeup, no starvation, shutdown |
| `tunnels` | `EspWindow`: window 3, 5 numbers, queue of 2. `TunnelPlane`: 2 leases, 2 endpoints. `CellularVoice`: 2 calls, 3 troubles. `WifiVoice`: 1 handle, 1 incoming call, 2 troubles. `DomainTunnel`: 2 names, 2 troubles | 527,584 | every order of packets; resources with failing commands; calls through crashes; a remote side that loses answers |
| `wifi_bridge_sms` | `WifiBridge`: 1 id | violation | finding 1 |
| `cellular_recovery` | `CellularVoice`: 2 calls, 2 troubles | violation | finding 2 |

Why the bounds are enough to be interesting:

- `calls` starts from `Established`, the state after each account got all modules and
  registered one client, so that the remaining identifiers are two calls; with two accounts
  and two modules each call can fork to both accounts, and the reservations of one call
  matter to the other. Registration, edits and re-creation of accounts are covered by
  `registrations`, which starts from `Init`. The proofs hold for both.
- `incoming` uses one account for both phones, because only then do they share a record.
- In `carrier_calls` the two calls need the same module, one through the gate and one past it.
- `messages` has one message because the messages of a module meet only in the worker's
  choice; the journal, its lock and the row are per message. Four faults allow an ambiguous claim, a
  failed write, a failed save and a restart in one behaviour. `MessagesProofs` needs no bound.
- `messaging` uses a table of one id (10,000 in the code) so that the full table happens.
- `dispatch` uses one slot and two modules: the smallest instance in which a module can be
  passed over. `MaxLeaving = 1`: the second goroutine leaves once the first is done.
- In `modules`, one fault per part and write is too few for a stale snapshot, a sweep or a torn
  job to matter; two workers and two tables are the smallest case of a taken-over table, two
  cards of a wrong one, two gateway writes of a stale snapshot, two credentials of one that an
  edit of the account has replaced.
- In `tunnels` the window is smaller than the range of numbers and larger than one, so that
  packets fall out of it, are reordered within it and shift it by more than its size.

Symmetry (of accounts and modules in `calls`, of phones in `incoming`, of ids in `messaging`) is
used only in runs without liveness, where all edits treat the values alike.

`CHECK_DEADLOCK FALSE` is set where the modelled system really stops: a finite number of
messages, calls, packets or ids that have all been dealt with, or a program that has shut
down.

## 4. Fairness

Fairness is assumed only of steps the program or its clock takes by itself, never of
phones, carriers, users or successful I/O, except as said here.

- `Router`: `Tick` runs on a ticker, deadlines pass, and an adapter that holds a hangup or
  terminate order eventually reports that it is done (both adapters retry until then).
- `IncomingCall`: goroutines run; the repeated `Hangup` succeeds in the end; an INVITE
  transaction ends by its timer if no reply comes; the line is polled; a reader of a closed
  RTP socket fails; deadlines of a call that is not connected pass.
- `Messages`: the start, the worker's and the replay loop's steps, the clock and the expiry
  poll are weakly fair. `Select` is strongly fair because the pick is ordered by priority
  and age (`messagePriorityOrder`). Faults are bounded, which says "if faults stop".
- `Scheduler`: goroutine steps are weakly fair. A round that begins is strongly fair: the
  ticker never stops and a query that fails every time is excluded. `Close` and `Rested` are
  strongly fair because `select` chooses at random among ready cases and because the 250 ms
  pass. `NoModuleStarves` has an explicit premise, `RoundsAreShort`: from some time on no slot
  becomes free within a round. Without it TLC finds a behaviour in which each slot is freed right
  after a module was passed over; rounds take milliseconds and jobs seconds.
- `Locks`: a holder unlocks and a leaver releases (weak). `Acquire` is strongly fair: the Go
  runtime queues blocked senders of a channel in order.
- `Gateway`: the ticker fires and each read ends within its timeout; the database decides a
  commit; an API request runs to its end.
- `Webhook`: jobs run, leases run out, delays pass. `ModuleControl`: the job goroutine and the
  retried commit. `WifiSupervisor`: worker, timers, scans, and others' hold of the module ends.
  `VocatSession`: the loop, its clean-up with its deadlines and the watchers. `UplinkLease`:
  the one-second watch and the sampling. `ImsSession`: its own goroutines, not the P-CSCF.
- `TunnelPlane`: its three goroutines and `Close`. `CellularVoice`: the poll's recovery, of
  which each command succeeds when the bounded troubles are over. `WifiVoice`: both processes'
  loops, and the carrier ends a call. `DomainTunnel`: the clean-up and the worker's end.

`OutgoingCall`, `ImsCall`, `SimCard`, `WifiBridge`, `MessageSync`, `ImsSms`, `Alerts`, `IkeTunnel`,
`EspWindow` and `RtpJitter` are checked for safety only.

## 5. Proofs

TLC's runs are for the instances above; the following hold for every value of the constants that
satisfy the named assumption of the component (`RouterConstants`, `OutgoingConstants`,
`BridgeConstants`, `MessagesConstants`, `LocksConstants`, `EspConstants`; for components that a run
instantiates, the assumption of its `MC` module: `HookBounds`, `SchedulerBounds`,
`SupervisorBounds`, `SessionBounds`, `LeaseBounds`, `AccountBounds`, `PlaneBounds`,
`CellularBounds`, `WifiBounds`, `DomainBounds`, `SmsBounds`, `AlertBounds`). They only type the
constants, keep the "none" values apart from the others, ask for finite sets where the code counts,
and keep what the kernel knows by name (the interface, the rules, the endpoints) apart. TLC
evaluates each of them in the run of its component. The number of faults, retries and messages is a
constant too, so a theorem holds for any number of them.

### The router: `RouterProofs`

- `RouterReservations` (`ReservationsExact`), `RouterCredentials` (`CurrentCredentials`), from
  `RouterInv`. Reservations are inductive with two more facts: no call exists above the counter
  (`Fresh`) and a ringing call has no owner (`RingingUnowned`, so that the winner's account is
  the only one the answer gives the call). Every way of ending legs and calls keeps what the
  call holds (`SameHold`), so that only the steps which create a call, answer it or forget it
  can disturb reservations, each with a lemma of its own.
- `RouterCalls` (`CallsWellFormed`), `RouterAuthorization` (`Authorized`), `RouterWinner`
  (`WinnerKept`), from `CallsInv`, which adds to `RouterInv` the shape of every phase, that
  exactly the cleanup a call needs is among the orders, and that a leg is its grant's for as
  long as the grant is listed (`LegsMatch`, with identifiers handed out once, `GrantsFresh`).
  Authorization is not inductive without the last two: an old leg could become somebody else's
  with a reused identifier. `Tighter` is the relation almost all operations stand in to
  the call they change; the orders that `closeLeg` and `end` return are the difference
  between the cleanup before and after.

### Calls: `OutgoingCallProofs`, `IncomingCallProofs`

- `OutgoingLine` (`LineHeld`), `OutgoingClient` (`OutgoingTold`), for any number of calls on one
  module. `Inv` says, for each place of the worker, what the call holds (`LineOf`), what its
  client was answered (`AnswersOf`), how far the ender is (`EnderOf`), what the record says
  (`RecordOf`) and what is left at the end (`ReleaseOf`). Neither property is inductive: that the
  gate is held on the line follows from where the gate is taken and given back, and that the
  client was told follows from the handover between worker and ender. A step is one call's:
  it keeps that call's invariant and leaves the others as they were (`Same`).
- `IncomingLine` (`LineHeld`), `IncomingPhones` (`PhonesTold`), `IncomingWinner`
  (`AnsweredForWinner`), for any number of phones and accounts. `Inv` relates the router's call to
  the main goroutine (`RouterInv`, `MainInv`), each leg to what its phone was told
  (`LegInv`) and each record to the legs of its account and to the finalizer (`RecordInv`).
  That records are settled last needs the last conjunct: two writers meet at the row. `PhonesTold`
  speaks of the phones whose 200 was taken; a phone that only rang may be let go without a
  word, when the deadline for draining the phones passes or its transaction ends by itself.

### Messages: `MessagesProofs`, `MessagingProofs`

- `MessagesOnce` (`SentOnce`), `MessagesAreSound` (`MessagesSound`), `MessagesKept` (`RowsKept`),
  for any number of messages and of faults. `SentOnce` fails to be inductive because a record that
  is still on the disk, or an outcome that the worker still holds, could reopen the row. `Inv`
  therefore says of each message where its outcome can be (`RecordOK`, `LockOK`): with the worker,
  and then there is no record of it, or in the journal, whose copies agree and whose lock the worker
  or the replay holds; and that an outcome, wherever it is, fits what the carrier did (`Fits`,
  `SentOK`, `RowOK`, `StoreOK`). After a crash the phase says which copies may be left, so that an
  old record that the disk brings back is the one outcome there is. `Update` is the one lemma about
  a step of one message, `RowsWritten` about the steps that write many rows at once.
- `BridgeIsSound` (`BridgeSound`), for any messages, any size of the table and any number
  of lives of the worker. `Inv` follows one attempt through the channel: it is with the client,
  written, with the worker, or answered, in one place at a time (`AttemptInv`), so that a retry
  begins only where the last attempt has left nothing behind that could still submit.
- `SmsIsSound` (`SmsSound`), for any number of references, parts, deliveries, downloads and copies,
  from `SmsInv`. That a caller is told what became of its own part is not inductive: references
  come around, so the invariant says that what is under way carries a guarded reference and, if
  somebody waits for that reference, is his (`SmsCarried`), and who waits keeps it guarded
  (`SmsWaiting`). That a download is executed once needs what each of its goroutines holds (the
  lock, or the UICC) and that its report is not yet kept when it gets there (`SmsDownload`).
- `AlertsAreSound` (`AlertsSound`), for any attempts, limits, cards and refusals, from
  `AlInv`. Results arrive late and in any order while only those since the last success are kept;
  `AlKept` is the lemma that makes the streak exact nevertheless: what was tried before the last
  success makes no difference to the streak, whatever is reported of it. Streaks, cards and
  destinations are numbered upwards (`AlLater`) and a notification stays what it is about
  (`AlSame`), so that what is over stays over (`AlStaysOver`); that none is posted twice
  needs what the worker has in hand at each step (`AlWorker`).
- `WebhookSound` (`HookSound`), from `HookInv`, which relates three things of one event that change
  in different transactions: the stored row, the job a goroutine still holds for an old or the
  present lease, and the posts that the receiver has seen (`EventOK`). "Posted no more often than
  the attempts say" needs the round and the attempt a lease carries, because a job whose lease was
  taken over may still post. What is said of a reader's cursor leaves out the events that a cut has
  removed between the two statements of a page (`NoEventSkipped`, section 6). A hint is superseded
  only by a newer one of its message that is kept for the receiver (`NewestKept`); nothing is said
  of the order of posts, which `frontend/developer-docs.js:152` does not promise either.

### Locks and dispatch: `DispatchProofs`

- `LocksInvariant` (`IInv`), `LocksMutualExclusion`, `LocksNoLeak`, for any finite set of
  goroutines and any keys. Mutual exclusion alone is not inductive: a process that released
  last could delete an entry that another has captured, which only `CountExact` rules out.
  `LocksRefines`: `Spec => Refines`, the implementation of `KeyedMutex`: `Acquire` is the abstract
  `Take` because the gate is full exactly while one process holds it.
- `SchedulerSound` (`DispatchSound`) and `CloseIsLast`, for any number of modules, slots and jobs:
  a slot that was freed after a module was passed over has its token in the channel, or a goroutine
  that will still put it there; and `Close` returns after the last goroutine. Both are inductive
  with the types and with each other.

### Modules and accounts: `ModulesProofs`

- `UplinkOwned` (`RoutesOwned`), for any number of workers, tables and disturbances, from `UpInv`:
  for each worker and place of `Open` and `Close` (`UpWorker`), what is still to do, what has been
  recorded and what is in the kernel; and that no two workers hold one table (`UpTables`). "No leak
  to another uplink" follows only from the order of the commands, in which the unreachable route
  comes before the rule and goes after it.
- `GatewayServed` (`AccountsServed`), for any number of accounts, phones and writes, from `GwInv`:
  what a refresher's snapshot can hold while its epoch is current (`GwRefreshers`), which revision
  the router, the registrar and the table have of an account while the writer is between its steps
  (`GwAccount`), and that a binding or an INVITE that waits is either of the current credential or
  will be refused (`GwPhone`).
- `LeaseIsKept` (`LeaseKept`), for any number of failures, attempts and messages, from `VocInv`: who
  holds the orchestrator's lock, which sessions exist at each of its steps, which watchers can
  still report, and where the radio is in each phase. Closes may fail or never return, so it is
  not true that the radio comes back over no session at all: it comes back over none whose close
  was not tried, and a close that the lease's own end could not confirm, or that the loop has
  judged, makes the end "unconfirmed". A doubt of an earlier failure may be passed over in two
  ways, which `HonestEnd` names: a stop came before the loop had judged it, or another failure's
  record had replaced it (`NoRetryInDoubt`, section 6). Each attempt that fails has used one of
  the faults (`VocFaultsPaid`), which is why any bound on faults bounds the attempts.
- `SupervisorSound` (`Supervised`) and the action property `UnconfirmedIsHeld` (`UnconfirmedStays`),
  for any number of networks, requests and outages, from `SupInv`: the worker is of the intent's
  generation and holds the module's gate; a route in the engine is the chosen network's with its
  present fingerprint, as long as nobody cancelled; the one full restore of an outage is spent
  before the next; and an unconfirmed cleanup is remembered. `UnconfirmedStays` speaks of the steps
  that leave the module's network and the state of that network's link as they are: a link that goes
  and returns, or a change of network, does bring another attempt (`NoBlindRetry`, section 6).

### Paths and packets: `TunnelProofs`

`PathsAreSound` (`PathsSound`) is the conjunction of four results, and each has its inductive
invariant:

- `PlaneInvariant` (`PlaneInv`): the count of each endpoint's routes is the number of leases on it,
  while the plane closes too; an entry has its route or the removal is in doubt; the rule
  and the fail-closed route are on the list of removals before they exist; no goroutine
  outlives the phases in which it is waited for; and a close that has had no error so far has
  left only what goes with the interface.
- `CellularInvariant` (`CellInv`): for each step of open, restore and close, what the settings' file
  says, where the sound path is, and that the call is over before the user's settings return.
- `WifiInvariant` (`WifiInv`): the slot is its stream's, a command in flight belongs to the handle
  that waits for it, what a handle was told is true of the call, and a live call is the stream's.
- `DomainInvariant` (`DomInv`): every tunnel and record made for the name is known to one of the
  two bindings or to the step in progress, and the tunnel that a binding names exists until the
  clean-up removes it - but for what others have deleted or renamed and what abandoned requests
  have made. `ForeignIsSpared` (`ForeignSpared`) follows, because the deletion is by the number of a
  record that was listed with our mark, and a record of others that takes its place has another
  number. It exempts one case, which the code leaves open: a record that was ours when it was listed
  and that its owner has edited since.

None of the four says that the calls of others are spared (finding 2 shows one that is not), nor
that a binding that reports itself connected has its record: both can be lost from outside.

And for packets:

- `BitmapExact` (`IInv`) and `ReceiverIsFilter` (`ImplementsFilter`), for any window, any number of
  packets and any length of the queue: the bitmap says of each number of the window whether it
  has passed, so the receiver accepts what the filter that remembers everything accepts.

### Only model-checked

- Everything under fairness (`EverythingEnds` in `messages`, `modules_end`, `registrations` and
  `tunnels`, `NobodyStarves`) and whatever speaks of ENABLED: out of the provers' reach.
- The safety properties of `ModuleControl` (`WorksAlone`), `ImsCall`, `SimCard` and `IkeTunnel`
  (`SessionSound`), `ImsSession` (`RegistrationSound`), `RtpJitter` (`VoiceHeard`) and `MessageSync`
  (`Mirrored`): no proof has been attempted. `Mirrored` and `VoiceHeard` order sets into sequences,
  which the provers reason about badly.
- `RevocationIsImmediate`, of `Router`, whose run also checks it as a part of `AnswersBind`.

## 6. Findings and observations

Findings, each with a run whose counterexample shows it:

1. **A refused SMS cannot be retried** (`wifi_bridge_sms`, `internal/hardware/sms_bridge.go:292`).
   The worker keeps the id of a request it refused with `ErrSMSNotReady`, so the retry that
   `processMessage` schedules is answered as a duplicate and the message ends as unknown,
   though nothing was sent. `deploy/MESSAGES.md:17` says such a wait can be retried; the MMS side
   removes the id.
2. **Recovery hangs up a new call** (`cellular_recovery`,
   `internal/hardware/voice_cellular.go:384`). The recovery of a journalled call ends with `AT+CHUP`
   whatever call it finds; `voice_cellular.go:74` says "Never run crash recovery (CHUP) over a newly
   observed call.", and only the path of incoming calls checks.

Claims of the code or its documents that its model does not keep, stated in the modules
but not among the runs; TLC finds each of them violated on instances as small as theirs:

- `WifiSupervisor`, `NoBlindRetry`: a rejected module is tried again. A poll while the link is away
  (`modules_wifi.go:229`) writes `NETWORK_UNAVAILABLE` over the issue of a rejection, or of an
  unconfirmed clean-up whose hold has run out, and the returning link starts an attempt
  (`module_networks.go:165`), which `deploy/TESTING.md:83`, `modules_wifi.go:419` and
  `MODULES.md:67` exclude. `UnconfirmedStays` is what remains true: without a change of the network
  or its link there is no such attempt. Seen with one network, `Limit = 1`, one generation, one
  fingerprint and 4 events.
- `VocatSession`, `NoRetryInDoubt`: a lease is retried with its clean-up in doubt. A second failure
  of an attempt replaces the record of the first, and with it the error of the clean-up
  (`vowifi/orchestrator.go:933`); `internal/vocat/MODIFICATIONS.md:39` says that an unconfirmed
  clean-up is not retried. Seen with two faults and no message.
- `Messages`, `DownloadingIsLive`: when the answer to the claim of an incoming MMS is lost after the
  commit (`messages_runtime.go:338`), nobody downloads it and the row stays `downloading`, which
  `frontend/developer-docs.js:142` explains as "being received or downloaded", until the program
  starts again; restarts of the module or the host are refused as busy meanwhile
  (`modules_restart.go:132` and 326). `EverythingEnds` of `messages` therefore speaks of outgoing
  messages only. Seen with one message and one fault.
- `Webhook`, `NoEventSkipped`: a page of events hides some. Its floor and its rows are read by two
  statements (`webhook_api.go:27` and 38); what retention removes in between is neither on the page
  nor answered with the 410 of `frontend/BACKEND.md:96`, and the cursor passes it. Seen with three
  events and no fault.
- `ModuleControl`, `NoWorkDuringWrite`: the reservation of a configuration write is one flag, which
  either of two writers clears.
- `MessageSync`, `NoGhosts`: a purge within an incremental round leaves a row in a mirror.
- `ImsCall`, `OnlyVerifiedTeardown`: a call that failed here may still be up at the carrier.
- `ImsSession`, `CloseEnds`: a connection accepted but not yet entered is not closed, and
  Close waits until the P-CSCF ends it.
- `SimCard`, `NoInterruption`: the message path's files are read without the lock
  (`ec20_sms_psi.go:22`).
- `WifiSupervisor`, `OffRestoresRadio`: switching Wi-Fi calling off does not always bring the
  cellular radio back.

Observations made while modelling, by component; the models reproduce them where they
change state:

- *Outgoing calls.* A BYE before the answer suppresses the 487 for the INVITE; a client that left
  counts as told. Writes of call records are taken to succeed (`endCallRecord` only logs).
- *Gateway.* After a commit that lands late the old credentials are served until the next
  refresh; `FencedCredentials` begins with the application or the suspension. `NoLockout` rests
  on the advisory lock that serialises writes and snapshots in the order of commits.
- *Modules.* `startWiFiLocked` called from `setWiFi` refuses because of the caller's own
  `controlPending`; `setWiFi` may commit and still return `DEVICE_CHANGED`; a failed `saveJob`
  leaves an active row that blocks restarts, an ambiguous commit a queued one; a failed commit of
  `changeNetwork` leaves the module not ready until a restart; `restartHost` does not look at
  `recoveryUntil`.
- *Wi-Fi calling.* A recovery whose stop meets a transport failure leaves `networkRetry` zero; a
  change of network after an unconfirmed clean-up, once the hold has run out, goes ahead although
  `deploy/NETWORK-CONFIG.md:19` excludes it; after a failing Enable a later Disable still reports
  the stages of a clean one; a failed IMS set-up is reported as "canceled" and not retried;
  `Disable` may give up (30 s) before the watcher (50 s); a close that is abandoned may end after
  the radio is back (`LateClose`).
- *Uplinks.* `cleanupAbandoned` under a cancelled context drops the record; `Close` ignores
  errors; the policy is read twice when a lease opens.
- *SIM.* The card is not identified again after the authentication command
  (`vowifi/ec20_adapter.go:572`). `ReadIdentity` resets the bindings; the card's number is checked
  before the lock is taken; a lost answer to the opening of a channel leaks it.
- *IMS.* A refresh holds `session.mu` for the whole REGISTER; a challenge during a refresh ends
  the main receiver; a 423 after AKA without qop reuses the response
  (`deploy/CARRIERS.md:10`); the Retry-After of a 503 is ignored; an early ACK is dropped and a
  lost CANCEL rings on; a second `Close` returns nil at once; an SMS that timed out is marked
  rejected although it is in doubt.
- *Tunnel.* The deletion of the TUN interface is not reported; `Close` tries once; a media
  lease that is cancelled keeps its entry; the kernel's plane has no notifier of failures.
- *Voice.* A torn journal blocks calls; call numbers are reused; `Calls()` is read before the
  slot; a call of a worker that ended unclean is never released; a failing `openWiFiVoice` after the
  accept hangs up the caller.
- *RTP.* A stream that restarts with lower numbers and the same SSRC is unheard at first; packets
  are played twice across a reset.
- *Domain.* A record of ours that its owner edits between the listing and the deletion is deleted
  all the same (`cloudflare.go:280-298`). An abandoned request may take effect later; a tunnel
  deleted from outside ends in `DNS_CONFLICT`; without the certificate nothing can be cleaned up.
- *Messages.* `deleteMessageThreads` works in batches, so that a row revised meanwhile survives; a
  webhook's or alert's POST may go to the destination that was set before; a transient
  database error cancels an alert for its cycle, and an ignored final UPDATE leaves it "sending".

## 7. What is not modelled

Parts of modelled components: receiving SMS and the inbox poll, paging and damaged files of
the journal, the voice and emergency commands of the messages' channel, `scheduleInboxes`,
early media and retransmitted 200s, forked INVITEs, the choice of result codes, probe slots,
digest authentication, nonces and rate limits, key derivation and wire formats. Each
component's note in `PROJECT.json` says what is left out of it. The components that are not
modelled at all are there with their reasons: device and card I/O, codecs and sample
arithmetic, request handlers over single rows, host scripts and browser code.

Data are abstracted to what the control tells apart: a credential is its revision, a message
an id, a result code one of the classes the handlers distinguish. Times are "may pass at any
moment". Limits that matter are constants with the names above; the code's values are in the
modules' comments.

## 8. Plan

Done: the components of section 2 with their runs; proofs of the router, both directions of calls,
messages with the journal and the webhooks, the bridge, text messages over IMS, alerts, locks and
scheduler, the gateway, the uplink leases, the session's lease, the supervisor, and the five parts
of `tunnels`.

Next, in order of importance:

1. `ModuleControl`: `Exclusive` and `SentOnce` for any number of requests; the invariant has to say
   for each step of a job what is reserved and which row may say what.
2. `ImsSession` and `IkeTunnel`: `RegistrationSound` and `SessionSound`, with the retransmissions of
   an exchange.
3. `ImsCall`: `SessionSound`, for any number of dialogs.
4. `MessageSync`: `NothingMissed` for any number of writers and clients.
