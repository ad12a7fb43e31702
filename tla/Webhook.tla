------------------------------ MODULE Webhook ------------------------------
(***************************************************************************)
(* The developer event log and its delivery to a webhook.  Triggers append *)
(* events in transactions that take the next event id under an advisory    *)
(* lock; a worker claims due events with a lease, posts them, and saves    *)
(* the result; a client reads the log by cursor; retention cuts its head.  *)
(* The worker may stop between any two steps, an answer may come when the  *)
(* lease is gone, and a save may be lost.                                  *)
(*                                                                         *)
(* Delays (next_at, the back-off after 429 and 503, the 30 seconds after   *)
(* which a claim is taken for lost) end at any time.  The rate limits of   *)
(* the administrator's calls are left out.                                 *)
(***************************************************************************)
EXTENDS Naturals, FiniteSets, FiniteSetsExt

CONSTANTS None,         \* no transaction, no job, no destination
          Resources,    \* messages and modules events are about
          Hooks,        \* webhook destinations with their secret
          Answers,      \* "2xx", "4xx" (refused), "429" (429, 503: pause), "none"
          MaxAttempts,  \* posts of an event before it fails (8 in the code)
          MaxEvents,    \* bound of the event sequence
          MaxFaults,    \* bound of crashes, lost saves and reclaimed claims
          MaxCalls      \* bound of settings changes, replays and pages read

VARIABLES hook,      \* developer_settings: the configured webhook, or None
          log,       \* developer_events: the rows by event id
          seq,       \* developer_event_seq
          open,      \* the events of transactions that have not committed
          floor,     \* event_floor: the highest event retention removed
          jobs,      \* the dispatch groups: the delivery running for an event
          running,   \* the worker has started and reset what was interrupted
          paused,    \* the back-off all deliveries share
          reader,    \* a client of the event list
          faults, calls,
          answered,  \* events whose receiver has answered 2xx since the replay
          posts,     \* posts of an event since its last replay
          skipped    \* retention removed events while a client's page was read

vars == <<hook, log, seq, open, floor, jobs, running, paused, reader, faults, calls,
          answered, posts, skipped>>

Events == 1..MaxEvents
Stored == {e \in Events : log[e] # None}
Started == [at |-> "start"]
Reset == [at |-> "idle", after |-> 0, read |-> {}]
Ended == {"delivered", "failed", "cancelled", "disabled"}

Init ==
  /\ hook \in Hooks /\ log = [e \in Events |-> None] /\ seq = 0
  /\ open = {} /\ floor = 0
  /\ jobs = [e \in Events |-> None] /\ running = FALSE /\ paused = FALSE
  /\ reader = Reset /\ faults = 0 /\ calls = 0
  /\ answered = {} /\ posts = [e \in Events |-> 0] /\ skipped = FALSE

-----------------------------------------------------------------------------
(* Appending events *)

\* pg_advisory_xact_lock(-734904), held until the commit.
EventLock == open = {}

\* developer_emit inside a change of a message or of a module; a hint is a
\* message.status_changed event.
developer_emit(r, hint) ==
  /\ EventLock /\ seq < MaxEvents
  /\ seq' = seq + 1
  /\ open' = open \union
       {[id |-> seq + 1,
         row |-> [resource |-> r, hint |-> hint, to |-> hook, due |-> TRUE,
                  state |-> IF hook = None THEN "disabled" ELSE "pending",
                  attempts |-> 0, lease |-> <<>>, round |-> 0, superseded |-> FALSE]]}
  /\ UNCHANGED <<hook, log, floor, jobs, running, paused, reader, faults, calls,
                 answered, posts, skipped>>

Commit ==
  \E event \in open :
    /\ log' = [log EXCEPT ![event.id] = event.row]
    /\ open' = open \ {event}
    /\ UNCHANGED <<hook, seq, floor, jobs, running, paused, reader, faults, calls,
                   answered, posts, skipped>>

-----------------------------------------------------------------------------
(* The administrator *)

Cancelled(row) == [row EXCEPT !.state = "cancelled", !.lease = <<>>]

\* Another destination or secret cancels what has not been delivered.
saveDeveloper ==
  /\ calls < MaxCalls /\ calls' = calls + 1
  /\ hook' \in (Hooks \union {None}) \ {hook}
  /\ log' = [e \in Events |-> IF e \in Stored /\ log[e].state \in {"pending", "sending"}
                              THEN Cancelled(log[e]) ELSE log[e]]
  /\ UNCHANGED <<seq, open, floor, jobs, running, paused, reader, faults, answered, posts, skipped>>

replay(e) ==
  /\ calls < MaxCalls /\ calls' = calls + 1
  /\ e \in Stored /\ log[e].state \in {"failed", "cancelled"}
  /\ hook # None /\ log[e].to = hook
  /\ log' = [log EXCEPT ![e].state = "pending", ![e].attempts = 0, ![e].lease = <<>>,
               ![e].due = TRUE, ![e].round = @ + 1, ![e].superseded = FALSE]
  /\ answered' = answered \ {e} /\ posts' = [posts EXCEPT ![e] = 0]
  /\ UNCHANGED <<hook, seq, open, floor, jobs, running, paused, reader, faults, skipped>>

-----------------------------------------------------------------------------
(* The worker *)

Exhausted(row) == row.attempts >= MaxAttempts
Reopened(row) == [row EXCEPT !.state = IF Exhausted(row) THEN "failed" ELSE "pending",
                             !.lease = <<>>]

\* The first pass of a new worker resets what the last one left.
Initialize ==
  /\ ~running /\ running' = TRUE
  /\ log' = [e \in Events |-> IF e \in Stored /\ log[e].state = "sending"
                              THEN Reopened(log[e]) ELSE log[e]]
  /\ UNCHANGED <<hook, seq, open, floor, jobs, paused, reader, faults, calls,
                 answered, posts, skipped>>

Crash ==
  /\ faults < MaxFaults /\ faults' = faults + 1
  /\ running /\ running' = FALSE
  /\ jobs' = [e \in Events |-> None] /\ paused' = FALSE
  /\ UNCHANGED <<hook, log, seq, open, floor, reader, calls, answered, posts, skipped>>

\* An event emitted under the old settings and committed after the change.
CancelStale ==
  /\ running
  /\ \E e \in Stored : log[e].state = "pending" /\ log[e].to # hook
  /\ log' = [e \in Events |-> IF e \in Stored /\ log[e].state = "pending" /\ log[e].to # hook
                              THEN Cancelled(log[e]) ELSE log[e]]
  /\ UNCHANGED <<hook, seq, open, floor, jobs, running, paused, reader, faults, calls,
                 answered, posts, skipped>>

\* A claim older than thirty seconds is taken for lost.  Its delivery may still
\* be running; a claim whose delivery has ended is always reclaimed.
ReclaimNever(e) == FALSE
Reclaimable(e) == log[e].state = "sending"
Reclaim(e) ==
  /\ running /\ e \in Stored /\ Reclaimable(e)
  /\ \/ jobs[e] = None /\ UNCHANGED faults
     \/ jobs[e] # None /\ faults < MaxFaults /\ faults' = faults + 1
  /\ log' = [log EXCEPT ![e] = [Reopened(@) EXCEPT !.due = TRUE]]
  /\ UNCHANGED <<hook, seq, open, floor, jobs, running, paused, reader, calls,
                 answered, posts, skipped>>

\* Only an unsent hint is superseded, by an unsent newer one for the same receiver.
SupersededByAny(e) ==
  \E n \in Stored : n # e /\ log[n].resource = log[e].resource /\ log[n].state = "pending"
Superseded(e) ==
  \E n \in Stored : /\ log[n].resource = log[e].resource /\ log[n].hint
                    /\ log[n].state = "pending" /\ n > e /\ log[n].to = log[e].to
compactWebhookStatuses ==
  LET obsolete == {e \in Stored : log[e].state = "pending" /\ log[e].hint /\ Superseded(e)}
  IN  /\ running /\ obsolete # {}
      /\ log' = [e \in Events |-> IF e \in obsolete
                   THEN [Cancelled(log[e]) EXCEPT !.superseded = TRUE] ELSE log[e]]
      /\ UNCHANGED <<hook, seq, open, floor, jobs, running, paused, reader, faults, calls,
                     answered, posts, skipped>>

\* A group runs one delivery of an event at a time.
Start(e) ==
  /\ running /\ ~paused /\ jobs[e] = None
  /\ e \in Stored /\ log[e].state = "pending" /\ log[e].due
  /\ jobs' = [jobs EXCEPT ![e] = Started]
  /\ UNCHANGED <<hook, log, seq, open, floor, running, paused, reader, faults, calls,
                 answered, posts, skipped>>

Claimable(e) == /\ ~paused /\ e \in Stored /\ log[e].state = "pending" /\ log[e].due
                /\ hook # None /\ log[e].to = hook
Claimed(row) == [row EXCEPT !.state = "sending", !.attempts = @ + 1,
                            !.lease = <<row.round, row.attempts>>]

Claim(e) ==
  /\ jobs[e] = Started
  /\ IF Claimable(e)
     THEN /\ log' = [log EXCEPT ![e] = Claimed(@)]
          /\ jobs' = [jobs EXCEPT ![e] = [at |-> "post", lease |-> Claimed(log[e]).lease]]
     ELSE jobs' = [jobs EXCEPT ![e] = None] /\ UNCHANGED log
  /\ UNCHANGED <<hook, seq, open, floor, running, paused, reader, faults, calls,
                 answered, posts, skipped>>

\* The receiver accepts, refuses for good, asks for a pause, or fails.
Post(e, answer) ==
  /\ jobs[e] # None /\ jobs[e].at = "post"
  /\ jobs' = [jobs EXCEPT ![e] = [at |-> "save", lease |-> @.lease, answer |-> answer]]
  /\ paused' = (paused \/ answer = "429")
  /\ posts' = [posts EXCEPT ![e] = IF log[e] # None /\ log[e].round = jobs[e].lease[1] THEN @ + 1 ELSE @]
  /\ answered' = IF answer = "2xx" THEN answered \union {e} ELSE answered
  /\ UNCHANGED <<hook, log, seq, open, floor, running, reader, faults, calls, skipped>>

Outcome(job) ==
  CASE job.answer = "2xx" -> "delivered"
    [] job.answer = "4xx" \/ job.lease[2] + 1 >= MaxAttempts -> "failed"
    [] OTHER -> "pending"

\* The result counts only while the row still carries this delivery's lease.
OwnLease(e) == log[e] # None /\ log[e].state = "sending" /\ log[e].lease = jobs[e].lease
Save(e) ==
  /\ jobs[e] # None /\ jobs[e].at = "save"
  /\ \/ /\ log' = IF OwnLease(e)
                  THEN [log EXCEPT ![e].state = Outcome(jobs[e]), ![e].lease = <<>>, ![e].due = FALSE]
                  ELSE log
        /\ UNCHANGED faults
     \/ faults < MaxFaults /\ faults' = faults + 1 /\ UNCHANGED log
  /\ jobs' = [jobs EXCEPT ![e] = None]
  /\ UNCHANGED <<hook, seq, open, floor, running, paused, reader, calls, answered, posts, skipped>>

DelayEnds(e) ==
  /\ e \in Stored /\ log[e].state = "pending" /\ ~log[e].due
  /\ log' = [log EXCEPT ![e].due = TRUE]
  /\ UNCHANGED <<hook, seq, open, floor, jobs, running, paused, reader, faults, calls,
                 answered, posts, skipped>>

PauseEnds ==
  /\ paused /\ paused' = FALSE
  /\ UNCHANGED <<hook, log, seq, open, floor, jobs, running, reader, faults, calls,
                 answered, posts, skipped>>

-----------------------------------------------------------------------------
(* The event list and retention *)

\* Page one: the floor is read.  Page two, a statement of its own: the rows.
ListFloor ==
  /\ calls < MaxCalls /\ calls' = calls + 1
  /\ reader.at = "idle"
  /\ reader' = IF reader.after > 0 /\ reader.after < floor THEN Reset
               ELSE [reader EXCEPT !.at = "rows",
                                   !.after = IF @ = 0 THEN floor ELSE @]
  /\ UNCHANGED <<hook, log, seq, open, floor, jobs, running, paused, faults,
                 answered, posts, skipped>>

ListRows ==
  LET new == {e \in Stored : e > reader.after}
  IN  /\ reader.at = "rows"
      /\ reader' = [at |-> "idle", after |-> Max({reader.after} \union new),
                    read |-> reader.read \union new]
      /\ UNCHANGED <<hook, log, seq, open, floor, jobs, running, paused, faults, calls,
                     answered, posts, skipped>>

\* The expired head of the log goes, up to the first unfinished event.
cleanDeveloperEvents(last) ==
  /\ last \in Stored
  /\ \A e \in Stored : e =< last => log[e].state \in Ended
  /\ log' = [e \in Events |-> IF e =< last THEN None ELSE log[e]]
  /\ floor' = Max({floor, last})
  /\ skipped' = (skipped \/ (reader.at = "rows" /\ reader.after < last))
  /\ UNCHANGED <<hook, seq, open, jobs, running, paused, reader, faults, calls, answered, posts>>

-----------------------------------------------------------------------------

deliverWebhook(e) ==
  Start(e) \/ Claim(e) \/ Save(e) \/ \E answer \in Answers : Post(e, answer)

Next ==
  \/ \E r \in Resources, hint \in BOOLEAN : developer_emit(r, hint)
  \/ Commit \/ saveDeveloper \/ Initialize \/ Crash \/ CancelStale \/ compactWebhookStatuses
  \/ PauseEnds \/ ListFloor \/ ListRows
  \/ \E e \in Events : \/ replay(e) \/ Reclaim(e) \/ deliverWebhook(e)
                       \/ DelayEnds(e) \/ cleanDeveloperEvents(e)

Spec == Init /\ [][Next]_vars

\* The worker's loop comes round every second, deliveries end by their own
\* timeouts, and delays pass; nobody has to write, edit, read or clean.
Fairness ==
  /\ WF_vars(Initialize \/ CancelStale) /\ WF_vars(PauseEnds)
  /\ \A e \in Events : WF_vars(deliverWebhook(e)) /\ WF_vars(Reclaim(e)) /\ WF_vars(DelayEnds(e))

FairSpec == Spec /\ Fairness

-----------------------------------------------------------------------------
(* Properties *)

Row == [resource : Resources, hint : BOOLEAN, to : Hooks \union {None}, due : BOOLEAN,
        state : Ended \union {"pending", "sending"}, attempts : 0..MaxAttempts,
        lease : {<<>>} \union ((0..MaxCalls) \X (0..MaxAttempts)), round : 0..MaxCalls,
        superseded : BOOLEAN]

Lease == (0..MaxCalls) \X (0..MaxAttempts)

\* A delivery: begun, about to post under its lease, about to save the answer.
Job == {Started} \union [at : {"post"}, lease : Lease]
                 \union [at : {"save"}, lease : Lease, answer : Answers]

WebhookConstants ==
  /\ MaxAttempts \in Nat \ {0} /\ MaxEvents \in Nat /\ MaxFaults \in Nat /\ MaxCalls \in Nat
  /\ None \notin Hooks \union Row \union Job

TypeOK ==
  /\ hook \in Hooks \union {None} /\ seq \in 0..MaxEvents /\ floor \in 0..MaxEvents
  /\ \A e \in Events : log[e] # None => log[e] \in Row
  /\ faults \in 0..MaxFaults /\ calls \in 0..MaxCalls
  /\ running \in BOOLEAN /\ paused \in BOOLEAN

\* An event is called delivered only if its receiver has accepted it, and between
\* replays it is posted at most as often as its attempts say, whatever crashes.
HonestDelivery ==
  /\ TypeOK
  /\ \A e \in Stored : /\ log[e].state = "delivered" => e \in answered
                       /\ posts[e] =< log[e].attempts

Newer(n, e) == n > e /\ log[n].hint /\ log[n].resource = log[e].resource /\ log[n].to = log[e].to

\* Only status hints are superseded, and each of them by a newer hint about the same
\* message that is still in the log for the same receiver: a received message is never
\* merged away, and of the hints the newest is never among the superseded, also when
\* an older one returns to pending after it (reclaimed, retried or replayed).
NewestKept ==
  \A e \in Stored : log[e].superseded => log[e].hint /\ \E n \in Stored : Newer(n, e)

\* A reader's cursor has passed no event of the log that the reader has not been given,
\* however late an event is committed - unless, at some time, retention ran between
\* the two statements of one page (skipped).
Continuous ==
  skipped \/ \A e \in Stored : e =< reader.after /\ e > floor => e \in reader.read

\* "事件补拉；过期游标返回 410" (events are caught up with; an expired cursor gets 410): a
\* reader whose cursor is accepted is given every event after it.
NoEventSkipped ==
  reader.read # {} => \A e \in 1..reader.after : e >= Min(reader.read) => e \in reader.read

\* Every pending event ends: delivered, failed for good, or cancelled.
EventsEnd ==
  \A e \in Events : (log[e] # None /\ log[e].state \in {"pending", "sending"})
                      ~> (log[e] = None \/ log[e].state \in Ended)
=============================================================================
