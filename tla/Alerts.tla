------------------------------ MODULE Alerts ------------------------------
(* Alerts (alerts_schema.sql, alerts.go, alerts_runtime.go,                *)
(* alerts_telegram.go): results of messages and calls, reported late and   *)
(* out of order, and polls of a module's health are counted into streaks   *)
(* of failures of one module; a streak that reaches its limit raises an    *)
(* alert, which a worker posts to Telegram once.                           *)
EXTENDS Integers, Sequences, FiniteSets, FiniteSetsExt

CONSTANTS
    Attempts,     \* messages and calls, numbered in the order they began
    Limits,       \* the limits a user chooses from
    Grace,        \* polls a fault of the module must last
    MaxPosts,     \* posts of a notification that Telegram refuses for now (5)
    MaxEpoch,     \* bound: cards put in
    MaxEvents,    \* bound: attempts and polls of the module's health
    MaxTroubles   \* bound: other changes of settings, restarts, answers and writes that are lost

VARIABLES
    epoch,        \* the card's number (modules.card_epoch)
    limit,        \* alert_settings
    telegram,     \* [on, revision]: telegram_settings
    attempt,      \* kind, alert_epoch and state of a message or a call
    counter,      \* alert_counters: the streak of a kind
    outcomes,     \* alert_outcomes: what is kept of the results
    evidence,     \* history: every result that was counted for the current streaks
    polls, window, reading, events,    \* the module's health (healthWindow, alert_events)
    notes,        \* alert_notifications
    ended,        \* history: notifications that were once out of date
    worker,       \* deliverAlert
    troubles      \* troubles so far

counts == <<counter, outcomes, evidence>>
health == <<polls, window, reading, events>>
vars == <<epoch, limit, telegram, attempt, counts, health, notes, ended, worker, troubles>>

SimKinds == {"sms", "sip"}
Kinds == SimKinds \cup {"module"}

AlertConstants ==
    /\ Attempts \subseteq Nat \ {0} /\ Limits \subseteq Nat
    /\ {MaxPosts, MaxEpoch} \subseteq Nat \ {0} /\ MaxTroubles \in Nat

NoAttempt == [kind |-> "none", epoch |-> 0, state |-> "idle"]
NoCounter == [failures |-> 0, active |-> FALSE, cycle |-> 0, observed |-> 0]
Idle == [at |-> "idle", note |-> 0, result |-> "none"]
NoWindow == [since |-> 0, wifi |-> FALSE]

Room == polls + Cardinality({a \in Attempts : attempt[a].state # "idle"}) < MaxEvents
Quiet == UNCHANGED troubles
Trouble == troubles < MaxTroubles /\ troubles' = troubles + 1

Init ==
    /\ epoch = 1 /\ limit \in [Kinds -> Limits \ {0}] /\ telegram = [on |-> TRUE, revision |-> 1]
    /\ attempt = [a \in Attempts |-> NoAttempt]
    /\ counter = [k \in Kinds |-> NoCounter]
    /\ outcomes = [k \in Kinds |-> {}] /\ evidence = outcomes
    /\ polls = 0 /\ window = NoWindow /\ reading = 1 /\ events = {}
    /\ notes = <<>> /\ ended = {} /\ worker = Idle /\ troubles = 0

EpochOf(k) == IF k = "module" THEN 0 ELSE epoch

\* The notifications of these kinds that wait are not sent any more.
Cancelled(kinds) ==
    [n \in DOMAIN notes |-> IF notes[n].kind \in kinds /\ notes[n].state = "pending"
                            THEN [notes[n] EXCEPT !.state = "cancelled"] ELSE notes[n]]

------------------------------------------------------------------------------
(* Counting (alert_observe)                                                *)

\* A result of an attempt that has one already: a success stays one.
Merge(results, id, good, at) ==
    LET old == {r \in results : r.id = id} IN
    (results \ old) \cup {[id |-> id, at |-> at, good |-> good \/ \E r \in old : r.good]}

LastGood(results) == Max({0} \cup {r.at : r \in {x \in results : x.good}})

\* The failures that began after the last success.
Streak(results) == {r \in results : ~r.good /\ r.at > LastGood(results)}

\* The last success is kept, so that what was tried before it and is reported
\* later does not count.
\* Variant: the success goes with what is older.
AfterLast(results) == {r \in results : r.at > LastGood(results)}
Recent(results) == {r \in results : r.at >= LastGood(results)}

Raises(k, failures) == failures >= limit[k] /\ ~counter[k].active

\* Results are counted per kind; a success of the card is one for each of its
\* kinds.
Observe(k, id, good, at) ==
    LET of == IF good /\ k # "module" THEN SimKinds ELSE {k}
        on == {x \in of : limit[x] > 0 /\ (x = "module" => at > counter[x].observed)}
        seen == [x \in on |-> Merge(outcomes[x], id, good, at)]
        failures == [x \in on |-> Cardinality(Streak(seen[x]))]
        raised == {x \in on : Raises(x, failures[x])}
        note(x) == [kind |-> x, epoch |-> EpochOf(x), cycle |-> counter[x].cycle + 1,
                    revision |-> telegram.revision, state |-> "pending", posts |-> 0, taken |-> 0]
    IN
    /\ counter' = [x \in Kinds |->
          IF x \notin on THEN counter[x]
          ELSE [failures |-> failures[x], active |-> failures[x] >= limit[x],
                cycle |-> counter[x].cycle + (IF x \in raised THEN 1 ELSE 0),
                observed |-> Max({at, counter[x].observed})]]
    /\ outcomes' = [x \in Kinds |-> IF x \in on THEN Recent(seen[x]) ELSE outcomes[x]]
    /\ evidence' = [x \in Kinds |-> IF x \in on THEN Merge(evidence[x], id, good, at)
                                    ELSE evidence[x]]
    /\ LET kept == Cancelled({x \in on : failures[x] < limit[x]})
           Told(list, x) == IF x \in raised /\ telegram.on THEN Append(list, note(x)) ELSE list
       IN  notes' = Told(Told(Told(kept, "sip"), "sms"), "module")

------------------------------------------------------------------------------
(* Messages and calls (alert_message_result, alert_call_result)            *)

Begin(a, kind) ==
    /\ Room /\ attempt[a].state = "idle" /\ \A b \in Attempts : b < a => attempt[b].state # "idle"
    /\ attempt' = [attempt EXCEPT ![a] = [kind |-> kind, epoch |-> epoch, state |-> "open"]]
    /\ UNCHANGED <<epoch, limit, telegram, counts, health, notes, worker, troubles>>

\* A failure that is the user's does not count; a message whose outcome is not
\* known does, and can be resolved once by its confirmation.
Result(a, r) ==
    /\ \/ attempt[a].state = "open" /\ r \in {"good", "bad", "excused"}
       \/ attempt[a].state = "open" /\ attempt[a].kind = "sms" /\ r = "unknown"
       \/ attempt[a].state = "unknown" /\ r = "good"
    /\ attempt' = [attempt EXCEPT ![a].state = r]
    /\ IF r # "excused" /\ attempt[a].epoch = epoch THEN Observe(attempt[a].kind, a, r = "good", a)
       ELSE UNCHANGED <<counts, notes>>
    /\ UNCHANGED <<epoch, limit, telegram, health, worker, troubles>>

\* Another card (alert_card_changed).
CardChanged ==
    /\ epoch < MaxEpoch /\ epoch' = epoch + 1
    /\ counter' = [k \in Kinds |-> IF k = "module" THEN counter[k]
                                   ELSE [NoCounter EXCEPT !.cycle = counter[k].cycle]]
    /\ outcomes' = [k \in Kinds |-> IF k = "module" THEN outcomes[k] ELSE {}]
    /\ evidence' = [k \in Kinds |-> IF k = "module" THEN evidence[k] ELSE {}]
    /\ notes' = Cancelled(SimKinds)
    /\ UNCHANGED <<limit, telegram, attempt, health, worker, troubles>>

------------------------------------------------------------------------------
(* Settings (alert_limit_changed, developerSettingsAPI)                    *)

\* Variant: the cycle starts anew.
Forgotten(k) == NoCounter
Closed(k) == [counter[k] EXCEPT !.failures = 0, !.active = FALSE]

\* A limit of zero ends the streaks.
SetLimit(k, l) ==
    /\ l # limit[k] /\ Trouble /\ limit' = [limit EXCEPT ![k] = l]
    /\ IF l = 0 THEN /\ counter' = [counter EXCEPT ![k] = Closed(k)]
                     /\ outcomes' = [outcomes EXCEPT ![k] = {}]
                     /\ evidence' = [evidence EXCEPT ![k] = {}]
                     /\ notes' = Cancelled({k})
       ELSE UNCHANGED <<counts, notes>>
    /\ UNCHANGED <<epoch, telegram, attempt, health, worker>>

SetTelegram ==
    /\ Trouble /\ \E on \in BOOLEAN : telegram' = [on |-> on, revision |-> telegram.revision + 1]
    /\ notes' = Cancelled(Kinds)
    /\ UNCHANGED <<epoch, limit, attempt, counts, health, worker>>

------------------------------------------------------------------------------
(* The module's health (alertHealth)                                       *)

\* What a poll finds: a fault the reading shows, one the time shows, Wi-Fi
\* calling without a registration, a card that cannot be read, or nothing
\* that can be judged.
Faults == {"faulty", "stale", "unregistered", "card"}

\* A fault counts when it has lasted; one of Wi-Fi calling has a window of its own.
Lasting(fault) == window.since > 0 /\ window.wifi = (fault = "unregistered")

Poll(found, registered, fresh) ==
    /\ Room /\ polls' = polls + 1
    /\ registered => window.wifi
    /\ reading' = IF fresh THEN reading + 1 ELSE reading
    /\ LET now == polls + 1
           w == IF registered THEN NoWindow ELSE window
           begins == found \in Faults /\ (registered \/ ~Lasting(found))
           counted == found \in Faults \ {"card"} /\ ~begins /\ now - w.since >= Grace
           news == found # "faulty" \/ reading' \notin events
       IN
       /\ window' = IF begins THEN [since |-> now, wifi |-> found = "unregistered"]
                    ELSE IF found \in {"well", "away"} THEN NoWindow ELSE w
       /\ events' = IF counted /\ found = "faulty" THEN events \cup {reading'} ELSE events
       /\ \/ (registered \/ found = "well") /\ Observe("module", now, TRUE, now)
          \/ counted /\ news /\ Observe("module", now, FALSE, now)
          \/ /\ ~registered /\ found # "well" /\ ~(counted /\ news)
             /\ UNCHANGED <<counts, notes>>
    /\ UNCHANGED <<epoch, limit, telegram, attempt, worker, troubles>>

------------------------------------------------------------------------------
(* Delivery (deliverAlert)                                                 *)

Active(note) ==
    LET c == counter[note.kind] IN
    c.active /\ c.cycle = note.cycle /\ EpochOf(note.kind) = note.epoch

Current(note) == Active(note) /\ note.revision = telegram.revision

At(s) == worker.at = s
Note == notes[worker.note]
Others == UNCHANGED <<epoch, limit, telegram, attempt, counts, health>>

\* The first one that is due; the claim is written before anything is sent,
\* whether or not the worker is told.
Claim(n) ==
    /\ At("idle") /\ telegram.on
    /\ notes[n].state = "pending" /\ Current(notes[n])
    /\ notes' = [notes EXCEPT ![n].state = "sending", ![n].posts = @ + 1]
    /\ \/ worker' = [Idle EXCEPT !.at = "claimed", !.note = n] /\ Quiet
       \/ UNCHANGED worker /\ Trouble
    /\ Others

\* What the live registration of Wi-Fi calling says of an alert about it: what
\* cannot be judged now, or may recover by itself, is not sent now.
wifiAlertDelivery(note) ==
    IF note.kind = "module" THEN {"sending", "pending", "cancelled"} ELSE {"sending"}

\* It is looked at again when the text is made.
Recheck ==
    /\ At("claimed")
    /\ \/ Current(Note) /\ worker' = [worker EXCEPT !.at = "post"] /\ UNCHANGED notes /\ Quiet
       \/ /\ Current(Note) /\ worker' = Idle /\ Quiet
          /\ \E s \in wifiAlertDelivery(Note) \ {"sending"} :
                notes' = [notes EXCEPT ![worker.note].state = s, ![worker.note].posts = @ - 1]
       \/ /\ notes' = [notes EXCEPT ![worker.note].state = "cancelled"] /\ worker' = Idle
          /\ IF Current(Note) THEN Trouble ELSE Quiet
       \/ ~Current(Note) /\ UNCHANGED notes /\ worker' = Idle /\ Trouble
    /\ Others

\* What is known of a request (sendTelegram): only one that did not leave, or
\* that Telegram asks to repeat, is made again.
Learned(answer) ==
    CASE answer \in {"unreachable", "busy"} -> "pending" [] answer = "refused" -> "failed"
      [] answer = "silent" -> "unknown" [] OTHER -> "sent"

Post(answer) ==
    /\ At("post")
    /\ LET r == Learned(answer) IN
       worker' = [worker EXCEPT !.at = "save", !.result =
                     IF r = "pending" /\ Note.posts >= MaxPosts THEN "failed" ELSE r]
    /\ \E took \in IF answer = "silent" THEN BOOLEAN ELSE {answer = "sent"} :
          notes' = IF took THEN [notes EXCEPT ![worker.note].taken = @ + 1] ELSE notes
    /\ IF answer = "silent" THEN Trouble ELSE Quiet
    /\ Others

\* The result is written if it can be; nobody looks whether it was.
Save ==
    /\ At("save") /\ worker' = Idle
    /\ \/ notes' = [notes EXCEPT ![worker.note].state = worker.result] /\ Quiet
       \/ UNCHANGED notes /\ Trouble
    /\ Others

\* The program ends and starts again; what was being sent may have arrived.
Interrupted == "unknown"

Restart ==
    /\ Trouble /\ worker' = Idle /\ window' = NoWindow
    /\ notes' = [n \in DOMAIN notes |-> IF notes[n].state = "sending"
                                        THEN [notes[n] EXCEPT !.state = Interrupted] ELSE notes[n]]
    /\ UNCHANGED <<epoch, limit, telegram, attempt, counts, polls, reading, events>>

Step ==
    \/ \E a \in Attempts : \E kind \in SimKinds : Begin(a, kind)
    \/ \E a \in Attempts : \E r \in {"good", "bad", "excused", "unknown"} : Result(a, r)
    \/ CardChanged
    \/ \E k \in Kinds, l \in Limits : SetLimit(k, l)
    \/ SetTelegram
    \/ \E found \in Faults \cup {"well", "away", "busy"}, registered, fresh \in BOOLEAN :
          Poll(found, registered, fresh)
    \/ \E n \in DOMAIN notes : Claim(n)
    \/ Recheck
    \/ \E answer \in {"sent", "unreachable", "busy", "refused", "silent"} : Post(answer)
    \/ Save
    \/ Restart

Next == Step /\ ended' = ended \cup {n \in DOMAIN notes' : ~Current(notes[n])'}

Spec == Init /\ [][Next]_vars

------------------------------------------------------------------------------
TypeOK ==
    /\ epoch \in 1 .. MaxEpoch /\ limit \in [Kinds -> Limits] /\ troubles \in 0 .. MaxTroubles
    /\ counter \in [Kinds -> [failures : Nat, active : BOOLEAN, cycle : Nat, observed : Nat]]
    /\ \A n \in DOMAIN notes :
          /\ notes[n].kind \in Kinds /\ notes[n].posts \in 0 .. MaxPosts
          /\ notes[n].state \in {"pending", "sending", "sent", "failed", "unknown", "cancelled"}

\* A notification that Telegram may have taken is never posted again.
NeverTwice == \A n \in DOMAIN notes : notes[n].taken <= 1

\* A streak is what all results that came in, in whatever order, say it is:
\* the failures that began after the last success.
CountsStreak == \A k \in Kinds : counter[k].failures = Cardinality(Streak(evidence[k]))

\* An alert that is over - the streak ended, the card or the destination
\* changed - never becomes current again.
StaysEnded == \A n \in ended : ~Current(notes[n])

\* No two notifications are about the same streak.
OnePerStreak ==
    \A n, m \in DOMAIN notes : n # m => \/ notes[n].kind # notes[m].kind
                                       \/ notes[n].cycle # notes[m].cycle

\* An alert tells of the failures there were, once, and is not sent after its
\* end has been seen.
AlertsSound == TypeOK /\ NeverTwice /\ CountsStreak /\ StaysEnded /\ OnePerStreak
=============================================================================
