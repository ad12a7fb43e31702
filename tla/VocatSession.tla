---------------------------- MODULE VocatSession ----------------------------
(***************************************************************************)
(* One Wi-Fi calling lease inside the worker process: the retry loop       *)
(* (internal/hardware/wifi_vocat.go) over the lifecycle orchestrator       *)
(* (internal/vocat/vowifi/orchestrator.go), which brings up SIM, tunnel    *)
(* and IMS one after the other under its operation lock, the goroutines    *)
(* that watch the sessions for failures, and a message that is sent        *)
(* meanwhile.  The sessions themselves are ImsSession and IkeTunnel.       *)
(*                                                                         *)
(* Error texts are abstracted to what the loop tells apart: a recognised   *)
(* network failure, a registrar that named a retry time, any other error   *)
(* and a cancelled context.                                                *)
(***************************************************************************)
EXTENDS Naturals, Sequences, FiniteSets

CONSTANTS
    RegistrarLimit, \* retries of a registrar's Retry-After (three in the code)
    MaxFaults,      \* bound: stages, sessions and closes that fail, in all
    MaxSends        \* bound: messages given to the lease

SessionConstants == RegistrarLimit \in Nat /\ MaxFaults \in Nat /\ MaxSends \in Nat

Attempts == 1 .. MaxFaults + 1
Layers == {"tunnel", "ims"}
Errors == {"transient", "retryafter", "permanent"}
Stages == <<"snapshot", "rfoff", "sim", "access", "tunnel", "ims", "sms">>

VARIABLES
    ctx,       \* the lease's context is done
    want,      \* RestoreCellular(): the stop asked for the cellular radio
    pc,        \* where the retry loop is
    ok,        \* Enable returned no error
    seen,      \* the state the loop decides on
    news,      \* states published since the loop last read its subscription
    shown,     \* what the worker last reported
    registrar, \* registrarRetries
    lock,      \* holder of the operation lock: "free", "loop", "sms" or a watcher
    st,        \* orchestrator.state
    res,       \* orchestrator.resources; attempt 0 is nil
    cancelled, \* attempts whose runtime context is done
    clean,     \* what the holder's cleanup closes next
    errs,      \* its cleanupErrors are not empty
    watch,     \* watchRuntimeFailure of each attempt's layer
    rf,        \* the modem's radio
    sms,       \* a SendSMS call
    outcome,   \* how the lease ended
    open,      \* auxiliary: sessions that exist
    doubt,     \* auxiliary: for each session, the close that did not succeed
    taken,     \* auxiliary: the radio's checkpoint was taken
    faults, sends \* of MaxFaults and MaxSends, what is left

loop == <<pc, ok, seen, shown, registrar>>
vars == <<ctx, want, loop, news, lock, st, res, cancelled, clean, errs, watch, rf, sms, outcome, open, doubt, taken, faults, sends>>

Idle == [phase |-> "idle", att |-> 0, tunnel |-> FALSE, ims |-> FALSE, sms |-> FALSE, cleanup |-> FALSE, err |-> "none"]
NoRes == [att |-> 0, tunnel |-> FALSE, ims |-> FALSE, radio |-> FALSE]
Watchers == Attempts \X Layers

\* A close that failed or did not return: on record with the failure it cleans up after
\* ("known"), no longer on record ("hidden"), or of the lease's own end ("final").
Marks == {"none", "known", "hidden", "final"}

State == [phase : {"idle", "setup", "failed", "stopping", "sms"} \cup Layers, att : 0 .. MaxFaults + 1,
          tunnel : BOOLEAN, ims : BOOLEAN, sms : BOOLEAN, cleanup : BOOLEAN, err : Errors \cup {"none", "canceled"}]

\* At most four failures wait to be read, so the subscription's buffer of eight drops none.
TypeOK ==
    /\ ctx \in BOOLEAN /\ want \in BOOLEAN /\ ok \in BOOLEAN
    /\ pc \in {Stages[i] : i \in DOMAIN Stages} \cup
              {"enter", "failing", "return", "watch", "decide", "delay", "stop", "stopping", "ended"}
    /\ {st, seen} \subseteq State /\ news \in Seq(State) /\ Len(news) <= 4
    /\ shown \in {"radio-off", "reconnecting", "connected"} /\ registrar \in 0 .. RegistrarLimit
    /\ lock \in {<<"free">>, <<"loop">>, <<"sms">>} \cup Watchers
    /\ res \in [att : 0 .. MaxFaults + 1, tunnel : BOOLEAN, ims : BOOLEAN, radio : BOOLEAN]
    /\ cancelled \subseteq Attempts /\ clean \in {"no", "ims", "tunnel", "radio", "done"} /\ errs \in BOOLEAN
    /\ watch \in [Watchers -> [at : {"off", "on", "waiting", "cleaning", "done"}, why : Errors]]
    /\ rf \in {"off", "cellular"} /\ sms \in {"idle", "wants", "sending"}
    /\ outcome \in {"none", "clean", "unconfirmed"} /\ open \subseteq Watchers /\ doubt \in [Watchers -> Marks] /\ taken \in BOOLEAN
    /\ faults \in 0 .. MaxFaults /\ sends \in 0 .. MaxSends

\* WiFi has switched the radio off and seen it off before the loop begins.
Init ==
    /\ ctx = FALSE /\ want = FALSE /\ pc = "enter" /\ ok = TRUE /\ seen = Idle /\ news = <<>>
    /\ shown = "radio-off" /\ registrar = 0 /\ lock = <<"free">> /\ st = Idle /\ res = NoRes
    /\ cancelled = {} /\ clean = "no" /\ errs = FALSE
    /\ watch = [w \in Watchers |-> [at |-> "off", why |-> "permanent"]]
    /\ rf = "off" /\ sms = "idle" /\ outcome = "none" /\ open = {}
    /\ doubt = [w \in Watchers |-> "none"] /\ taken = FALSE
    /\ faults = MaxFaults /\ sends = MaxSends

Over == [at |-> "done", why |-> "permanent"]
Free == lock = <<"free">>
Fault == faults > 0 /\ faults' = faults - 1
world == <<ctx, want, rf, sends, sms>>

-----------------------------------------------------------------------------
(* The environment: the lease is stopped.                                  *)

\* A stop may carry the policy to restore the cellular radio.  One that comes when the
\* lease ends by itself is the subject of WifiSupervisor.
Stop ==
    /\ ~ ctx /\ pc \notin {"stop", "stopping", "ended"}
    /\ ctx' = TRUE /\ want' \in BOOLEAN
    /\ UNCHANGED <<loop, news, lock, st, res, cancelled, clean, errs, watch, rf, sms, outcome, open, doubt, taken, faults, sends>>

-----------------------------------------------------------------------------
(* Enable.                                                                 *)

\* Waiting for the lock ends when the context is done.
GivesUp ==
    /\ pc = "enter" /\ ctx /\ pc' = "stop"
    /\ UNCHANGED <<world, ok, seen, shown, registrar, news, lock, st, res, cancelled, clean, errs, watch, outcome, open, doubt, taken, faults>>

\* A failed attempt leaves its radio checkpoint to the next one.
Enter ==
    LET a == st.att + 1
        kept == st.phase = "failed" /\ res.radio IN
    /\ pc = "enter" /\ Free
    /\ lock' = <<"loop">> /\ pc' = IF kept THEN "rfoff" ELSE "snapshot"
    /\ st' = [Idle EXCEPT !.att = a] /\ res' = [NoRes EXCEPT !.att = a, !.radio = kept]
    /\ seen' = Idle
    /\ UNCHANGED <<world, ok, shown, registrar, news, cancelled, clean, errs, watch, outcome, open, doubt, taken, faults>>

SetupCancelled == ctx \/ res.att \in cancelled
Next_(s) == Stages[(CHOOSE i \in DOMAIN Stages : Stages[i] = s) + 1]

\* fail: the runtime is cancelled and the sessions are closed, the radio stays off.
Fail(e) ==
    /\ pc' = "failing" /\ ok' = FALSE /\ cancelled' = cancelled \cup {res.att} /\ clean' = "ims" /\ errs' = FALSE
    /\ seen' = [seen EXCEPT !.err = e]

\* Errors a stage may report: only the network's stages report network failures, and only the
\* registrar a retry time; a cancelled context cuts any of them short.
StageErrors(s) ==
    (IF SetupCancelled THEN {"canceled"} ELSE {}) \cup
    (IF faults = 0 THEN {} ELSE IF s = "ims" THEN Errors ELSE IF s = "tunnel" THEN {"transient", "permanent"} ELSE {"permanent"})

StageFails(s) ==
    /\ pc = s /\ s # "sms"
    /\ \E e \in StageErrors(s) :
          /\ Fail(e)
          /\ IF e = "canceled" THEN UNCHANGED faults ELSE Fault
    /\ UNCHANGED <<world, shown, registrar, news, lock, st, res, watch, outcome, open, doubt, taken>>

StagePasses(s) ==
    /\ pc = s /\ s \notin {"tunnel", "ims", "sms"}
    /\ pc' = Next_(s)
    /\ res' = IF s = "snapshot" THEN [res EXCEPT !.radio = TRUE] ELSE res
    /\ taken' = (taken \/ s = "snapshot")
    /\ st' = IF s = "access" THEN [st EXCEPT !.phase = "setup"] ELSE st
    /\ UNCHANGED <<world, ok, seen, shown, registrar, news, lock, cancelled, clean, errs, watch, outcome, open, doubt, faults>>

\* The provider returned a session: it belongs to the resources before its evidence is judged.
AdoptJudged(s) == res' = [res EXCEPT ![s] = pc' # "failing"]
Adopt(s) == res' = [res EXCEPT ![s] = TRUE]

StartSession(s) ==
    /\ pc = s /\ s \in Layers
    /\ open' = open \cup {<<res.att, s>>}
    /\ \/ /\ pc' = Next_(s) /\ st' = [st EXCEPT !.phase = s, ![s] = TRUE]
          /\ watch' = [watch EXCEPT ![<<res.att, s>>].at = "on"]
          /\ UNCHANGED <<ok, cancelled, clean, errs, seen, faults>>
       \/ /\ Fail("permanent") /\ Fault /\ UNCHANGED st
          /\ watch' = IF s = "ims" THEN [watch EXCEPT ![<<res.att, s>>].at = "on"] ELSE watch
    /\ Adopt(s)
    /\ UNCHANGED <<world, shown, registrar, news, lock, outcome, doubt, taken>>

\* AllowIMSWithoutSMS: the attempt succeeds without the message capability.
EnableSMS ==
    /\ pc = "sms" /\ pc' = "return" /\ ok' = TRUE /\ lock' = <<"free">>
    /\ \/ st' = [st EXCEPT !.phase = "sms", !.sms = TRUE]
       \/ UNCHANGED st
    /\ UNCHANGED <<world, seen, shown, registrar, news, res, cancelled, clean, errs, watch, outcome, open, doubt, taken, faults>>

-----------------------------------------------------------------------------
(* cleanupSessions and cleanup, by whoever holds the lock.                 *)

Cause == IF pc = "stopping" /\ lock = <<"loop">> THEN "final" ELSE "known"

\* The close of a session succeeds, or fails with its session gone, or does not return
\* within CleanupTimeout: then it is left to its goroutine, and the cleanup goes on.
Closes(x) ==
    \/ open' = open \ {x} /\ UNCHANGED <<errs, doubt, faults>>
    \/ /\ Fault /\ errs' = TRUE /\ doubt' = [doubt EXCEPT ![x] = Cause]
       /\ open' \in {open, open \ {x}}

CloseSession(l, after) ==
    /\ clean = l /\ clean' = after
    /\ IF res[l] THEN Closes(<<res.att, l>>) ELSE UNCHANGED <<errs, doubt, faults, open>>
    /\ res' = [res EXCEPT ![l] = FALSE]
    /\ UNCHANGED <<world, loop, news, lock, st, cancelled, watch, outcome, taken>>

\* A close that was given up ends after all.
LateClose(x) ==
    /\ x \in open /\ doubt[x] # "none" /\ open' = open \ {x}
    /\ UNCHANGED <<world, loop, news, lock, st, res, cancelled, clean, errs, watch, outcome, doubt, taken, faults>>

\* Only Disable restores the radio.
AfterTunnel == IF pc = "stopping" /\ lock = <<"loop">> THEN "radio" ELSE "done"
CloseIMS == CloseSession("ims", "tunnel")
CloseTunnel == CloseSession("tunnel", AfterTunnel)

RestoreRadio ==
    LET target == IF want THEN "cellular" ELSE "off" IN
    /\ clean = "radio" /\ clean' = "done"
    /\ IF res.radio
       THEN \/ rf' = target /\ UNCHANGED <<errs, faults>>
            \/ rf' \in {rf, target} /\ errs' = TRUE /\ Fault
       ELSE UNCHANGED <<rf, errs, faults>>
    /\ res' = [res EXCEPT !.radio = FALSE]
    /\ UNCHANGED <<ctx, want, sends, sms, loop, news, lock, st, cancelled, watch, outcome, open, doubt, taken>>

\* mutate hands each new state to the loop's subscription, which keeps the newest ones.
Published(s) == Append(news, s)
Failed(e) == [st EXCEPT !.phase = "failed", !.tunnel = FALSE, !.ims = FALSE, !.sms = FALSE, !.cleanup = errs, !.err = e]
Keep == res' = IF res.radio THEN res ELSE NoRes

\* The rest of fail, and Enable's return.
FailEnds ==
    /\ pc = "failing" /\ lock = <<"loop">> /\ clean = "done"
    /\ st' = Failed(seen.err) /\ Keep /\ clean' = "no" /\ lock' = <<"free">> /\ pc' = "return"
    /\ UNCHANGED <<world, ok, seen, shown, registrar, news, cancelled, errs, watch, outcome, open, doubt, taken, faults>>

-----------------------------------------------------------------------------
(* Watching a session.                                                     *)

WatcherQuits(w) ==
    /\ watch[w].at = "on" /\ w[1] \in cancelled
    /\ watch' = [watch EXCEPT ![w] = Over]
    /\ UNCHANGED <<world, loop, news, lock, st, res, cancelled, clean, errs, outcome, open, doubt, taken, faults>>

\* The failure interrupts a set-up that still runs, before the lock is awaited.
WatcherFails(w) ==
    /\ watch[w].at = "on" /\ Fault
    /\ \E e \in IF w[2] = "ims" THEN Errors ELSE {"transient", "permanent"} :
          watch' = [watch EXCEPT ![w] = [at |-> "waiting", why |-> e]]
    /\ cancelled' = cancelled \cup {w[1]}
    /\ UNCHANGED <<world, loop, news, lock, st, res, clean, errs, outcome, open, doubt, taken>>

MayLock == Free

WatcherLocks(w) ==
    /\ watch[w].at = "waiting" /\ MayLock
    /\ IF res.att = w[1]
       THEN lock' = w /\ clean' = "ims" /\ errs' = FALSE /\ watch' = [watch EXCEPT ![w].at = "cleaning"]
       ELSE watch' = [watch EXCEPT ![w] = Over] /\ UNCHANGED <<lock, clean, errs>>
    /\ UNCHANGED <<world, loop, news, st, res, cancelled, outcome, open, doubt, taken, faults>>

\* A second failure of an attempt replaces the first one's record with that of its own
\* cleanup, which finds nothing left to close.
Replaced == [x \in Watchers |-> IF ~ errs /\ doubt[x] = "known" THEN "hidden" ELSE doubt[x]]

WatcherEnds(w) ==
    /\ lock = w /\ clean = "done"
    /\ st' = Failed(watch[w].why) /\ news' = Published(Failed(watch[w].why)) /\ Keep /\ doubt' = Replaced
    /\ lock' = <<"free">> /\ clean' = "no" /\ watch' = [watch EXCEPT ![w] = Over]
    /\ UNCHANGED <<world, loop, cancelled, errs, outcome, open, taken, faults>>

-----------------------------------------------------------------------------
(* The retry loop.                                                         *)

Report(s) == IF s.ims /\ s.tunnel THEN "connected" ELSE "reconnecting"

\* Enable has returned: the newest published state replaces the one it returned.
Drain ==
    /\ pc = "return"
    /\ seen' = st /\ news' = <<>>
    /\ IF ok /\ st.phase # "failed"
       THEN /\ pc' = "watch" /\ shown' = Report(st)
            /\ registrar' = IF st.ims /\ st.tunnel THEN 0 ELSE registrar
       ELSE pc' = "decide" /\ UNCHANGED <<shown, registrar>>
    /\ UNCHANGED <<world, ok, lock, st, res, cancelled, clean, errs, watch, outcome, open, doubt, taken, faults>>

Follow ==
    /\ pc = "watch"
    /\ \/ ctx /\ pc' = "stop" /\ UNCHANGED <<seen, news>>
       \/ /\ news # <<>> /\ seen' = Head(news) /\ news' = Tail(news) /\ pc' = "decide"
    /\ UNCHANGED <<world, ok, shown, registrar, lock, st, res, cancelled, clean, errs, watch, outcome, open, doubt, taken, faults>>

vocatRegistrationRetryDelay(s) ==
    ~ s.cleanup /\ (s.err = "transient" \/ (s.err = "retryafter" /\ registrar < RegistrarLimit))

\* vocatStateError reports a cleanup in doubt, but a stop that is seen first is all there is to say.
Decide ==
    /\ pc = "decide" /\ shown' = "reconnecting"
    /\ IF ~ ctx /\ vocatRegistrationRetryDelay(seen)
       THEN pc' = "delay" /\ registrar' = registrar + (IF seen.err = "retryafter" THEN 1 ELSE 0)
       ELSE pc' = "stop" /\ UNCHANGED registrar
    /\ outcome' = IF ~ ctx /\ seen.cleanup THEN "unconfirmed" ELSE outcome
    /\ UNCHANGED <<world, ok, seen, news, lock, st, res, cancelled, clean, errs, watch, open, doubt, taken, faults>>

Delay ==
    /\ pc = "delay" /\ pc' = IF ctx THEN "stop" ELSE "enter"
    /\ UNCHANGED <<world, ok, seen, shown, registrar, news, lock, st, res, cancelled, clean, errs, watch, outcome, open, doubt, taken, faults>>

\* Disable, called once, by the loop's end: the runtime is cancelled before the lock is awaited,
\* for thirty seconds.
Conclude(failed) == outcome' = IF failed \/ outcome = "unconfirmed" THEN "unconfirmed" ELSE "clean"
Runtime == IF res.att = 0 THEN cancelled ELSE cancelled \cup {res.att}
Disable ==
    /\ pc = "stop" /\ shown' = "reconnecting" /\ cancelled' = Runtime
    /\ IF ~ Free \/ (res.att = 0 /\ st.phase = "idle")
       THEN pc' = "ended" /\ Conclude(~ Free) /\ UNCHANGED <<lock, st, clean, errs>>
       ELSE /\ pc' = "stopping" /\ lock' = <<"loop">> /\ clean' = "ims" /\ errs' = FALSE
            /\ st' = [st EXCEPT !.phase = "stopping", !.tunnel = FALSE, !.ims = FALSE, !.sms = FALSE]
            /\ UNCHANGED outcome
    /\ UNCHANGED <<world, ok, seen, registrar, news, res, watch, open, doubt, taken, faults>>

DisableEnds ==
    /\ pc = "stopping" /\ lock = <<"loop">> /\ clean = "done"
    /\ pc' = "ended" /\ Conclude(errs)
    /\ st' = [Idle EXCEPT !.att = st.att, !.cleanup = errs] /\ res' = NoRes /\ lock' = <<"free">> /\ clean' = "no"
    /\ UNCHANGED <<world, ok, seen, shown, registrar, news, cancelled, errs, watch, open, doubt, taken, faults>>

-----------------------------------------------------------------------------
(* SendSMS.                                                                *)

Send ==
    /\ pc # "ended" /\ sms = "idle" /\ sends > 0 /\ sms' = "wants" /\ sends' = sends - 1
    /\ UNCHANGED <<ctx, want, rf, loop, news, lock, st, res, cancelled, clean, errs, watch, outcome, open, doubt, taken, faults>>

SendSMS ==
    /\ \/ /\ sms = "wants" /\ Free
          /\ IF res.ims /\ st.ims /\ st.sms THEN sms' = "sending" /\ lock' = <<"sms">> ELSE sms' = "idle" /\ UNCHANGED lock
       \/ sms = "sending" /\ sms' = "idle" /\ lock' = <<"free">>
    /\ UNCHANGED <<ctx, want, rf, sends, loop, news, st, res, cancelled, clean, errs, watch, outcome, open, doubt, taken, faults>>

-----------------------------------------------------------------------------
Enable ==
    \/ GivesUp \/ Enter \/ EnableSMS \/ FailEnds
    \/ \E i \in DOMAIN Stages : StageFails(Stages[i]) \/ StagePasses(Stages[i]) \/ StartSession(Stages[i])
LateCloses == \E x \in open : LateClose(x)
Cleanup == CloseIMS \/ CloseTunnel \/ RestoreRadio
Coordinate == Drain \/ Follow \/ Decide \/ Delay \/ Disable \/ DisableEnds
Watcher(w) == WatcherQuits(w) \/ WatcherLocks(w) \/ WatcherEnds(w)

\* A lease that has ended and a set-up nobody stops are no deadlock.
Next ==
    \/ Stop \/ Enable \/ Cleanup \/ Coordinate
    \/ \E w \in Watchers : Watcher(w) \/ WatcherFails(w)
    \/ Send \/ SendSMS \/ LateCloses

Spec == Init /\ [][Next]_vars

\* Every call has a deadline or ends with its context, and the goroutines are scheduled.
Fairness ==
    /\ WF_vars(Enable) /\ WF_vars(Cleanup) /\ WF_vars(Coordinate) /\ WF_vars(SendSMS)
    /\ \A w \in Watchers : WF_vars(Watcher(w))

FairSpec == Spec /\ Fairness

-----------------------------------------------------------------------------
(* Properties.                                                             *)

Live == {x \in open : doubt[x] = "none"}

\* The radio stays off through failures and retries: the cellular network is back only at
\* the lease's end, over no session but one whose close was tried and did not succeed
\* ("Explicit Disable is the only path that restores the pre-VoWiFi radio mode").
RadioHeld == rf = "cellular" => Live = {} /\ pc \in {"stopping", "ended"}

\* No session is forgotten: one that exists belongs to the attempt the orchestrator still
\* knows, unless its close was tried and did not succeed.
NoOrphan == \A x \in Live : x[1] = res.att /\ res[x[2]]

\* The loop never meets ErrAlreadyEnabled: it enables only what is idle or has failed.
Startable == pc = "enter" => st.phase \in {"idle", "failed"}

\* A lease begins no other attempt while a close that did not succeed is on record.
NoKnownDoubt == pc \in {"enter", "delay"} => \A x \in Watchers : doubt[x] # "known"

\* The orchestrator's transactions: the radio, the sessions and the phases agree through
\* every failure, retry and stop, and through closes that fail or never return.
LeaseSound == TypeOK /\ RadioHeld /\ NoOrphan /\ Startable /\ NoKnownDoubt

\* Teardown never closes the session under a message that is being submitted (SendSMS).
NeverUnderMessage == sms = "sending" => <<res.att, "ims">> \in Live

\* The worker calls the lease connected only while both sessions exist, unless a failure is
\* being handled and the loop is certain to hear of it.
HonestReport ==
    shown = "connected" =>
        \/ \A l \in Layers : <<st.att, l>> \in Live
        \/ pc # "watch" \/ news # <<>> \/ lock \in Watchers

\* A lease that ends clean has closed every session that its end found and left the radio as
\* the stop asked (unless it never took the checkpoint that Disable restores).  A close that a
\* failure before it left in doubt may be passed over only when a stop came before the loop
\* had judged that failure, or when another failure's record had replaced its own.
HonestEnd ==
    outcome = "clean" =>
        /\ Live = {} /\ (taken => rf = IF want THEN "cellular" ELSE "off")
        /\ \A x \in Watchers : doubt[x] # "final" /\ (doubt[x] = "known" => ctx)

\* What the worker tells the service of the lease, while it runs and when it ends, is so.
HonestLease == HonestReport /\ HonestEnd

\* A stopped lease ends, and the loop hears of every failure of a connected one.
LeaseEnds == (ctx ~> (pc = "ended")) /\ ((pc = "watch" /\ st.phase = "failed") ~> (pc # "watch"))

\* MODIFICATIONS.md:39: "operator rejections and unconfirmed local cleanup are not retried".
NoRetryInDoubt == pc = "delay" => \A x \in Watchers : doubt[x] = "none"
=============================================================================
