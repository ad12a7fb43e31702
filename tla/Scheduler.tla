----------------------------- MODULE Scheduler ------------------------------
(***************************************************************************)
(* The dispatch loop of messages_scheduler.go over a bounded group of      *)
(* goroutines (internal/dispatch/group.go).                                *)
(*                                                                         *)
(* The loop reads which modules have messages to send, puts them in order  *)
(* and starts at most one job per module and Limit jobs in all.  A job     *)
(* that ends leaves the group, then signals the loop, then counts itself   *)
(* out; the loop also runs on a timer.  Shutdown ends the context, leaves  *)
(* the loop and waits for the jobs in Close.                               *)
(***************************************************************************)
EXTENDS Naturals, FiniteSets, Sequences

CONSTANTS
    Modules,    \* module ids, natural numbers above zero
    Limit,      \* messageSendConcurrency
    Kinds,      \* the kinds of message that arrive
    MaxLeaving  \* bound: goroutines between delete(g.active, key) and wg.Done

SchedulerConstants ==
    /\ Modules \subseteq Nat \ {0} /\ IsFiniteSet(Modules)
    /\ Limit \in Nat \ {0} /\ MaxLeaving \in Nat \ {0}
    /\ Kinds \subseteq {"bulk", "urgent"}

VARIABLES
    pending,    \* what pendingMessageModules would say of each module
    loop,       \* the goroutine of runMessages
    urgent,     \* modules of the round under way that have a message which is not bulk
    queue,      \* modules of the round not yet looked at, in order
    resting,    \* modules whose sendAfter has not come
    sendCursor, replyCursor,
    active,     \* g.active
    leaving,    \* goroutines that left g.active and have not called wg.Done
    changed,    \* g.changed holds its token
    closed,     \* g.closed
    ended,      \* the context is cancelled
    freed       \* auxiliary: a slot was freed after the last round began

group == <<active, leaving, changed, closed>>
cursors == <<sendCursor, replyCursor>>
vars == <<pending, loop, urgent, queue, resting, cursors, group, ended, freed>>

TypeOK ==
    /\ pending \in [Modules -> {"none", "bulk", "urgent"}]
    /\ loop \in {"select", "round", "closing", "returned"}
    /\ urgent \subseteq Modules /\ resting \subseteq Modules /\ queue \in Seq(Modules)
    /\ sendCursor \in Modules \cup {0} /\ replyCursor \in Modules \cup {0}
    /\ active \subseteq Modules /\ Cardinality(active) <= Limit
    /\ leaving \in 0 .. MaxLeaving
    /\ changed \in BOOLEAN /\ closed \in BOOLEAN /\ ended \in BOOLEAN /\ freed \in BOOLEAN

Init ==
    /\ pending = [m \in Modules |-> "none"]
    /\ loop = "select"
    /\ urgent = {} /\ queue = <<>>
    /\ resting = {}
    /\ sendCursor = 0 /\ replyCursor = 0
    /\ active = {} /\ leaving = 0 /\ changed = FALSE /\ closed = FALSE
    /\ ended = FALSE /\ freed = FALSE

-----------------------------------------------------------------------------
(* The environment: messages arrive, time passes, the program stops.       *)

\* What arrives once the loop has left is read by the next run of the program.
Arrive(m, kind) ==
    /\ loop \in {"select", "round"}
    /\ pending[m] # "urgent" /\ kind # pending[m]
    /\ pending' = [pending EXCEPT ![m] = kind]
    /\ UNCHANGED <<loop, urgent, queue, resting, cursors, group, ended, freed>>

\* A round reads the clock once, so none of its modules becomes rested within it.
Rested(m) ==
    /\ loop = "select" /\ m \in resting
    /\ resting' = resting \ {m}
    /\ UNCHANGED <<pending, loop, urgent, queue, cursors, group, ended, freed>>

Stop ==
    /\ ~ ended
    /\ ended' = TRUE
    /\ UNCHANGED <<pending, loop, urgent, queue, resting, cursors, group, freed>>

-----------------------------------------------------------------------------
(* dispatchSends                                                           *)

\* sort.Slice
Sorted(S) ==
    [i \in 1 .. Cardinality(S) |-> CHOOSE x \in S : Cardinality({y \in S : y < x}) = i - 1]

\* fairMessageModules: resume after the last dispatched module.
fairMessageModulesUnfair(S, after) == Sorted(S)
fairMessageModules(S, after) == Sorted({x \in S : x > after}) \o Sorted({x \in S : x <= after})

Having(kind) == {m \in Modules : pending[m] = kind}

\* A round begins with the query, which may fail (then nothing is dispatched).  The rest
\* times of modules with nothing to send, which the round does not consult, are forgotten.
Round ==
    /\ \/ /\ urgent' = Having("urgent")
          /\ resting' = resting \cap (Having("urgent") \cup Having("bulk"))
          /\ queue' = fairMessageModules(Having("urgent"), replyCursor)
                      \o fairMessageModules(Having("bulk"), sendCursor)
          /\ loop' = "round"
       \/ UNCHANGED <<urgent, resting, queue, loop>>
    /\ freed' = FALSE
    /\ UNCHANGED <<pending, cursors, active, leaving, closed, ended>>

\* case <-timer.C, case <-sends.Changed()
Timer == loop = "select" /\ Round /\ UNCHANGED changed

Woken == loop = "select" /\ changed /\ changed' = FALSE /\ Round

\* Group.Start
MayStart(m) == ~ closed /\ ~ ended /\ Cardinality(active) < Limit /\ m \notin active

Consider(m) ==
    /\ loop = "round" /\ queue # <<>> /\ Head(queue) = m
    /\ queue' = Tail(queue)
    /\ \/ /\ m \notin resting /\ MayStart(m)
          /\ active' = active \cup {m}
          /\ resting' = resting \cup {m}
          /\ IF m \in urgent THEN replyCursor' = m /\ UNCHANGED sendCursor
                             ELSE sendCursor' = m /\ UNCHANGED replyCursor
       \/ /\ m \in resting \/ ~ MayStart(m)
          /\ UNCHANGED <<active, resting, cursors>>
    /\ UNCHANGED <<pending, loop, urgent, leaving, changed, closed, ended, freed>>

RoundEnds ==
    /\ loop = "round" /\ queue = <<>>
    /\ loop' = "select"
    /\ urgent' = {}
    /\ UNCHANGED <<pending, queue, resting, cursors, group, ended, freed>>

-----------------------------------------------------------------------------
(* Jobs and the end.                                                       *)

\* processMessage is done with one message; there may be more.
JobEnds(m) ==
    /\ m \in active /\ leaving < MaxLeaving
    /\ active' = active \ {m}
    /\ leaving' = leaving + 1
    /\ freed' = TRUE
    /\ \E left \in {"none", pending[m]} : pending' = [pending EXCEPT ![m] = left]
    /\ UNCHANGED <<loop, urgent, queue, resting, cursors, changed, closed, ended>>

\* The token is sent unless there is one already, then wg.Done.
LeaveQuietly ==
    /\ leaving > 0
    /\ leaving' = leaving - 1
    /\ changed' = IF active = {} THEN TRUE ELSE changed
    /\ UNCHANGED <<pending, loop, urgent, queue, resting, cursors, active, closed, ended, freed>>

Leave ==
    /\ leaving > 0
    /\ leaving' = leaving - 1
    /\ changed' = TRUE
    /\ UNCHANGED <<pending, loop, urgent, queue, resting, cursors, active, closed, ended, freed>>

\* case <-ctx.Done(), then the deferred Close
Close ==
    /\ loop = "select" /\ ended
    /\ loop' = "closing"
    /\ closed' = TRUE
    /\ UNCHANGED <<pending, urgent, queue, resting, cursors, active, leaving, changed, ended, freed>>

\* wg.Wait
CloseReturns ==
    /\ loop = "closing" /\ active = {} /\ leaving = 0
    /\ loop' = "returned"
    /\ UNCHANGED <<pending, urgent, queue, resting, cursors, group, ended, freed>>

Next ==
    \/ \E m \in Modules : Rested(m) \/ Consider(m) \/ JobEnds(m) \/ \E kind \in Kinds : Arrive(m, kind)
    \/ Stop \/ Timer \/ Woken \/ RoundEnds \/ Leave \/ Close \/ CloseReturns

Spec == Init /\ [][Next]_vars

\* The loop is a goroutine and its ticker never stops; a query that fails again and again is
\* excluded (the round that begins is the strongly fair one); the 250 ms of a rest pass, and
\* the next round sees it; select takes every ready case in the end; a job ends by its timeouts.
Fairness ==
    /\ SF_vars((Timer \/ Woken) /\ loop' = "round")
    /\ WF_vars(RoundEnds) /\ WF_vars(Leave) /\ SF_vars(Close) /\ WF_vars(CloseReturns)
    /\ \A m \in Modules : SF_vars(Rested(m)) /\ WF_vars(Consider(m)) /\ WF_vars(JobEnds(m))

FairSpec == Spec /\ Fairness

-----------------------------------------------------------------------------
(* What must hold.                                                         *)

\* A freed slot is always noticed: the loop is told of it, or is going to be told, or is in
\* a round and will be told after it (Group.Start's deferred function: delete, then signal).
NoLostWakeup == freed => changed \/ leaving > 0

\* Close returns only when no goroutine of the group is left (group.go:63).
CloseWaits == loop = "returned" => active = {} /\ leaving = 0

\* Rounds are short and jobs are long: from some time on no slot is freed within a round.
\* Otherwise a slot freed after a module was passed over goes to a later one, which moves the
\* cursor past the first; were every round met so, the first would wait for ever.
RoundsAreShort == <>[](loop = "round" => ~ freed)

\* No module with an urgent message waits for ever behind the others' backlog
\* (messages_scheduler.go:299).
NoUrgentStarves ==
    RoundsAreShort =>
        \A m \in Modules : pending[m] = "urgent" ~> m \in active \/ pending[m] # "urgent" \/ ended

\* Nor does one with bulk messages, once no urgent ones arrive.
NoBulkStarves ==
    RoundsAreShort /\ <>[](\A m \in Modules : pending[m] # "urgent") =>
        \A m \in Modules : pending[m] = "bulk" ~> m \in active \/ pending[m] # "bulk" \/ ended

\* Shutdown ends: no goroutine hangs on a token that nobody takes any more (group.go:43-46),
\* so Close comes back.
Stops == ended ~> loop = "returned"

\* Fairness of the dispatch rounds for both kinds of messages.
NoModuleStarves == NoUrgentStarves /\ NoBulkStarves

\* Shutdown ends, and it ends only after every goroutine of the group has left.
ShutsDown == Stops /\ []CloseWaits

=============================================================================
