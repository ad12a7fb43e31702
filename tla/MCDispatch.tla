---- MODULE MCDispatch ----
(* Work on a server with many modules: goroutines that contend for keyed   *)
(* locks, and the loop that hands modules' messages to workers.            *)
EXTENDS Integers, Locks, TLC

CONSTANTS
    Modules, Limit, Kinds, MaxLeaving

VARIABLES
    part,  \* the part whose behaviour this is
    pending, loop, urgent, queue, resting, sendCursor, replyCursor, active, leaving, changed,
    closed, ended, freed

Sch == INSTANCE Scheduler

ASSUME SchedulerBounds == Sch!SchedulerConstants

varsSch == <<pending, loop, urgent, queue, resting, sendCursor, replyCursor, active, leaving,
        changed, closed, ended, freed>>
all == <<part, vars, varsSch>>

\* Every part is as the program finds it, and one of them goes on.
InitAll ==
    /\ part \in {"locks", "scheduler"}
    /\ Init
    /\ Sch!Init

NextAll ==
    \/ part = "locks" /\ Next /\ UNCHANGED <<part, varsSch>>
    \/ part = "scheduler" /\ Sch!Next /\ UNCHANGED <<part, vars>>

\* The part that goes on is scheduled as its module says.
Fair ==
    \/ part = "locks" /\ Fairness
    \/ part = "scheduler" /\ Sch!Fairness

Behaviour == InitAll /\ [][NextAll]_all /\ Fair

-----------------------------------------------------------------------------
\* A finished job and a notification are never lost, and the loop keeps its tables (Scheduler).
DispatchSound == Sch!TypeOK /\ Sch!NoLostWakeup

\* Every goroutine that waits for a key gets it or gives up (Locks); a module that has messages
\* is dispatched in the end, if from some time on no slot is freed within a round
\* (RoundsAreShort); and the dispatcher shuts down, after its last worker (Scheduler).
NobodyStarves == WaitEnds /\ Sch!NoModuleStarves /\ Sch!ShutsDown
=============================================================================
