---- MODULE MCMessages ----
(* Messages on their way between the database, the workers and the carrier, *)
(* and the events that a webhook is told of them.                           *)
EXTENDS Integers, Messages

CONSTANTS
    Resources, Hooks, MaxAttempts, MaxEvents, MaxCalls

VARIABLES
    part,  \* the part whose behaviour this is
    hook, log, seq, open, floor, jobs, running, paused, reader, hookFaults, calls, answered, posts,
    skipped

Hook == INSTANCE Webhook WITH
    MaxFaults <- 1, Answers <- {"2xx", "4xx", "429"}, faults <- hookFaults

ASSUME HookBounds == Hook!WebhookConstants

varsHook == <<hook, log, seq, open, floor, jobs, running, paused, reader, hookFaults, calls,
        answered, posts, skipped>>
all == <<part, vars, varsHook>>

\* Every part is as the program finds it, and one of them goes on.
InitAll ==
    /\ part \in {"messages", "webhook"}
    /\ Init /\ (part # "messages" => \A m \in Msgs : ~ row[m].mine)
    /\ Hook!Init

NextAll ==
    \/ part = "messages" /\ Next /\ UNCHANGED <<part, varsHook>>
    \/ part = "webhook" /\ Hook!Next /\ UNCHANGED <<part, vars>>

\* The part that goes on is scheduled as its module says.
Fair ==
    \/ part = "messages" /\ Fairness
    \/ part = "webhook" /\ Hook!Fairness

Behaviour == InitAll /\ [][NextAll]_all /\ Fair

-----------------------------------------------------------------------------
\* An event is called delivered only if its receiver has accepted it and is posted no more often
\* than its attempts say; merging status hints loses neither the newest of a message nor any
\* received message, in whatever order hints return to pending; a reader's cursor passes no event
\* it was not given, unless retention ran between the two statements of a page (Webhook).  The
\* order of posts is not promised and not stated.
HookSound == Hook!HonestDelivery /\ Hook!NewestKept /\ Hook!Continuous

\* Every outgoing message reaches a final state or is given up, every recorded outcome of a
\* message of either direction reaches its row (Messages), and every event is delivered or given
\* up (Webhook).  An incoming message may stay as it is: DownloadingIsLive is violated.
EverythingEnds == EverythingSettles /\ Hook!EventsEnd
=============================================================================
