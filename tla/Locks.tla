------------------------------- MODULE Locks --------------------------------
(***************************************************************************)
(* The keyed lock of backend/internal/dispatch/locks.go.                   *)
(*                                                                         *)
(* Each key has an entry {gate, users} that lives only while a process     *)
(* uses it.  The counter and the map change under l.mu; taking the gate,   *)
(* giving up because the context ended, and the two halves of an unlock    *)
(* (receive from the gate, then release) are separate steps.               *)
(***************************************************************************)
EXTENDS Naturals, FiniteSets

CONSTANTS
    Procs,      \* goroutines that call Lock
    Keys,
    Entries,    \* keyLock objects; an unreachable one may be allocated again
    None

ASSUME LocksConstants ==
    /\ IsFiniteSet(Procs)
    /\ None \notin Keys \cup Entries

VARIABLES
    keys,       \* l.keys: the entry of each key, or None
    users,      \* entry.users
    gate,       \* TRUE while the one slot of entry.gate is filled
    pc,         \* what each process is doing inside Lock or its unlock function
    key,        \* the key of the process's call
    entry       \* the entry the process captured

vars == <<keys, users, gate, pc, key, entry>>

Using(p) == pc[p] # "idle"
Users(e) == {p \in Procs : Using(p) /\ entry[p] = e}
Reachable(e) == (\E p \in Procs : Using(p) /\ entry[p] = e) \/ (\E k \in Keys : keys[k] = e)

Init ==
    /\ keys = [k \in Keys |-> None]
    /\ users = [e \in Entries |-> 0]
    /\ gate = [e \in Entries |-> FALSE]
    /\ pc = [p \in Procs |-> "idle"]
    /\ key = [p \in Procs |-> None]
    /\ entry = [p \in Procs |-> None]

\* The section under l.mu: find or create the entry and count this process.
Enter(p, k, e) ==
    /\ pc[p] = "idle"
    /\ \/ /\ keys[k] = None /\ ~ Reachable(e)
          /\ keys' = [keys EXCEPT ![k] = e]
          /\ users' = [users EXCEPT ![e] = 1]
          /\ gate' = [gate EXCEPT ![e] = FALSE]
       \/ /\ keys[k] = e
          /\ users' = [users EXCEPT ![e] = @ + 1]
          /\ UNCHANGED <<keys, gate>>
    /\ pc' = [pc EXCEPT ![p] = "waiting"]
    /\ key' = [key EXCEPT ![p] = k]
    /\ entry' = [entry EXCEPT ![p] = e]

\* case entry.gate <- struct{}{}
Acquire(p) ==
    /\ pc[p] = "waiting"
    /\ ~ gate[entry[p]]
    /\ gate' = [gate EXCEPT ![entry[p]] = TRUE]
    /\ pc' = [pc EXCEPT ![p] = "held"]
    /\ UNCHANGED <<keys, users, key, entry>>

\* Mutant: a process that gave up also drains the gate.
GiveUpDraining(p) ==
    /\ pc[p] = "waiting"
    /\ pc' = [pc EXCEPT ![p] = "leaving"]
    /\ gate' = [gate EXCEPT ![entry[p]] = FALSE]
    /\ UNCHANGED <<keys, users, key, entry>>

\* case <-ctx.Done(), at any time while waiting; release follows.
GiveUp(p) ==
    /\ pc[p] = "waiting"
    /\ pc' = [pc EXCEPT ![p] = "leaving"]
    /\ UNCHANGED <<keys, users, gate, key, entry>>

\* The first half of the unlock function: <-entry.gate.
Unlock(p) ==
    /\ pc[p] = "held"
    /\ gate' = [gate EXCEPT ![entry[p]] = FALSE]
    /\ pc' = [pc EXCEPT ![p] = "leaving"]
    /\ UNCHANGED <<keys, users, key, entry>>

\* release: the last user deletes whatever the map holds for its key.
Release(p) ==
    /\ pc[p] = "leaving"
    /\ users' = [users EXCEPT ![entry[p]] = @ - 1]
    /\ keys' = [keys EXCEPT ![key[p]] = IF users[entry[p]] = 1 THEN None ELSE @]
    /\ pc' = [pc EXCEPT ![p] = "idle"]
    /\ key' = [key EXCEPT ![p] = None]
    /\ entry' = [entry EXCEPT ![p] = None]
    /\ UNCHANGED gate

Step(p) == Acquire(p) \/ GiveUp(p) \/ Unlock(p) \/ Release(p)

Next == \E p \in Procs : Step(p) \/ \E k \in Keys, e \in Entries : Enter(p, k, e)

Spec == Init /\ [][Next]_vars

\* A holder unlocks and a leaver releases; the runtime queues blocked senders of
\* a channel in order, so a waiter whose gate is free again and again gets it.
Fairness == \A p \in Procs : WF_vars(Unlock(p)) /\ WF_vars(Release(p)) /\ SF_vars(Acquire(p))

FairSpec == Spec /\ Fairness

-----------------------------------------------------------------------------
TypeOK ==
    /\ keys \in [Keys -> Entries \cup {None}]
    /\ users \in [Entries -> Nat]
    /\ gate \in [Entries -> BOOLEAN]
    /\ pc \in [Procs -> {"idle", "waiting", "held", "leaving"}]
    /\ key \in [Procs -> Keys \cup {None}]
    /\ entry \in [Procs -> Entries \cup {None}]

\* All users of a key share the entry the map holds for it, so a process that
\* arrives while another leaves never gets a second gate for the same key.
SharedEntry ==
    \A p \in Procs : Using(p) => key[p] \in Keys /\ entry[p] \in Entries /\ keys[key[p]] = entry[p]

\* An entry serves one key.
OneKey == \A k, l \in Keys : keys[k] = keys[l] /\ keys[k] # None => k = l

\* The counter is exact, and "unused entries are released immediately": an entry
\* is in the map exactly while it has users.
CountExact ==
    \A k \in Keys, e \in Entries : keys[k] = e => users[e] = Cardinality(Users(e)) /\ users[e] > 0

\* The gate is full exactly while a process holds it, and one process holds it.
GateHeld ==
    /\ \A p \in Procs : pc[p] = "held" => gate[entry[p]]
    /\ \A p, q \in Procs : pc[p] = "held" /\ pc[q] = "held" /\ entry[p] = entry[q] => p = q
    /\ \A k \in Keys, e \in Entries : keys[k] = e /\ gate[e] =>
            \E p \in Procs : pc[p] = "held" /\ entry[p] = e

\* The inductive invariant.
IInv == TypeOK /\ SharedEntry /\ OneKey /\ CountExact /\ GateHeld

\* One holder per key, through every creation, deletion and re-creation of the
\* key's entry and every context that ends while waiting.
MutualExclusion ==
    \A p, q \in Procs : pc[p] = "held" /\ pc[q] = "held" /\ key[p] = key[q] => p = q

\* No entry is left behind when nobody uses its key.
NoLeak == \A k \in Keys : keys[k] # None => \E p \in Procs : Using(p) /\ key[p] = k

\* A process that waits gets the lock or gives up.
WaitEnds == \A p \in Procs : pc[p] = "waiting" ~> pc[p] # "waiting"

Abstract == INSTANCE KeyedMutex WITH holder <- [p \in Procs |-> IF pc[p] = "held" THEN key[p] ELSE None]

\* Locks implements the abstract keyed mutex.
Refines == Abstract!MutexSpec

=============================================================================
