--------------------------- MODULE DispatchProofs ---------------------------
(* Locks keeps one holder per key, leaks no entry, and implements KeyedMutex, *)
(* for any finite set of goroutines and any keys.  The dispatch loop loses no *)
(* wakeup and is left by its last worker before Close returns, for any finite *)
(* set of modules and any limits.                                             *)
EXTENDS MCDispatch, Sequences, Functions, TLAPS, FiniteSetTheorems

USE LocksConstants

\* A process that starts using entry e adds exactly itself to Users(e).
LEMMA EnterUsers ==
    ASSUME IInv, NEW p \in Procs, NEW k \in Keys, NEW e \in Entries, Enter(p, k, e)
    PROVE  /\ Users(e)' = Users(e) \cup {p}
           /\ \A f \in Entries : f # e => Users(f)' = Users(f)
           /\ p \notin Users(e)
  BY DEF IInv, TypeOK, Enter, Users, Using

\* A process that releases removes exactly itself from the users of its entry.
LEMMA ReleaseUsers ==
    ASSUME IInv, NEW p \in Procs, NEW e, e = entry[p], Release(p)
    PROVE  /\ Users(e)' = Users(e) \ {p}
           /\ \A f \in Entries : f # e => Users(f)' = Users(f)
           /\ p \in Users(e)
           /\ e \in Entries /\ key[p] \in Keys /\ keys[key[p]] = e
  <1>1. p \in Users(e) /\ e \in Entries /\ key[p] \in Keys /\ keys[key[p]] = e
    BY DEF IInv, SharedEntry, Release, Users, Using
  <1>2. ASSUME NEW q \in Procs, q # p
        PROVE  Using(q)' = Using(q) /\ entry'[q] = entry[q]
    BY <1>2 DEF IInv, TypeOK, Release, Using
  <1>3. ~ Using(p)'
    BY DEF IInv, TypeOK, Release, Using
  <1> QED
    BY <1>1, <1>2, <1>3 DEF Users

\* Every set of users is finite, so counting it is meaningful.
LEMMA UsersFinite ==
    ASSUME NEW e
    PROVE  IsFiniteSet(Users(e)) /\ Cardinality(Users(e)) \in Nat
  <1>1. Users(e) \subseteq Procs
    BY DEF Users
  <1>2. IsFiniteSet(Users(e))
    BY <1>1, FS_Subset
  <1> QED
    BY <1>2, FS_CardinalityType

\* The invariant holds initially.
LEMMA InitIInv == Init => IInv
  BY DEF Init, IInv, TypeOK, SharedEntry, OneKey, CountExact, GateHeld, Using

\* Entering preserves the invariant: the entry found or created is shared.
LEMMA EnterIInv ==
    ASSUME IInv, NEW p \in Procs, NEW k \in Keys, NEW e \in Entries, Enter(p, k, e)
    PROVE  IInv'
  <1>1. TypeOK'
    <2>1. CASE keys[k] = None
      <3>1. keys[k] # e
        BY <2>1
      <3>2. users' \in [Entries -> Nat] /\ keys' \in [Keys -> Entries \cup {None}]
        BY <2>1, <3>1 DEF IInv, TypeOK, Enter
      <3>3. gate' \in [Entries -> BOOLEAN]
        BY <2>1, <3>1 DEF IInv, TypeOK, Enter
      <3> QED
        BY <3>2, <3>3 DEF IInv, TypeOK, Enter
    <2>2. CASE keys[k] = e
      <3>1. users' \in [Entries -> Nat] /\ keys' = keys /\ gate' = gate
        BY <2>2 DEF IInv, TypeOK, Enter
      <3> QED
        BY <3>1 DEF IInv, TypeOK, Enter
    <2> QED
      BY <2>1, <2>2 DEF Enter
  <1>2. SharedEntry'
    <2>1. CASE keys[k] = None
      BY <2>1 DEF IInv, TypeOK, SharedEntry, Enter, Using
    <2>2. CASE keys[k] = e
      BY <2>2 DEF IInv, TypeOK, SharedEntry, Enter, Using
    <2> QED
      BY <2>1, <2>2 DEF Enter
  <1>3. OneKey'
    BY DEF IInv, TypeOK, OneKey, Enter, Reachable
  <1>4. CountExact'
    <2> SUFFICES ASSUME NEW l \in Keys, NEW f \in Entries, keys'[l] = f
                 PROVE  users'[f] = Cardinality(Users(f)') /\ users'[f] > 0
      BY DEF CountExact
    <2>1. CASE keys[k] = None /\ l = k
      <3>1. f = e /\ Users(e) = {} /\ users'[e] = 1
        BY <2>1 DEF Enter, Reachable, Users, IInv, TypeOK
      <3>2. Users(f)' = {p}
        BY <3>1, EnterUsers
      <3>3. Cardinality({p}) = 1
        BY FS_Singleton
      <3> QED
        BY <3>1, <3>2, <3>3
    <2>2. CASE keys[k] = e /\ l = k
      <3>1. f = e /\ keys[l] = e /\ users'[e] = users[e] + 1
        BY <2>2 DEF Enter, IInv, TypeOK
      <3>2. Cardinality(Users(e)') = Cardinality(Users(e)) + 1
        <4>1. Users(e)' = Users(e) \cup {p} /\ p \notin Users(e)
          BY EnterUsers
        <4>2. IsFiniteSet(Users(e))
          BY UsersFinite
        <4> QED
          BY <4>1, <4>2, FS_AddElement
      <3>3. users[e] = Cardinality(Users(e)) /\ users[e] > 0 /\ users[e] \in Nat
        BY <3>1 DEF IInv, CountExact, TypeOK
      <3> QED
        BY <3>1, <3>2, <3>3
    <2>3. CASE l # k
      <3>1. keys[l] = f /\ f # e
        BY <2>3 DEF Enter, IInv, TypeOK, OneKey, Reachable
      <3>2. users'[f] = users[f]
        BY <3>1 DEF Enter, IInv, TypeOK
      <3>3. Users(f)' = Users(f)
        BY <3>1, EnterUsers
      <3> QED
        BY <3>1, <3>2, <3>3 DEF IInv, CountExact
    <2> QED
      BY <2>1, <2>2, <2>3 DEF Enter
  <1>5. GateHeld'
    BY DEF IInv, TypeOK, SharedEntry, OneKey, GateHeld, Enter, Using, Reachable
  <1> QED
    BY <1>1, <1>2, <1>3, <1>4, <1>5 DEF IInv

\* Taking the gate, giving up and unlocking change no count and no entry.
LEMMA GateIInv ==
    ASSUME IInv, NEW p \in Procs, Acquire(p) \/ GiveUp(p) \/ Unlock(p)
    PROVE  IInv'
  <1>1. TypeOK'
    BY DEF IInv, TypeOK, Acquire, GiveUp, Unlock
  <1>2. SharedEntry' /\ OneKey'
    BY DEF IInv, TypeOK, SharedEntry, OneKey, Acquire, GiveUp, Unlock, Using
  <1>3. CountExact'
    <2>1. \A e : Users(e)' = Users(e)
      BY DEF IInv, TypeOK, Acquire, GiveUp, Unlock, Users, Using
    <2>2. keys' = keys /\ users' = users
      BY DEF Acquire, GiveUp, Unlock
    <2> QED
      BY <2>1, <2>2 DEF IInv, CountExact
  <1>4. GateHeld'
    <2>1. CASE Acquire(p)
      BY <2>1 DEF IInv, TypeOK, SharedEntry, GateHeld, Acquire, Using
    <2>2. CASE GiveUp(p)
      BY <2>2 DEF IInv, TypeOK, SharedEntry, GateHeld, GiveUp, Using
    <2>3. CASE Unlock(p)
      BY <2>3 DEF IInv, TypeOK, SharedEntry, GateHeld, Unlock, Using
    <2> QED
      BY <2>1, <2>2, <2>3
  <1> QED
    BY <1>1, <1>2, <1>3, <1>4 DEF IInv

\* The last user, and only the last user, removes the entry of its key.
LEMMA ReleaseIInv ==
    ASSUME IInv, NEW p \in Procs, Release(p)
    PROVE  IInv'
  <1> PICK e : e = entry[p]
    OBVIOUS
  <1>1. e \in Entries /\ key[p] \in Keys /\ keys[key[p]] = e /\ p \in Users(e)
    BY ReleaseUsers
  <1>2. users[e] = Cardinality(Users(e)) /\ users[e] \in Nat /\ users[e] > 0
    BY <1>1 DEF IInv, CountExact, TypeOK
  <1>3. Cardinality(Users(e)') = users[e] - 1
    <2>1. Users(e)' = Users(e) \ {p}
      BY ReleaseUsers
    <2> QED
      BY <1>1, <1>2, <2>1, UsersFinite, FS_RemoveElement
  <1>4. users[e] = 1 => Users(e)' = {}
    <2>1. IsFiniteSet(Users(e)')
      <3>1. Users(e)' \subseteq Procs
        BY DEF Users
      <3> QED
        BY <3>1, FS_Subset
    <2> QED
      BY <1>3, <2>1, FS_EmptySet
  <1>5. TypeOK'
    BY <1>1, <1>2 DEF IInv, TypeOK, Release
  <1>6. SharedEntry'
    <2> SUFFICES ASSUME NEW q \in Procs, Using(q)'
                 PROVE  key'[q] \in Keys /\ entry'[q] \in Entries /\ keys'[key'[q]] = entry'[q]
      BY DEF SharedEntry
    <2>1. q # p /\ key'[q] = key[q] /\ entry'[q] = entry[q] /\ Using(q)
      BY DEF Using, Release, IInv, TypeOK
    <2>2. key[q] \in Keys /\ entry[q] \in Entries /\ keys[key[q]] = entry[q]
      BY <2>1 DEF IInv, SharedEntry
    <2>3. CASE key[q] = key[p]
      <3>1. q \in Users(e)'
        BY <1>1, <2>1, <2>2, <2>3 DEF Users
      <3>2. users[e] # 1
        BY <1>4, <3>1
      <3> QED
        BY <1>1, <2>1, <2>2, <2>3, <3>2 DEF Release, IInv, TypeOK
    <2>4. CASE key[q] # key[p]
      BY <1>1, <2>1, <2>2, <2>4 DEF Release, IInv, TypeOK
    <2> QED
      BY <2>3, <2>4
  <1>7. OneKey'
    BY <1>1 DEF IInv, TypeOK, OneKey, Release
  <1>8. CountExact'
    <2> SUFFICES ASSUME NEW l \in Keys, NEW f \in Entries, keys'[l] = f
                 PROVE  users'[f] = Cardinality(Users(f)') /\ users'[f] > 0
      BY DEF CountExact
    <2>1. keys[l] = f
      BY <1>1 DEF Release, IInv, TypeOK
    <2>2. CASE f = e
      <3>1. l = key[p]
        BY <1>1, <2>1, <2>2 DEF IInv, OneKey
      <3>2. users[e] # 1
        BY <3>1, <1>1 DEF Release, IInv, TypeOK
      <3>3. users'[e] = users[e] - 1
        BY <1>1 DEF Release, IInv, TypeOK
      <3> QED
        BY <1>2, <1>3, <2>2, <3>2, <3>3
    <2>3. CASE f # e
      <3>1. users'[f] = users[f] /\ Users(f)' = Users(f)
        BY <2>3, ReleaseUsers DEF Release, IInv, TypeOK
      <3> QED
        BY <2>1, <3>1 DEF IInv, CountExact
    <2> QED
      BY <2>2, <2>3
  <1>9. GateHeld'
    BY <1>1 DEF IInv, TypeOK, SharedEntry, GateHeld, Release, Using
  <1> QED
    BY <1>5, <1>6, <1>7, <1>8, <1>9 DEF IInv

\* The strengthening of MutualExclusion that Locks maintains: TypeOK, one entry
\* per key shared by all of its users, an exact user count, and a gate that is
\* full exactly while one process holds it.
THEOREM LocksInvariant == Spec => []IInv
  <1>1. Init => IInv
    BY InitIInv
  <1>2. IInv /\ [Next]_vars => IInv'
    <2> SUFFICES ASSUME IInv, [Next]_vars PROVE IInv'
      OBVIOUS
    <2>1. CASE UNCHANGED vars
      BY <2>1 DEF vars, IInv, TypeOK, SharedEntry, OneKey, CountExact, GateHeld, Users, Using
    <2>2. ASSUME NEW p \in Procs, Step(p) PROVE IInv'
      BY <2>2, GateIInv, ReleaseIInv DEF Step
    <2>3. ASSUME NEW p \in Procs, NEW k \in Keys, NEW e \in Entries, Enter(p, k, e) PROVE IInv'
      BY <2>3, EnterIInv
    <2> QED
      BY <2>1, <2>2, <2>3 DEF Next
  <1> QED
    BY <1>1, <1>2, PTL DEF Spec

\* Two processes never hold the same key, whatever was created, deleted or
\* abandoned in between (Lock and its unlock function).
THEOREM LocksMutualExclusion == Spec => []MutualExclusion
  <1>1. IInv => MutualExclusion
    BY DEF IInv, TypeOK, SharedEntry, GateHeld, MutualExclusion, Using
  <1> QED
    BY <1>1, LocksInvariant, PTL

\* No entry stays in the map once its last user has released it.
THEOREM LocksNoLeak == Spec => []NoLeak
  <1>1. IInv => NoLeak
    <2> SUFFICES ASSUME IInv, NEW k \in Keys, keys[k] # None
                 PROVE  \E p \in Procs : Using(p) /\ key[p] = k
      BY DEF NoLeak
    <2>1. Users(keys[k]) # {}
      <3>1. Cardinality(Users(keys[k])) > 0
        BY DEF IInv, CountExact, TypeOK
      <3>2. Cardinality({}) = 0
        BY FS_EmptySet
      <3> QED
        BY <3>1, <3>2
    <2>2. PICK p \in Procs : Using(p) /\ entry[p] = keys[k]
      BY <2>1 DEF Users
    <2> QED
      BY <2>2 DEF IInv, SharedEntry, OneKey
  <1> QED
    BY <1>1, LocksInvariant, PTL

\* Locks implements the keyed mutex: acquiring the gate takes the key, draining
\* it gives the key back, every other step is invisible.
THEOREM LocksRefines == Spec => Refines
  <1> DEFINE h == [p \in Procs |-> IF pc[p] = "held" THEN key[p] ELSE None]
  <1>1. Init => Abstract!MutexInit
    BY DEF Init, Abstract!MutexInit
  <1>2. IInv /\ [Next]_vars => [Abstract!MutexNext]_h
    <2> SUFFICES ASSUME IInv, [Next]_vars PROVE [Abstract!MutexNext]_h
      OBVIOUS
    <2>1. CASE UNCHANGED vars
      BY <2>1 DEF vars
    <2>2. ASSUME NEW p \in Procs, Acquire(p)
          PROVE  \E k \in Keys : Abstract!Take(p, k)
      <3>1. key[p] \in Keys /\ entry[p] \in Entries /\ keys[key[p]] = entry[p] /\ key[p] # None
        BY <2>2 DEF IInv, SharedEntry, Acquire, Using
      <3>2. ASSUME NEW q \in Procs, pc[q] = "held" PROVE key[q] # key[p]
        <4>1. gate[entry[q]] /\ keys[key[q]] = entry[q]
          BY <3>2 DEF IInv, GateHeld, SharedEntry, Using
        <4> QED
          BY <3>1, <4>1, <2>2 DEF Acquire
      <3>3. \A q \in Procs : h[q] # key[p]
        BY <3>1, <3>2
      <3>4. h[p] = None /\ h' = [h EXCEPT ![p] = key[p]]
        BY <2>2 DEF Acquire, IInv, TypeOK
      <3> QED
        BY <3>1, <3>3, <3>4 DEF Abstract!Take
    <2>3. ASSUME NEW p \in Procs, Unlock(p) PROVE Abstract!Give(p)
      BY <2>3 DEF IInv, TypeOK, SharedEntry, Unlock, Using, Abstract!Give
    <2>4. ASSUME NEW p \in Procs, GiveUp(p) \/ Release(p) PROVE h' = h
      BY <2>4 DEF IInv, TypeOK, GiveUp, Release
    <2>5. ASSUME NEW p \in Procs, NEW k \in Keys, NEW e \in Entries, Enter(p, k, e) PROVE h' = h
      BY <2>5 DEF IInv, TypeOK, Enter
    <2> QED
      BY <2>1, <2>2, <2>3, <2>4, <2>5 DEF Next, Step, Abstract!MutexNext
  <1> QED
    BY <1>1, <1>2, LocksInvariant, PTL DEF Spec, Refines, Abstract!MutexSpec

-----------------------------------------------------------------------------
(* The dispatch loop.                                                      *)

\* Elements of a finite set of numbers have as many smaller ones as their rank, and every
\* rank below the cardinality is taken: what Sorted chooses exists.
LEMMA EveryRankIsTaken ==
    ASSUME NEW S \in SUBSET Nat, IsFiniteSet(S), NEW i \in 1 .. Cardinality(S)
    PROVE  \E x \in S : Cardinality({y \in S : y < x}) = i - 1
  <1> DEFINE n == Cardinality(S)
             below == [x \in S |-> {y \in S : y < x}]
             rank == [x \in S |-> Cardinality(below[x]) + 1]
  <1>1. n \in Nat
    BY FS_CardinalityType
  <1>2. ASSUME NEW x \in S
        PROVE  IsFiniteSet(below[x]) /\ Cardinality(below[x]) \in Nat /\ Cardinality(below[x]) < n
    <2>1. below[x] \in SUBSET S /\ x \notin below[x]
      OBVIOUS
    <2>2. below[x] # S
      BY <2>1
    <2> HIDE DEF below
    <2>3. IsFiniteSet(below[x]) /\ Cardinality(below[x]) <= n /\ Cardinality(below[x]) # n
      BY <2>1, <2>2, FS_Subset
    <2>4. Cardinality(below[x]) \in Nat
      BY <2>3, FS_CardinalityType
    <2> QED
      BY <1>1, <2>3, <2>4
  <1>3. ASSUME NEW x \in S, NEW z \in S, x < z
        PROVE  Cardinality(below[x]) < Cardinality(below[z])
    <2>1. ASSUME NEW y \in S, y < x PROVE y < z
      <3>1. x \in Nat /\ y \in Nat /\ z \in Nat
        OBVIOUS
      <3> QED
        BY <1>3, <2>1, <3>1
    <2>2. below[x] \in SUBSET below[z]
      BY <2>1
    <2>3. x \in below[z] /\ x \notin below[x]
      BY <1>3
    <2> HIDE DEF below
    <2>4. IsFiniteSet(below[z])
      BY <1>2
    <2>5. below[x] # below[z]
      BY <2>3
    <2>6. Cardinality(below[x]) <= Cardinality(below[z]) /\ Cardinality(below[x]) # Cardinality(below[z])
      BY <2>2, <2>4, <2>5, FS_Subset
    <2>7. Cardinality(below[x]) \in Nat /\ Cardinality(below[z]) \in Nat
      BY <1>2
    <2> QED
      BY <2>6, <2>7
  <1>4. rank \in [S -> 1 .. n]
    <2> HIDE DEF below
    <2> QED
      BY <1>1, <1>2
  <1>5. \A x, z \in S : rank[x] = rank[z] => x = z
    <2> HIDE DEF below
    <2> SUFFICES ASSUME NEW x \in S, NEW z \in S, x # z PROVE rank[x] # rank[z]
      OBVIOUS
    <2>1. x < z \/ z < x
      <3>1. x \in Nat /\ z \in Nat
        OBVIOUS
      <3> QED
        BY <3>1
    <2>2. Cardinality(below[x]) # Cardinality(below[z])
      BY <1>2, <1>3, <2>1
    <2> QED
      BY <1>2, <2>2
  <1>6. rank \in Injection(S, 1 .. n)
    BY <1>4, <1>5 DEF Injection, IsInjective
  <1>7. IsFiniteSet(1 .. n) /\ Cardinality(1 .. n) = n
    BY <1>1, FS_Interval
  <1>8. rank \in Surjection(S, 1 .. n)
    <2> HIDE DEF rank
    <2> QED
      BY <1>6, <1>7, FS_Injection
  <1>9. PICK x \in S : rank[x] = i
    BY <1>8 DEF Surjection
  <1>10. Cardinality(below[x]) = i - 1
    <2> HIDE DEF below
    <2> QED
      BY <1>2, <1>9
  <1> QED
    BY <1>10

\* The instance counts as FiniteSets does.
LEMMA SameCounting ==
    /\ \A S : Sch!IsFiniteSet(S) <=> IsFiniteSet(S)
    /\ \A S : Sch!Cardinality(S) = Cardinality(S)
  <1>1. \A S : Sch!IsFiniteSet(S) <=> IsFiniteSet(S)
    BY DEF Sch!IsFiniteSet, IsFiniteSet
  <1>2. \A S : Sch!Cardinality(S) = Cardinality(S)
    BY DEF Sch!Cardinality, Cardinality
  <1> QED
    BY <1>1, <1>2

\* The modules of a round, in order, are modules.
LEMMA SortedModules ==
    ASSUME Sch!SchedulerConstants, NEW S \in SUBSET Modules
    PROVE  Sch!Sorted(S) \in Seq(Modules)
  <1>1. IsFiniteSet(S) /\ S \in SUBSET Nat
    BY FS_Subset, SameCounting DEF Sch!SchedulerConstants
  <1>2. Cardinality(S) \in Nat
    BY <1>1, FS_CardinalityType
  <1>3. ASSUME NEW i \in 1 .. Sch!Cardinality(S)
        PROVE  (CHOOSE x \in S : Sch!Cardinality({y \in S : y < x}) = i - 1) \in Modules
    <2>1. \E x \in S : Cardinality({y \in S : y < x}) = i - 1
      BY <1>1, <1>3, SameCounting, EveryRankIsTaken
    <2>2. \E x \in S : Sch!Cardinality({y \in S : y < x}) = i - 1
      BY <2>1, SameCounting
    <2> QED
      BY <2>2
  <1>4. Sch!Cardinality(S) \in Nat
    BY <1>2, SameCounting
  <1> DEFINE pick(i) == CHOOSE x \in S : Sch!Cardinality({y \in S : y < x}) = i - 1
  <1>5. \A i \in 1 .. Sch!Cardinality(S) : pick(i) \in Modules
    BY <1>3
  <1>6. Sch!Sorted(S) = [i \in 1 .. Sch!Cardinality(S) |-> pick(i)]
    BY DEF Sch!Sorted
  <1> HIDE DEF pick
  <1> QED
    BY <1>4, <1>5, <1>6

\* So is the rotation that begins after the last module served.
LEMMA FairModules ==
    ASSUME Sch!SchedulerConstants, NEW S \in SUBSET Modules, NEW after
    PROVE  Sch!fairMessageModules(S, after) \in Seq(Modules)
  <1>1. {x \in S : x > after} \in SUBSET Modules /\ {x \in S : x <= after} \in SUBSET Modules
    OBVIOUS
  <1> QED
    BY <1>1, SortedModules DEF Sch!fairMessageModules

\* The tables of the loop, the freed slots that are announced, and the end that waits.
SchInv == Sch!TypeOK /\ Sch!NoLostWakeup /\ Sch!CloseWaits

\* The loop starts with nothing asked, waiting or at work.
LEMMA SchedulerInit ==
    ASSUME Sch!SchedulerConstants, Sch!Init
    PROVE  SchInv
  <1>1. Sch!Cardinality({}) = 0 /\ Limit \in Nat
    BY FS_EmptySet, SameCounting DEF Sch!SchedulerConstants
  <1>2. Sch!Cardinality(active) <= Limit
    BY <1>1 DEF Sch!Init
  <1>3. pending \in [Modules -> {"none", "bulk", "urgent"}]
    BY DEF Sch!Init
  <1>4. queue \in Seq(Modules)
    BY DEF Sch!Init
  <1>5. leaving \in 0 .. MaxLeaving
    BY DEF Sch!Init, Sch!SchedulerConstants
  <1>6. Sch!NoLostWakeup /\ Sch!CloseWaits
    BY DEF Sch!Init, Sch!NoLostWakeup, Sch!CloseWaits
  <1> QED
    BY <1>2, <1>3, <1>4, <1>5, <1>6 DEF Sch!Init, SchInv, Sch!TypeOK

\* A round queues modules only.
LEMMA RoundInv ==
    ASSUME Sch!SchedulerConstants, SchInv, Sch!Timer \/ Sch!Woken
    PROVE  SchInv'
  <1>1. Sch!Having("urgent") \in SUBSET Modules /\ Sch!Having("bulk") \in SUBSET Modules
    BY DEF Sch!Having
  <1>2. queue' \in Seq(Modules)
    <2>1. Sch!fairMessageModules(Sch!Having("urgent"), replyCursor) \in Seq(Modules)
          /\ Sch!fairMessageModules(Sch!Having("bulk"), sendCursor) \in Seq(Modules)
      BY <1>1, FairModules
    <2>2. \A s, t \in Seq(Modules) : s \o t \in Seq(Modules)
      OBVIOUS
    <2>3. queue \in Seq(Modules)
      BY DEF SchInv, Sch!TypeOK
    <2> QED
      BY <2>1, <2>2, <2>3 DEF Sch!Timer, Sch!Woken, Sch!Round
  <1> QED
    BY <1>1, <1>2 DEF SchInv, Sch!TypeOK, Sch!NoLostWakeup, Sch!CloseWaits, Sch!Timer, Sch!Woken,
       Sch!Round, Sch!cursors

\* A module considered takes a slot of the group or none.
LEMMA ConsiderInv ==
    ASSUME Sch!SchedulerConstants, SchInv, NEW m \in Modules, Sch!Consider(m)
    PROVE  SchInv'
  <1>1. queue' \in Seq(Modules)
    BY DEF SchInv, Sch!TypeOK, Sch!Consider
  <1>2. active' \subseteq Modules /\ Cardinality(active') <= Limit
    <2>1. IsFiniteSet(active)
      BY FS_Subset, SameCounting DEF SchInv, Sch!TypeOK, Sch!SchedulerConstants
    <2>2. Cardinality(active) \in Nat /\ Limit \in Nat /\ Cardinality(active) <= Limit
      BY <2>1, FS_CardinalityType, SameCounting DEF SchInv, Sch!TypeOK, Sch!SchedulerConstants
    <2>3. CASE active' = active \cup {m} /\ Sch!MayStart(m)
      <3>1. m \notin active /\ Cardinality(active) < Limit
        BY <2>3, SameCounting DEF Sch!MayStart
      <3>2. Cardinality(active \cup {m}) = Cardinality(active) + 1
        BY <2>1, <3>1, FS_AddElement
      <3> QED
        BY <2>2, <2>3, <3>1, <3>2 DEF SchInv, Sch!TypeOK
    <2>4. CASE active' = active
      BY <2>2, <2>4 DEF SchInv, Sch!TypeOK
    <2> QED
      BY <2>3, <2>4 DEF Sch!Consider
  <1>3. Sch!NoLostWakeup' /\ Sch!CloseWaits'
    BY DEF SchInv, Sch!NoLostWakeup, Sch!CloseWaits, Sch!Consider
  <1>4. /\ resting' \subseteq Modules
        /\ sendCursor' \in Modules \cup {0} /\ replyCursor' \in Modules \cup {0}
    BY DEF SchInv, Sch!TypeOK, Sch!Consider, Sch!cursors
  <1> QED
    BY <1>1, <1>2, <1>3, <1>4, SameCounting DEF SchInv, Sch!TypeOK, Sch!Consider

\* A job that ends will signal the loop.
LEMMA JobEndsInv ==
    ASSUME Sch!SchedulerConstants, SchInv, NEW m \in Modules, Sch!JobEnds(m)
    PROVE  SchInv'
  <1>1. Cardinality(active') <= Limit
    <2>1. IsFiniteSet(active)
      BY FS_Subset, SameCounting DEF SchInv, Sch!TypeOK, Sch!SchedulerConstants
    <2>2. Cardinality(active) \in Nat /\ Limit \in Nat /\ Cardinality(active) <= Limit
      BY <2>1, FS_CardinalityType, SameCounting DEF SchInv, Sch!TypeOK, Sch!SchedulerConstants
    <2>3. m \in active /\ active' = active \ {m}
      BY DEF Sch!JobEnds
    <2>4. Cardinality(active \ {m}) = Cardinality(active) - 1
      BY <2>1, <2>3, FS_RemoveElement
    <2> QED
      BY <2>2, <2>3, <2>4
  <1>2. pending' \in [Modules -> {"none", "bulk", "urgent"}]
    BY DEF SchInv, Sch!TypeOK, Sch!JobEnds
  <1>3. leaving' \in 0 .. MaxLeaving /\ leaving' > 0
    BY DEF SchInv, Sch!TypeOK, Sch!JobEnds, Sch!SchedulerConstants
  <1>4. Sch!CloseWaits'
    BY DEF SchInv, Sch!CloseWaits, Sch!JobEnds
  <1> QED
    BY <1>1, <1>2, <1>3, <1>4, SameCounting DEF SchInv, Sch!TypeOK, Sch!NoLostWakeup, Sch!JobEnds, Sch!cursors

\* Every other step.
LEMMA OtherStepsInv ==
    ASSUME Sch!SchedulerConstants, SchInv,
           \/ \E m \in Modules : Sch!Rested(m) \/ \E kind \in Kinds : Sch!Arrive(m, kind)
           \/ Sch!Stop \/ Sch!RoundEnds \/ Sch!Leave \/ Sch!Close \/ Sch!CloseReturns
    PROVE  SchInv'
  <1> USE DEF SchInv, Sch!TypeOK, Sch!NoLostWakeup, Sch!CloseWaits, Sch!cursors, Sch!group
  <1>1. ASSUME NEW m \in Modules, Sch!Rested(m) PROVE SchInv'
    BY <1>1 DEF Sch!Rested
  <1>2. ASSUME NEW m \in Modules, NEW kind \in Kinds, Sch!Arrive(m, kind) PROVE SchInv'
    BY <1>2 DEF Sch!Arrive, Sch!SchedulerConstants
  <1>3. CASE Sch!Stop
    BY <1>3 DEF Sch!Stop
  <1>4. CASE Sch!RoundEnds
    BY <1>4 DEF Sch!RoundEnds
  <1>5. CASE Sch!Leave
    BY <1>5 DEF Sch!Leave, Sch!SchedulerConstants
  <1>6. CASE Sch!Close
    BY <1>6 DEF Sch!Close
  <1>7. CASE Sch!CloseReturns
    BY <1>7 DEF Sch!CloseReturns
  <1> QED
    BY <1>1, <1>2, <1>3, <1>4, <1>5, <1>6, <1>7

\* The loop of messages keeps its tables, misses no freed slot and is not reported closed
\* while a goroutine of its group is left (messages_scheduler.go, group.go).
THEOREM SchedulerInvariant == Behaviour => []SchInv
  <1>1. InitAll => SchInv
    BY SchedulerInit, SchedulerBounds DEF InitAll
  <1>2. SchInv /\ [NextAll]_all => SchInv'
    <2> SUFFICES ASSUME SchInv, [NextAll]_all PROVE SchInv'
      OBVIOUS
    <2>1. CASE UNCHANGED varsSch
      BY <2>1 DEF varsSch, SchInv, Sch!TypeOK, Sch!NoLostWakeup, Sch!CloseWaits
    <2>2. CASE Sch!Next
      BY <2>2, SchedulerBounds, RoundInv, ConsiderInv, JobEndsInv, OtherStepsInv DEF Sch!Next
    <2> QED
      BY <2>1, <2>2 DEF NextAll, all
  <1> QED
    BY <1>1, <1>2, PTL DEF Behaviour

\* No freed slot of the group goes unnoticed, and no table of the loop is corrupted.
THEOREM SchedulerSound == Behaviour => []DispatchSound
  <1>1. SchInv => DispatchSound
    BY DEF SchInv, DispatchSound
  <1> QED
    BY <1>1, SchedulerInvariant, PTL

\* Close comes back only after every goroutine of the group has left (group.go:63).
THEOREM CloseIsLast == Behaviour => []Sch!CloseWaits
  <1>1. SchInv => Sch!CloseWaits
    BY DEF SchInv
  <1> QED
    BY <1>1, SchedulerInvariant, PTL

=============================================================================
