---------------------------- MODULE ModulesProofs ----------------------------
(***************************************************************************)
(* Proofs about what the server does for its modules and accounts, as      *)
(* MCModules puts it together, for any numbers of them and of faults:      *)
(*                                                                         *)
(*   UplinkInvariant   the inductive invariant of UplinkLease              *)
(*   UplinkOwned       rules and routes belong to one worker, fail closed  *)
(*                     and are on record                                   *)
(*   GatewayInvariant  the inductive invariant of Gateway                  *)
(*   GatewayServed     the views of an account agree, a changed credential *)
(*                     is fenced, nobody is locked out                     *)
(*   LeaseInvariant    the inductive invariant of VocatSession             *)
(*   LeaseIsKept       the radio comes back only over sessions whose close *)
(*                     was done or tried, and what the lease says of       *)
(*                     itself is so                                        *)
(*   SupervisorInvariant  the inductive invariant of WifiSupervisor        *)
(*   SupervisorSound   registrations are over the chosen network, one      *)
(*                     worker holds the module, an outage costs one        *)
(*                     restore                                             *)
(*   UnconfirmedIsHeld an unconfirmed cleanup is not followed by an        *)
(*                     attempt unless the module's network changes         *)
(*                                                                         *)
(* Each invariant describes one worker, account, phone or attempt at every *)
(* place of its program; a step changes one of them, and a lemma per step  *)
(* shows that the others do not notice.                                    *)
(***************************************************************************)
EXTENDS MCModules, Sequences, FiniteSets, TLAPS, FiniteSetTheorems, SequenceTheorems

-----------------------------------------------------------------------------
(* Uplink leases.                                                          *)

UpPcs == {"idle", "locking", "drawing", "recording", "writing", "routing", "signing", "open",
          "rules-off", "routes-off", "record-off"}
UpLocked == {"drawing", "recording", "writing", "routing"}
UpHeld == {"writing", "routing", "signing", "open", "rules-off", "routes-off", "record-off"}

\* The record a worker has written for its table.
Mine(v) == [by |-> v, life |-> life[v]]

UpTypes ==
    /\ upPc \in [Workers -> UpPcs]
    /\ life \in [Workers -> Nat]
    /\ table \in [Workers -> Table \cup {"none"}]
    /\ DOMAIN todo = Workers
    /\ rules \in [Workers -> SUBSET Up!Rules]
    /\ upLock \in Workers \cup {"none"}
    /\ record \in [Table -> Up!File]
    /\ kernel \in [Table -> SUBSET Up!ToSet(Up!Plan)]
    /\ unsure \subseteq Table /\ disturbed \subseteq Table

\* What holds of a worker v and its table: who draws and fills a table has the lock; a table is
\* recorded as long as it is held; what Close has done is done, unless a command has failed.
UpWorker(v) ==
    /\ upPc[v] \in UpHeld \cup {"recording"} => table[v] \in Table
    /\ upPc[v] \in UpLocked => upLock = v
    /\ upPc[v] = "recording" => kernel[table[v]] = {}
    /\ upPc[v] = "writing" => record[table[v]] = Up!Empty /\ kernel[table[v]] = {}
    /\ upPc[v] \in UpHeld =>
           \/ record[table[v]] = Mine(v) /\ upPc[v] # "writing"
           \/ /\ record[table[v]] = Up!Empty /\ kernel[table[v]] = {}
              /\ upPc[v] \in {"writing", "rules-off", "routes-off", "record-off"}
    /\ upPc[v] \in {"routing", "signing", "open", "rules-off"} =>
           kernel[table[v]] \cap Up!Rules \subseteq rules[v] \/ table[v] \in unsure
    /\ upPc[v] = "routes-off" => kernel[table[v]] \cap Up!Rules = {} \/ table[v] \in unsure
    /\ upPc[v] = "record-off" => kernel[table[v]] = {} \/ table[v] \in unsure
    /\ upPc[v] = "routing" =>
           \E k \in 1 .. 4 : /\ todo[v] = SubSeq(Up!Plan, k, 3)
                             /\ \/ table[v] \in disturbed
                                \/ \A i \in 1 .. k - 1 : Up!Plan[i] \in kernel[table[v]]
    /\ upPc[v] \in {"signing", "open"} => Up!Complete(table[v]) \/ table[v] \in disturbed
    /\ upPc[v] \in {"routing", "signing", "open"} =>
           (<<"rule", "v4">> \in kernel[table[v]] =>
                <<"unreachable", "v4">> \in kernel[table[v]] \/ table[v] \in disturbed)

UpTables == \A u, v \in Workers : upPc[u] \in UpHeld /\ upPc[v] \in UpHeld /\ u # v => table[u] # table[v]

UpInv == UpTypes /\ (\A v \in Workers : UpWorker(v)) /\ UpTables /\ Up!Accounted

\* The commands of Open, in their order.
LEMMA UpPlan ==
    /\ Up!Plan \in Seq(Up!ToSet(Up!Plan)) /\ Len(Up!Plan) = 3
    /\ Up!Plan[1] = <<"unreachable", "v4">> /\ Up!Plan[2] = <<"routes", "v4">> /\ Up!Plan[3] = <<"rule", "v4">>
    /\ Up!Rules = {<<"rule", "v4">>}
    /\ Up!ToSet(Up!Plan) = {Up!Plan[1], Up!Plan[2], Up!Plan[3]}
  <1>1. Len(<<"v4">>) = 1 /\ <<"v4">>[1] = "v4"
    OBVIOUS
  <1>2. Up!Plan = [i \in 1 .. 3 |-> <<Up!Entry[1 + ((i - 1) % 3)], <<"v4">>[1 + ((i - 1) \div 3)]>>]
    BY <1>1 DEF Up!Plan
  <1>3. /\ 1 + ((1 - 1) % 3) = 1 /\ 1 + ((2 - 1) % 3) = 2 /\ 1 + ((3 - 1) % 3) = 3
        /\ 1 + ((1 - 1) \div 3) = 1 /\ 1 + ((2 - 1) \div 3) = 1 /\ 1 + ((3 - 1) \div 3) = 1
    OBVIOUS
  <1>4. Up!Plan[1] = <<"unreachable", "v4">> /\ Up!Plan[2] = <<"routes", "v4">> /\ Up!Plan[3] = <<"rule", "v4">>
    BY <1>2, <1>3 DEF Up!Entry
  <1>5. DOMAIN Up!Plan = 1 .. 3
    BY <1>2
  <1>6. Up!ToSet(Up!Plan) = {Up!Plan[1], Up!Plan[2], Up!Plan[3]}
    BY <1>5 DEF Up!ToSet
  <1>7. Up!Plan \in Seq(Up!ToSet(Up!Plan)) /\ Len(Up!Plan) = 3
    BY <1>2, <1>5, <1>6
  <1>8. Up!Rules = {<<"rule", "v4">>}
    BY <1>1 DEF Up!Rules, Up!ToSet
  <1> QED
    BY <1>4, <1>6, <1>7, <1>8

\* A worker that another one's step leaves alone.
LEMMA UpOther ==
    ASSUME NEW v \in Workers, UpTypes, UpWorker(v),
           upPc'[v] = upPc[v], table'[v] = table[v], life'[v] = life[v], todo'[v] = todo[v], rules'[v] = rules[v],
           upPc[v] \in UpHeld => kernel'[table[v]] = kernel[table[v]] /\ record'[table[v]] = record[table[v]],
           upPc[v] = "recording" => kernel'[table[v]] = {},
           upPc[v] \in UpLocked => upLock' = upLock,
           unsure \subseteq unsure', disturbed \subseteq disturbed'
    PROVE  UpWorker(v)'
  BY DEF UpWorker, Mine, UpHeld, UpLocked, Up!Complete

\* What a program that has just started finds.
LEMMA UpInit ==
    ASSUME Up!LeaseConstants, Up!Init
    PROVE  UpInv
  BY DEF Up!LeaseConstants, Up!Init, UpInv, UpTypes, UpWorker, UpTables, Up!Accounted, UpPcs, UpHeld, UpLocked,
         Up!Nobody, Up!NoFile, Up!File

\* A worker that ends holds nothing.
LEMMA UpEnds ==
    ASSUME UpInv, NEW v \in Workers, Up!Ends(v)
    PROVE  /\ upPc' \in [Workers -> UpPcs] /\ upPc'[v] = "idle"
           /\ table' \in [Workers -> Table \cup {"none"}] /\ DOMAIN todo' = Workers
           /\ rules' \in [Workers -> SUBSET Up!Rules] /\ upLock' \in Workers \cup {"none"}
           /\ upLock # v => upLock' = upLock
           /\ \A u \in Workers : u # v => /\ upPc'[u] = upPc[u] /\ table'[u] = table[u]
                                          /\ todo'[u] = todo[u] /\ rules'[u] = rules[u]
           /\ UpWorker(v)'
  <1>1. /\ upPc' \in [Workers -> UpPcs] /\ upPc'[v] = "idle"
        /\ table' \in [Workers -> Table \cup {"none"}] /\ DOMAIN todo' = Workers
        /\ rules' \in [Workers -> SUBSET Up!Rules] /\ upLock' \in Workers \cup {"none"}
        /\ upLock # v => upLock' = upLock
        /\ \A u \in Workers : u # v => /\ upPc'[u] = upPc[u] /\ table'[u] = table[u]
                                       /\ todo'[u] = todo[u] /\ rules'[u] = rules[u]
    BY DEF UpInv, UpTypes, Up!Ends, Up!Goto, Up!Nobody, UpPcs
  <1>2. UpWorker(v)'
    BY <1>1 DEF UpWorker, UpHeld, UpLocked
  <1> QED
    BY <1>1, <1>2

\* What holds of the lock and of two workers.
LEMMA UpFacts ==
    ASSUME UpInv, Up!LeaseConstants, NEW v \in Workers
    PROVE  /\ UpTypes /\ UpWorker(v) /\ UpTables
           /\ upPc[v] \in UpHeld \cup {"recording"} => table[v] \in Table
           /\ upPc[v] \in UpLocked => \A u \in Workers : u # v => upPc[u] \notin UpLocked
           /\ \A u \in Workers : upPc[u] \in UpHeld /\ upPc[v] \in UpHeld /\ u # v => table[u] # table[v]
           /\ upPc[v] \in UpHeld => record[table[v]] \in {Mine(v), Up!Empty}
           /\ \A t \in Table : Up!NoFile # Up!Empty /\ Mine(v) # Up!Empty /\ Mine(v) # Up!NoFile
           /\ Mine(v) \in Up!File /\ Up!Empty \in Up!File /\ Up!NoFile \in Up!File
  BY DEF UpInv, UpTypes, UpWorker, UpTables, UpHeld, UpLocked, Up!LeaseConstants, Up!NoFile, Up!Empty,
         Up!Nobody, Up!File, Mine

\* Finding the link, drawing a table.
LEMMA UpFind ==
    ASSUME UpInv, Up!LeaseConstants, NEW v \in Workers, Up!Find(v)
    PROVE  UpInv'
  <1>1. /\ upPc' = [upPc EXCEPT ![v] = "locking"] /\ upPc[v] = "idle"
        /\ UNCHANGED <<life, upLock, table, todo, rules, record, kernel, unsure, disturbed>>
    BY DEF Up!Find, Up!Goto, Up!hostVars
  <1>2. UpTypes' /\ upPc'[v] = "locking" /\ \A u \in Workers : u # v => upPc'[u] = upPc[u]
    BY <1>1 DEF UpInv, UpTypes, UpPcs
  <1>3. UpWorker(v)'
    BY <1>2 DEF UpWorker, UpHeld, UpLocked
  <1>4. ASSUME NEW u \in Workers, u # v
        PROVE  UpWorker(u)'
    BY <1>1, <1>2, <1>4, UpOther DEF UpInv, UpWorker
  <1>5. UpTables' /\ Up!Accounted'
    BY <1>1, <1>2 DEF UpInv, UpTables, Up!Accounted, UpHeld
  <1> QED
    BY <1>2, <1>3, <1>4, <1>5 DEF UpInv

\* A worker that has the lock draws a table.
LEMMA UpDraw ==
    ASSUME UpInv, Up!LeaseConstants, NEW v \in Workers, Up!Draw(v)
    PROVE  UpInv'
  <1>1. upPc[v] = "drawing" /\ UNCHANGED <<life, record, kernel, unsure, disturbed>>
    BY DEF Up!Draw, Up!hostVars
  <1>2. CASE Up!Ends(v)
    <2>1. ASSUME NEW u \in Workers, u # v
          PROVE  UpWorker(u)'
      BY <1>1, <1>2, <2>1, UpEnds, UpOther, UpFacts DEF UpInv, UpWorker
    <2>2. UpTables' /\ Up!Accounted'
      BY <1>1, <1>2, UpEnds DEF UpInv, UpTables, Up!Accounted, UpHeld
    <2>3. UpTypes'
      BY <1>1, <1>2, UpEnds DEF UpInv, UpTypes
    <2> QED
      BY <1>2, <2>1, <2>2, <2>3, UpEnds DEF UpInv
  <1>3. CASE ~ Up!Ends(v)
    <2> PICK t \in Table : kernel[t] = {} /\ table' = [table EXCEPT ![v] = t]
      BY <1>3 DEF Up!Draw
    <2>1. upPc' = [upPc EXCEPT ![v] = "recording"] /\ UNCHANGED <<upLock, todo, rules>>
      BY <1>3 DEF Up!Draw, Up!Goto
    <2>2. /\ UpTypes' /\ upPc'[v] = "recording" /\ table'[v] = t
          /\ \A u \in Workers : u # v => upPc'[u] = upPc[u] /\ table'[u] = table[u]
      BY <1>1, <2>1 DEF UpInv, UpTypes, UpPcs
    <2>3. UpWorker(v)'
      BY <1>1, <2>1, <2>2 DEF UpWorker, UpHeld, UpLocked, UpInv
    <2>4. ASSUME NEW u \in Workers, u # v
          PROVE  UpWorker(u)'
      BY <1>1, <2>1, <2>2, <2>4, UpOther, UpFacts DEF UpInv, UpWorker
    <2>5. UpTables' /\ Up!Accounted'
      BY <1>1, <2>2 DEF UpInv, UpTables, Up!Accounted, UpHeld
    <2> QED
      BY <2>2, <2>3, <2>4, <2>5 DEF UpInv
  <1> QED
    BY <1>2, <1>3

\* The sweep removes no record of a lease that is held.
LEMMA UpSweep ==
    ASSUME UpInv, Up!LeaseConstants, NEW v \in Workers, Up!Sweep(v)
    PROVE  UpInv'
  <1> DEFINE dead == {t \in Table : Up!Abandoned(t)}
  <1> PICK failed \in SUBSET {t \in dead : Up!MayFail(t)} :
           /\ record' = [t \in Table |-> IF t \in dead THEN Up!NoFile ELSE record[t]]
           /\ kernel' = [t \in Table |-> IF t \in dead \ failed THEN {} ELSE kernel[t]]
           /\ unsure' = unsure \cup failed
    BY DEF Up!Sweep
  <1>1. /\ upPc[v] = "locking" /\ upLock = "none" /\ upLock' = v /\ upPc' = [upPc EXCEPT ![v] = "drawing"]
        /\ UNCHANGED <<life, table, todo, rules, disturbed>>
    BY DEF Up!Sweep, Up!Goto, Up!hostVars, Up!Nobody
  <1>2. dead \subseteq Table /\ failed \subseteq dead
    OBVIOUS
  <1>3. ASSUME NEW u \in Workers, upPc[u] \in UpHeld
        PROVE  table[u] \in Table /\ table[u] \notin dead
    <2>1. table[u] \in Table /\ record[table[u]] \in {Mine(u), Up!Empty} /\ Up!Empty.by \notin Workers
      BY <1>3, UpFacts DEF Up!Empty, Up!LeaseConstants
    <2> QED
      BY <2>1 DEF Up!Abandoned, Mine
  <1> HIDE DEF dead
  <1>4. /\ upPc' \in [Workers -> UpPcs] /\ upPc'[v] = "drawing"
        /\ \A u \in Workers : u # v => upPc'[u] = upPc[u]
    BY <1>1 DEF UpInv, UpTypes, UpPcs
  <1>5. UpTypes'
    <2>1. record' \in [Table -> Up!File] /\ kernel' \in [Table -> SUBSET Up!ToSet(Up!Plan)] /\ unsure' \subseteq Table
      BY <1>2, UpFacts DEF UpInv, UpTypes
    <2> QED
      BY <1>1, <1>4, <2>1 DEF UpInv, UpTypes
  <1>6. UpWorker(v)'
    BY <1>1, <1>4 DEF UpWorker, UpHeld, UpLocked
  <1>7. ASSUME NEW u \in Workers, u # v
        PROVE  UpWorker(u)'
    <2>1. UpTypes /\ UpWorker(u) /\ upPc[u] \notin UpLocked
      BY <1>1 DEF UpInv, UpWorker, Up!LeaseConstants
    <2>2. upPc[u] # "recording"
      BY <2>1 DEF UpLocked
    <2>3. upPc[u] \in UpHeld => kernel'[table[u]] = kernel[table[u]] /\ record'[table[u]] = record[table[u]]
      BY <1>3
    <2> QED
      BY <1>1, <1>2, <1>4, <1>7, <2>1, <2>2, <2>3, UpOther
  <1>8. UpTables'
    BY <1>1, <1>4 DEF UpInv, UpTables, UpHeld
  <1>9. Up!Accounted'
    <2> SUFFICES ASSUME NEW t \in Table, kernel'[t] # {}
                 PROVE  record'[t].by \in Workers \/ t \in unsure'
      BY DEF Up!Accounted
    <2>1. t \in failed \/ (t \notin dead /\ kernel[t] # {} /\ record'[t] = record[t])
      OBVIOUS
    <2> QED
      BY <2>1 DEF UpInv, Up!Accounted
  <1> QED
    BY <1>5, <1>6, <1>7, <1>8, <1>9 DEF UpInv

\* A record is created where there is none, so no other worker holds the table.
LEMMA UpRecord ==
    ASSUME UpInv, Up!LeaseConstants, NEW v \in Workers, Up!Record(v)
    PROVE  UpInv'
  <1>1. upPc[v] = "recording" /\ UNCHANGED <<life, kernel, unsure, disturbed>>
    BY DEF Up!Record, Up!hostVars
  <1>2. CASE Up!Ends(v) /\ UNCHANGED record
    <2>1. ASSUME NEW u \in Workers, u # v
          PROVE  UpWorker(u)'
      BY <1>1, <1>2, <2>1, UpEnds, UpOther, UpFacts DEF UpInv, UpWorker
    <2>2. UpTables' /\ Up!Accounted'
      BY <1>1, <1>2, UpEnds DEF UpInv, UpTables, Up!Accounted, UpHeld
    <2>3. UpTypes'
      BY <1>1, <1>2, UpEnds DEF UpInv, UpTypes
    <2> QED
      BY <1>2, <2>1, <2>2, <2>3, UpEnds DEF UpInv
  <1>3. CASE ~ (Up!Ends(v) /\ UNCHANGED record)
    <2>1. /\ record[table[v]] = Up!NoFile /\ record' = [record EXCEPT ![table[v]] = Up!Empty]
          /\ upPc' = [upPc EXCEPT ![v] = "writing"] /\ UNCHANGED <<upLock, table, todo, rules>>
      BY <1>3 DEF Up!Record, Up!Goto
    <2>2. table[v] \in Table /\ Up!Empty # Up!NoFile
      BY <1>1, UpFacts
    <2>3. /\ UpTypes' /\ upPc'[v] = "writing" /\ \A u \in Workers : u # v => upPc'[u] = upPc[u]
      BY <1>1, <2>1, <2>2, UpFacts DEF UpInv, UpTypes, UpPcs
    <2>4. ASSUME NEW u \in Workers, u # v, upPc[u] \in UpHeld
          PROVE  table[u] # table[v]
      BY <2>1, <2>4, UpFacts
    <2>5. record'[table[v]] = Up!Empty /\ \A t \in Table : t # table[v] => record'[t] = record[t]
      BY <2>1, <2>2 DEF UpInv, UpTypes
    <2>6. UpWorker(v)'
      BY <1>1, <2>1, <2>2, <2>3, <2>5 DEF UpWorker, UpHeld, UpLocked, UpInv
    <2>7. ASSUME NEW u \in Workers, u # v
          PROVE  UpWorker(u)'
      <3>1. UpTypes /\ UpWorker(u) /\ (upPc[u] \in UpHeld => table[u] \in Table)
        BY UpFacts
      <3>2. upPc[u] = "recording" => kernel'[table[u]] = {}
        BY <1>1, <3>1 DEF UpWorker
      <3> QED
        BY <1>1, <2>1, <2>3, <2>4, <2>5, <2>7, <3>1, <3>2, UpOther
    <2>8. UpTables'
      BY <1>1, <2>1, <2>3, <2>4 DEF UpInv, UpTables
    <2>9. Up!Accounted'
      <3>1. kernel[table[v]] = {}
        BY <1>1 DEF UpInv, UpWorker
      <3> QED
        BY <1>1, <2>5, <3>1 DEF UpInv, Up!Accounted
    <2> QED
      BY <2>3, <2>6, <2>7, <2>8, <2>9 DEF UpInv
  <1> QED
    BY <1>2, <1>3

\* What a worker does to the table it holds does not concern another one.
LEMMA UpOwn ==
    ASSUME UpInv, Up!LeaseConstants, NEW v \in Workers, upPc[v] \in UpHeld,
           UNCHANGED <<life, table>>,
           \A u \in Workers : u # v => upPc'[u] = upPc[u] /\ todo'[u] = todo[u] /\ rules'[u] = rules[u],
           \A t \in Table : t # table[v] => kernel'[t] = kernel[t] /\ record'[t] = record[t],
           kernel'[table[v]] \subseteq kernel[table[v]] \/ upPc[v] \in UpLocked,
           upLock' = upLock \/ upPc[v] \in UpLocked \/ upLock = v,
           unsure \subseteq unsure', disturbed \subseteq disturbed'
    PROVE  /\ \A u \in Workers : u # v => UpWorker(u)'
           /\ (upPc'[v] \in UpHeld \cup {"idle"}) => UpTables'
  <1>1. ASSUME NEW u \in Workers, u # v
        PROVE  UpWorker(u)'
    <2>1. /\ UpTypes /\ UpWorker(u) /\ (upPc[u] \in UpHeld => table[u] # table[v] /\ table[u] \in Table)
          /\ upPc[u] = "recording" => table[u] \in Table /\ kernel[table[u]] = {}
          /\ table[v] \in Table
      BY <1>1, UpFacts DEF UpWorker
    <2>2. upPc[u] = "recording" => upPc[v] \notin UpLocked
      BY <1>1, UpFacts DEF UpLocked
    <2>3. upPc[u] = "recording" => kernel'[table[u]] = {}
      BY <2>1, <2>2
    <2>4. upPc[u] \in UpLocked => upLock' = upLock
      <3>1. upPc[u] \in UpLocked => upLock = u /\ upPc[v] \notin UpLocked
        BY <1>1, <2>1, UpFacts DEF UpWorker
      <3> QED
        BY <1>1, <3>1
    <2> QED
      BY <1>1, <2>1, <2>3, <2>4, UpOther
  <1>2. (upPc'[v] \in UpHeld \cup {"idle"}) => UpTables'
    BY DEF UpInv, UpTables, UpHeld
  <1> QED
    BY <1>1, <1>2

\* The record of a table is written, or fails to be.
LEMMA UpWrite ==
    ASSUME UpInv, Up!LeaseConstants, NEW v \in Workers, Up!Write(v)
    PROVE  UpInv'
  <1>1. /\ upPc[v] = "writing" /\ todo' = [todo EXCEPT ![v] = Up!Plan]
        /\ UNCHANGED <<life, upLock, table, rules, kernel, unsure, disturbed>>
    BY DEF Up!Write, Up!hostVars
  <1>2. /\ table[v] \in Table /\ record[table[v]] = Up!Empty /\ kernel[table[v]] = {} /\ upPc[v] \in UpHeld
        /\ upLock = v
    BY <1>1, UpFacts DEF UpWorker, UpHeld, UpLocked
  <1>3. \/ /\ record' = [record EXCEPT ![table[v]] = Mine(v)] /\ upPc' = [upPc EXCEPT ![v] = "routing"]
        \/ record' = record /\ upPc' = [upPc EXCEPT ![v] = "rules-off"]
    BY DEF Up!Write, Up!Goto, Mine
  <1>4. UpTypes'
    BY <1>1, <1>2, <1>3, UpFacts DEF UpInv, UpTypes, UpPcs
  <1>5. /\ \A u \in Workers : u # v => upPc'[u] = upPc[u] /\ todo'[u] = todo[u]
        /\ \A t \in Table : t # table[v] => record'[t] = record[t]
        /\ todo'[v] = Up!Plan
        /\ \/ record'[table[v]] = Mine(v) /\ upPc'[v] = "routing"
           \/ record'[table[v]] = Up!Empty /\ upPc'[v] = "rules-off"
    BY <1>1, <1>2, <1>3 DEF UpInv, UpTypes
  <1>6. \A u \in Workers : u # v => UpWorker(u)'
    BY <1>1, <1>2, <1>5, UpOwn
  <1>7. UpTables'
    BY <1>1, <1>2, <1>5, UpOwn DEF UpHeld
  <1>8. UpWorker(v)'
    <2>1. Up!Plan = SubSeq(Up!Plan, 1, 3) /\ (\A i \in 1 .. 1 - 1 : Up!Plan[i] \in kernel[table[v]])
      BY UpPlan
    <2>2. \E k \in 1 .. 4 : /\ todo'[v] = SubSeq(Up!Plan, k, 3)
                            /\ \A i \in 1 .. k - 1 : Up!Plan[i] \in kernel[table[v]]
      BY <1>5, <2>1
    <2>3. kernel'[table'[v]] = {} /\ table'[v] = table[v] /\ Mine(v)' = Mine(v)
      BY <1>1, <1>2 DEF Mine
    <2> QED
      BY <1>1, <1>2, <1>5, <2>2, <2>3 DEF UpWorker, UpHeld, UpLocked
  <1>9. Up!Accounted'
    BY <1>1, <1>2, <1>5 DEF UpInv, Up!Accounted
  <1> QED
    BY <1>4, <1>6, <1>7, <1>8, <1>9 DEF UpInv

\* The unreachable route of a table comes first, the rule last.
LEMMA UpRoute ==
    ASSUME UpInv, Up!LeaseConstants, NEW v \in Workers, Up!Route(v)
    PROVE  UpInv'
  <1> DEFINE t == table[v]
             e == Head(todo[v])
  <1>1. /\ upPc[v] = "routing" /\ todo[v] # <<>> /\ UNCHANGED <<life, upLock, table, record, disturbed>>
    BY DEF Up!Route, Up!hostVars
  <1>2. /\ t \in Table /\ upPc[v] \in UpHeld /\ upPc[v] \in UpLocked /\ upLock = v /\ record[t] = Mine(v)
        /\ kernel[t] \cap Up!Rules \subseteq rules[v] \/ t \in unsure
    BY <1>1, UpFacts DEF UpWorker, UpHeld, UpLocked
  <1>3. PICK k \in 1 .. 4 : /\ todo[v] = SubSeq(Up!Plan, k, 3)
                            /\ t \in disturbed \/ \A i \in 1 .. k - 1 : Up!Plan[i] \in kernel[t]
    BY <1>1, UpFacts DEF UpWorker
  <1>4. k \in 1 .. 3 /\ e = Up!Plan[k] /\ Tail(todo[v]) = SubSeq(Up!Plan, k + 1, 3) /\ k + 1 \in 1 .. 4
    <2>1. k # 4
      BY <1>1, <1>3, UpPlan
    <2>2. k \in 1 .. 3 /\ k + 1 \in 1 .. 4
      BY <2>1
    <2>3. Head(SubSeq(Up!Plan, k, 3)) = Up!Plan[k] /\ Tail(SubSeq(Up!Plan, k, 3)) = SubSeq(Up!Plan, k + 1, 3)
      BY <2>2, UpPlan, HeadTailOfSubSeq
    <2> QED
      BY <1>3, <2>2, <2>3
  <1>5. e \in Up!ToSet(Up!Plan)
    BY <1>4, UpPlan
  <1>6. <<"rule", "v4">> \in kernel[t] => <<"unreachable", "v4">> \in kernel[t] \/ t \in disturbed
    BY <1>1, UpFacts DEF UpWorker
  <1>7. e = <<"rule", "v4">> => <<"unreachable", "v4">> \in kernel[t] \/ t \in disturbed
    <2>1. e = <<"rule", "v4">> => k = 3
      BY <1>4, UpPlan
    <2>2. k = 3 => t \in disturbed \/ Up!Plan[1] \in kernel[t]
      BY <1>3
    <2> QED
      BY <2>1, <2>2, UpPlan
  <1>8. CASE /\ kernel' = [kernel EXCEPT ![t] = @ \cup {e}]
             /\ rules' = IF e \in Up!Rules THEN [rules EXCEPT ![v] = @ \cup {e}] ELSE rules
             /\ todo' = [todo EXCEPT ![v] = Tail(@)]
             /\ UNCHANGED <<upPc, unsure>>
    <2>1. /\ kernel'[t] = kernel[t] \cup {e} /\ \A x \in Table : x # t => kernel'[x] = kernel[x]
          /\ rules'[v] = rules[v] \cup ({e} \cap Up!Rules) /\ \A u \in Workers : u # v => rules'[u] = rules[u]
          /\ todo'[v] = SubSeq(Up!Plan, k + 1, 3) /\ \A u \in Workers : u # v => todo'[u] = todo[u]
          /\ UpTypes'
      BY <1>1, <1>2, <1>4, <1>5, <1>8 DEF UpInv, UpTypes
    <2> HIDE DEF e
    <2>2. \A u \in Workers : u # v => UpWorker(u)'
      BY <1>1, <1>2, <1>8, <2>1, UpOwn
    <2>3. UpTables'
      BY <1>1, <1>2, <1>8, <2>1, UpOwn
    <2>4. t \in disturbed \/ \A i \in 1 .. (k + 1) - 1 : Up!Plan[i] \in kernel'[t]
      BY <1>3, <1>4, <2>1
    <2>5. UpWorker(v)'
      <3>1. Mine(v)' = Mine(v)
        BY <1>1 DEF Mine
      <3> QED
        BY <1>1, <1>2, <1>4, <1>6, <1>7, <1>8, <2>1, <2>4, <3>1 DEF UpWorker, UpHeld, UpLocked
    <2>6. Up!Accounted'
      BY <1>1, <1>2, <1>8, <2>1 DEF UpInv, Up!Accounted, Mine
    <2> QED
      BY <2>1, <2>2, <2>3, <2>5, <2>6 DEF UpInv
  <1>9. CASE /\ kernel' \in {kernel, [kernel EXCEPT ![t] = @ \cup {e}]}
             /\ unsure' = unsure \cup {t}
             /\ Up!Goto(v, "rules-off")
             /\ UNCHANGED <<rules, todo>>
    <2>1. /\ \A x \in Table : x # t => kernel'[x] = kernel[x]
          /\ upPc'[v] = "rules-off" /\ \A u \in Workers : u # v => upPc'[u] = upPc[u]
          /\ UpTypes'
      BY <1>1, <1>2, <1>5, <1>9 DEF UpInv, UpTypes, Up!Goto, UpPcs
    <2>2. \A u \in Workers : u # v => UpWorker(u)'
      BY <1>1, <1>2, <1>9, <2>1, UpOwn
    <2>3. UpTables'
      BY <1>1, <1>2, <1>9, <2>1, UpOwn DEF UpHeld
    <2>4. UpWorker(v)'
      <3>1. Mine(v)' = Mine(v)
        BY <1>1 DEF Mine
      <3> QED
        BY <1>1, <1>2, <1>9, <2>1, <3>1 DEF UpWorker, UpHeld, UpLocked
    <2>5. Up!Accounted'
      BY <1>1, <1>9, <2>1 DEF UpInv, Up!Accounted
    <2> QED
      BY <2>1, <2>2, <2>3, <2>4, <2>5 DEF UpInv
  <1> QED
    BY <1>8, <1>9 DEF Up!Route

\* A step of a worker that changes neither a table nor a record.
LEMMA UpQuiet ==
    ASSUME UpInv, Up!LeaseConstants, NEW v \in Workers,
           \/ Up!Verify(v) \/ Up!Sign(v) \/ Up!Watch(v) \/ Up!Close(v)
    PROVE  UpInv'
  <1>1. /\ UNCHANGED <<life, table, todo, rules, record, kernel, unsure, disturbed>>
        /\ upPc[v] \in {"routing", "signing", "open"}
        /\ \/ /\ upPc[v] = "routing" /\ Up!Complete(table[v])
              /\ upPc' = [upPc EXCEPT ![v] = "signing"] /\ upLock' = "none"
           \/ /\ upPc[v] \in {"routing", "open"} /\ upPc' = [upPc EXCEPT ![v] = "rules-off"] /\ upLock' = upLock
           \/ upPc[v] = "signing" /\ upPc' = [upPc EXCEPT ![v] = "open"] /\ upLock' = upLock
           \/ upPc[v] = "open" /\ upPc' = upPc /\ upLock' = upLock
    BY DEF Up!Verify, Up!Sign, Up!Watch, Up!Close, Up!Goto, Up!hostVars, Up!leaseVars, Up!Nobody
  <1>2. /\ upPc[v] \in UpHeld /\ UpWorker(v)
        /\ upPc[v] = "routing" => upPc[v] \in UpLocked
    BY <1>1, UpFacts DEF UpHeld, UpLocked
  <1>3. UpTypes' /\ \A u \in Workers : u # v => upPc'[u] = upPc[u]
    BY <1>1 DEF UpInv, UpTypes, UpPcs
  <1>4. upPc'[v] \in UpHeld \cup {"idle"}
    BY <1>1 DEF UpInv, UpTypes, UpHeld
  <1>5. (\A u \in Workers : u # v => UpWorker(u)') /\ UpTables'
    BY <1>1, <1>2, <1>3, <1>4, UpOwn
  <1>6. UpWorker(v)'
    <2>1. Mine(v)' = Mine(v)
      BY <1>1 DEF Mine
    <2>2. upPc'[v] = "signing" \/ upPc'[v] = "rules-off" \/ upPc'[v] = "open"
      BY <1>1 DEF UpInv, UpTypes
    <2> QED
      BY <1>1, <1>2, <2>1, <2>2 DEF UpWorker, UpHeld, UpLocked, UpInv, UpTypes, Up!Complete
  <1>7. Up!Accounted'
    BY <1>1 DEF UpInv, Up!Accounted
  <1> QED
    BY <1>3, <1>5, <1>6, <1>7 DEF UpInv

\* Close takes the rules it knows, then the routes.
LEMMA UpOff ==
    ASSUME UpInv, Up!LeaseConstants, NEW v \in Workers, Up!RulesOff(v) \/ Up!RoutesOff(v)
    PROVE  UpInv'
  <1> DEFINE t == table[v]
  <1>1. /\ UNCHANGED <<life, table, upLock, todo, rules, record, disturbed>>
        /\ upPc[v] \in {"rules-off", "routes-off"}
    BY DEF Up!RulesOff, Up!RoutesOff, Up!hostVars, Up!leaseVars
  <1>2. /\ t \in Table /\ upPc[v] \in UpHeld /\ UpWorker(v) /\ kernel[t] \subseteq Up!ToSet(Up!Plan)
    BY <1>1, UpFacts DEF UpHeld, UpTypes
  <1>3. CASE Up!RulesOff(v)
    <2> PICK failed \in SUBSET rules[v] :
             /\ kernel' = [kernel EXCEPT ![t] = @ \ (rules[v] \ failed)]
             /\ unsure' = IF failed = {} THEN unsure ELSE unsure \cup {t}
      BY <1>3 DEF Up!RulesOff
    <2>1. upPc[v] = "rules-off" /\ upPc' = [upPc EXCEPT ![v] = "routes-off"]
      BY <1>3 DEF Up!RulesOff, Up!Goto
    <2>2. /\ UpTypes' /\ upPc'[v] = "routes-off" /\ \A u \in Workers : u # v => upPc'[u] = upPc[u]
          /\ kernel'[t] = kernel[t] \ (rules[v] \ failed) /\ \A x \in Table : x # t => kernel'[x] = kernel[x]
      BY <1>1, <1>2, <2>1 DEF UpInv, UpTypes, UpPcs
    <2>3. (\A u \in Workers : u # v => UpWorker(u)') /\ UpTables'
      BY <1>1, <1>2, <2>2, UpOwn DEF UpHeld
    <2>4. UpWorker(v)'
      <3>1. Mine(v)' = Mine(v)
        BY <1>1 DEF Mine
      <3> QED
        BY <1>1, <1>2, <2>1, <2>2, <3>1 DEF UpWorker, UpHeld, UpLocked
    <2>5. Up!Accounted'
      BY <1>1, <2>2 DEF UpInv, Up!Accounted
    <2> QED
      BY <2>2, <2>3, <2>4, <2>5 DEF UpInv
  <1>4. CASE Up!RoutesOff(v)
    <2>1. /\ upPc[v] = "routes-off" /\ upPc' = [upPc EXCEPT ![v] = "record-off"]
          /\ \/ kernel' = [kernel EXCEPT ![t] = @ \cap Up!Rules] /\ unsure' = unsure
             \/ kernel' = kernel /\ unsure' = unsure \cup {t}
      BY <1>4 DEF Up!RoutesOff, Up!Goto
    <2>2. /\ UpTypes' /\ upPc'[v] = "record-off" /\ \A u \in Workers : u # v => upPc'[u] = upPc[u]
          /\ kernel'[t] \subseteq kernel[t] /\ \A x \in Table : x # t => kernel'[x] = kernel[x]
      BY <1>1, <1>2, <2>1 DEF UpInv, UpTypes, UpPcs
    <2>3. (\A u \in Workers : u # v => UpWorker(u)') /\ UpTables'
      BY <1>1, <1>2, <2>1, <2>2, UpOwn DEF UpHeld
    <2>4. kernel'[t] = {} \/ t \in unsure'
      BY <1>2, <2>1 DEF UpWorker, UpInv, UpTypes
    <2>5. UpWorker(v)'
      <3>1. Mine(v)' = Mine(v)
        BY <1>1 DEF Mine
      <3> QED
        BY <1>1, <1>2, <2>1, <2>2, <2>4, <3>1 DEF UpWorker, UpHeld, UpLocked
    <2>6. Up!Accounted'
      BY <1>1, <2>1, <2>2 DEF UpInv, Up!Accounted
    <2> QED
      BY <2>2, <2>3, <2>5, <2>6 DEF UpInv
  <1> QED
    BY <1>3, <1>4

\* The record goes last.
LEMMA UpRecordOff ==
    ASSUME UpInv, Up!LeaseConstants, NEW v \in Workers, Up!RecordOff(v)
    PROVE  UpInv'
  <1> DEFINE t == table[v]
  <1>1. /\ upPc[v] = "record-off" /\ record' = [record EXCEPT ![t] = Up!NoFile] /\ Up!Ends(v)
        /\ UNCHANGED <<life, kernel, unsure, disturbed>>
    BY DEF Up!RecordOff, Up!hostVars
  <1>2. /\ t \in Table /\ upPc[v] \in UpHeld /\ (kernel[t] = {} \/ t \in unsure)
    BY <1>1, UpFacts DEF UpWorker, UpHeld
  <1>3. record' \in [Table -> Up!File] /\ \A x \in Table : x # t => record'[x] = record[x]
    BY <1>1, <1>2, UpFacts DEF UpInv, UpTypes
  <1>4. ASSUME NEW u \in Workers, u # v
        PROVE  UpWorker(u)'
    <2>1. /\ UpTypes /\ UpWorker(u) /\ (upPc[u] \in UpHeld => table[u] # t /\ table[u] \in Table)
          /\ upPc[u] = "recording" => kernel[table[u]] = {}
          /\ upPc[u] \in UpLocked => upLock = u
      BY <1>2, <1>4, UpFacts DEF UpWorker
    <2> QED
      BY <1>1, <1>3, <1>4, <2>1, UpEnds, UpOther
  <1>5. UpTables'
    BY <1>1, UpEnds DEF UpInv, UpTables, UpHeld
  <1>6. Up!Accounted'
    BY <1>1, <1>2, <1>3 DEF UpInv, Up!Accounted
  <1>7. UpTypes'
    BY <1>1, <1>3, UpEnds DEF UpInv, UpTypes
  <1> QED
    BY <1>1, <1>4, <1>5, <1>6, <1>7, UpEnds DEF UpInv

\* The next life of a worker knows nothing of the last one's table.
LEMMA UpCrash ==
    ASSUME UpInv, Up!LeaseConstants, NEW v \in Workers, Up!Crash(v)
    PROVE  UpInv'
  <1>1. /\ life' = [life EXCEPT ![v] = @ + 1] /\ Up!Ends(v)
        /\ UNCHANGED <<record, kernel, unsure, disturbed>>
    BY DEF Up!Crash, Up!hostVars
  <1>2. life' \in [Workers -> Nat] /\ \A u \in Workers : u # v => life'[u] = life[u]
    BY <1>1 DEF UpInv, UpTypes
  <1>3. ASSUME NEW u \in Workers, u # v
        PROVE  UpWorker(u)'
    <2>1. /\ UpTypes /\ UpWorker(u)
          /\ upPc[u] = "recording" => kernel[table[u]] = {}
          /\ upPc[u] \in UpLocked => upLock = u
      BY UpFacts DEF UpWorker
    <2> QED
      BY <1>1, <1>2, <1>3, <2>1, UpEnds, UpOther
  <1>4. UpTables'
    BY <1>1, UpEnds DEF UpInv, UpTables, UpHeld
  <1>5. Up!Accounted'
    BY <1>1 DEF UpInv, Up!Accounted
  <1>6. UpTypes'
    BY <1>1, <1>2, UpEnds DEF UpInv, UpTypes
  <1> QED
    BY <1>1, <1>3, <1>4, <1>5, <1>6, UpEnds DEF UpInv

\* The host changes its policy, samples it, or disturbs a table.
LEMMA UpHost ==
    ASSUME UpInv, Up!PolicyChanges \/ Up!Sample \/ \E t \in Table : \E e \in kernel[t] : Up!Disturb(t, e)
    PROVE  UpInv'
  <1>1. CASE Up!PolicyChanges \/ Up!Sample
    <2>1. UNCHANGED <<upPc, life, upLock, table, todo, rules, record, kernel, unsure, disturbed>>
      BY <1>1 DEF Up!PolicyChanges, Up!Sample
    <2> QED
      BY <2>1 DEF UpInv, UpTypes, UpWorker, UpTables, Up!Accounted, Mine, Up!Complete
  <1>2. ASSUME NEW t \in Table, NEW e \in kernel[t], Up!Disturb(t, e)
        PROVE  UpInv'
    <2>1. /\ disturbed' = disturbed \cup {t} /\ kernel' = [kernel EXCEPT ![t] = @ \ {e}]
          /\ UNCHANGED <<upPc, life, upLock, table, todo, rules, record, unsure>>
      BY <1>2 DEF Up!Disturb, Up!leaseVars
    <2>2. /\ kernel'[t] \subseteq kernel[t] /\ \A x \in Table : x # t => kernel'[x] = kernel[x]
          /\ UpTypes'
      BY <2>1 DEF UpInv, UpTypes
    <2>3. UpTables' /\ Up!Accounted'
      BY <2>1, <2>2 DEF UpInv, UpTables, Up!Accounted
    <2>4. ASSUME NEW v \in Workers
          PROVE  UpWorker(v)'
      <3>1. UpWorker(v) /\ Mine(v)' = Mine(v)
        BY <2>1 DEF UpInv, Mine
      <3>2. CASE table[v] = t
        <4>1. table[v] \in disturbed'
          BY <2>1, <3>2
        <4> QED
          BY <2>1, <2>2, <3>1, <3>2, <4>1 DEF UpWorker
      <3>3. CASE table[v] # t
        <4>1. upPc[v] \in UpHeld \cup {"recording"} => kernel'[table[v]] = kernel[table[v]]
          BY <2>2, <3>1, <3>3 DEF UpWorker
        <4> QED
          BY <2>1, <3>1, <4>1, UpOther DEF UpInv, UpWorker
      <3> QED
        BY <3>2, <3>3
    <2> QED
      BY <2>2, <2>3, <2>4 DEF UpInv
  <1> QED
    BY <1>1, <1>2

\* Every step of the uplinks keeps the invariant.
LEMMA UpStep ==
    ASSUME UpInv, Up!LeaseConstants, Up!Next
    PROVE  UpInv'
  <1>1. ASSUME NEW v \in Workers, \/ Up!Opening(v) \/ Up!Watch(v) \/ Up!Close(v) \/ Up!Closing(v) \/ Up!Crash(v)
        PROVE  UpInv'
    <2>1. ASSUME Up!Find(v) \/ Up!Sweep(v) \/ Up!Draw(v) \/ Up!Record(v) \/ Up!Write(v) \/ Up!Route(v)
          PROVE  UpInv'
      BY <2>1, UpFind, UpSweep, UpDraw, UpRecord, UpWrite, UpRoute
    <2>2. ASSUME Up!Verify(v) \/ Up!Sign(v) \/ Up!Watch(v) \/ Up!Close(v)
          PROVE  UpInv'
      BY <2>2, UpQuiet
    <2>3. ASSUME Up!RulesOff(v) \/ Up!RoutesOff(v) \/ Up!RecordOff(v) \/ Up!Crash(v)
          PROVE  UpInv'
      BY <2>3, UpOff, UpRecordOff, UpCrash
    <2> QED
      BY <1>1, <2>1, <2>2, <2>3 DEF Up!Opening, Up!Closing
  <1> QED
    BY <1>1, UpHost DEF Up!Next

\* The tables keep one holder, one record and their order, whatever fails, is killed or disturbed.
THEOREM UplinkInvariant == Behaviour => [](part = "uplink" => UpInv)
  <1>1. InitAll => (part = "uplink" => UpInv)
    BY UpInit, LeaseBounds DEF InitAll
  <1>2. (part = "uplink" => UpInv) /\ [NextAll]_all => (part = "uplink" => UpInv)'
    <2> SUFFICES ASSUME part = "uplink" => UpInv, [NextAll]_all, part' = "uplink"
                 PROVE  UpInv'
      OBVIOUS
    <2>1. CASE part = "uplink" /\ Up!Next
      BY <2>1, UpStep, LeaseBounds
    <2>2. CASE UNCHANGED <<part, varsUp>>
      BY <2>2 DEF UpInv, UpTypes, UpWorker, UpTables, Up!Accounted, Mine, Up!Complete, varsUp
    <2> QED
      BY <2>1, <2>2 DEF NextAll, all
  <1> QED
    BY <1>1, <1>2, PTL DEF Behaviour

\* No two workers have one table; a lease in use has all its routes; a marked socket meets an
\* unreachable route before another uplink; what is left behind is on record (lease_linux.go).
THEOREM UplinkOwned == Behaviour => []RoutesOwned
  <1>1. ASSUME UpInv
        PROVE  Up!UplinkSound
    <2>1. \A v \in Workers : Up!Holding(v) <=> upPc[v] \in UpHeld
      BY DEF Up!Holding, UpHeld
    <2>2. Up!TypeOK
      BY <1>1, <2>1, LeaseBounds DEF UpInv, UpTypes, UpWorker, Up!TypeOK, Up!Nobody, Up!LeaseConstants
    <2>3. Up!OwnTable
      BY <1>1, <2>1 DEF UpInv, UpTables, Up!OwnTable
    <2>4. Up!Intact
      BY <1>1 DEF UpInv, UpWorker, Up!Intact
    <2>5. Up!FailClosed
      <3>1. Up!ToSet(<<"v4">>) = {"v4"}
        BY DEF Up!ToSet
      <3> QED
        BY <1>1, <3>1 DEF UpInv, UpWorker, Up!FailClosed
    <2>6. Up!Accounted
      BY <1>1 DEF UpInv
    <2> QED
      BY <2>2, <2>3, <2>4, <2>5, <2>6 DEF Up!UplinkSound
  <1> QED
    BY <1>1, UplinkInvariant, PTL DEF RoutesOwned

-----------------------------------------------------------------------------
(* The gateway's accounts.                                                 *)

GwRevs == 0 .. MaxCred
GwBinding == [account : Accounts, revision : 1 .. MaxCred]

GwTypes ==
    /\ db \in [Accounts -> GwRevs] /\ born \subseteq Accounts
    /\ late = None \/ late \in [account : Accounts, value : GwRevs]
    /\ writer \in [pc : {"idle", "apply", "suspend", "refresh"}, account : Accounts \cup {None}, value : GwRevs]
    /\ refresher \in [{"ticker", "api"} -> [epoch : Nat, pc : {"idle", "read", "apply"},
                                            snapshot : {None} \cup [Accounts -> GwRevs]]]
    /\ epoch \in Nat /\ writes \in Nat /\ epoch <= writes /\ writes <= MaxWrites
    /\ writer.pc \in {"apply", "suspend"} => epoch < writes
    /\ \A x \in {"ticker", "api"} : refresher[x].epoch <= epoch
    /\ gwReady \in BOOLEAN
    /\ accounts \in [Accounts -> GwRevs] /\ policies \in [Accounts -> GwRevs]
    /\ pol \in [Accounts -> GwRevs] /\ rev \in [Accounts -> GwRevs] /\ call \in [Accounts -> GwRevs]
    /\ floor \in [Accounts -> 0 .. MaxCred + 1]
    /\ reg \in [Phones -> {None} \cup GwBinding]
    /\ invite \in [Phones -> {None} \cup [account : Accounts, bound : BOOLEAN, revision : 1 .. MaxCred]]
    /\ grant \in [Phones -> GwRevs]

\* A commit that is undecided may still create account a.
Creating(a) == late # None /\ late.account = a /\ late.value # 0 /\ db[a] = 0

\* What holds of an account a in the table, in the registrar and in the router.
GwAccount(a) ==
    /\ db[a] # 0 => /\ a \in born /\ db[a] >= floor[a] /\ rev[a] <= db[a] /\ policies[a] <= db[a]
                    /\ pol[a] = 0 => rev[a] < db[a]
    /\ a \notin born => db[a] = 0 /\ floor[a] = 0
    /\ a \notin born \/ Creating(a) => rev[a] = 0 /\ policies[a] = 0
    /\ late # None /\ late.account = a =>
           /\ a \in born
           /\ late.value # 0 => late.value >= floor[a] /\ late.value >= db[a]
    /\ accounts[a] \in {0, policies[a]} /\ (accounts[a] # 0 => accounts[a] >= floor[a])
    /\ pol[a] \in {0, policies[a]} /\ (pol[a] # 0 => rev[a] = pol[a])
    /\ call[a] # 0 => call[a] = accounts[a] /\ pol[a] # 0

\* A snapshot that no change has fenced is what the table held when it was read.
Live(x) == refresher[x].pc = "apply" /\ refresher[x].snapshot # None /\ refresher[x].epoch = epoch
GwSnapshot(s) ==
    \A a \in Accounts :
        /\ s[a] # 0 => s[a] >= floor[a]
        /\ db[a] # 0 => s[a] <= db[a] /\ s[a] >= rev[a] /\ s[a] >= policies[a]
        /\ a \notin born \/ Creating(a) => s[a] = 0
GwRefreshers ==
    /\ \A x \in {"ticker", "api"} : Live(x) => GwSnapshot(refresher[x].snapshot)
    /\ \A x \in {"ticker", "api"} : refresher[x].pc = "read" => refresher[x].snapshot = None
    /\ refresher["api"].pc # "idle" => writer.pc = "refresh"
    /\ writer.pc = "refresh" => \A x \in {"ticker", "api"} : Live(x) => refresher[x].snapshot = db

GwWriter ==
    /\ writer.pc # "idle" => writer.account \in Accounts /\ writer.account \in born
    /\ writer.pc = "apply" => late = None /\ db[writer.account] = writer.value
    /\ writer.pc = "refresh" => late = None
    /\ writer.pc = "suspend" /\ late # None => late.account = writer.account

GwPhone(p) ==
    /\ reg[p] # None => reg[p].revision = accounts[reg[p].account]
    /\ grant[p] # 0 => reg[p] # None /\ grant[p] = reg[p].revision /\ grant[p] = pol[reg[p].account]
    /\ invite[p] # None /\ invite[p].bound => reg[p] # None /\ reg[p].account = invite[p].account

GwInv == /\ GwTypes /\ GwWriter /\ GwRefreshers
         /\ \A a \in Accounts : GwAccount(a)
         /\ \A p \in Phones : GwPhone(p)

\* What a gateway that has just started finds.
LEMMA GwInit ==
    ASSUME Gw!GatewayBounds, Gw!Init
    PROVE  GwInv
  <1>1. GwTypes
    <2>1. /\ 0 \in GwRevs /\ 1 \in GwRevs /\ 0 \in 0 .. MaxCred + 1 /\ MaxWrites \in Nat
      BY DEF Gw!GatewayBounds, GwRevs
    <2>2. db \in [Accounts -> GwRevs] /\ born \subseteq Accounts
      BY <2>1 DEF Gw!Init
    <2>3. /\ Gw!Idle \in [epoch : Nat, pc : {"idle", "read", "apply"}, snapshot : {None} \cup [Accounts -> GwRevs]]
          /\ Gw!Idle.epoch = 0
      BY DEF Gw!Idle
    <2>4. /\ refresher \in [{"ticker", "api"} -> [epoch : Nat, pc : {"idle", "read", "apply"},
                                                  snapshot : {None} \cup [Accounts -> GwRevs]]]
          /\ \A x \in {"ticker", "api"} : refresher[x].epoch <= epoch
      BY <2>3 DEF Gw!Init, Gw!Refreshers
    <2>5. /\ writer \in [pc : {"idle", "apply", "suspend", "refresh"}, account : Accounts \cup {None}, value : GwRevs]
          /\ writer.pc = "idle"
      BY <2>1 DEF Gw!Init
    <2>6. /\ accounts \in [Accounts -> GwRevs] /\ policies \in [Accounts -> GwRevs]
          /\ pol \in [Accounts -> GwRevs] /\ rev \in [Accounts -> GwRevs] /\ call \in [Accounts -> GwRevs]
          /\ floor \in [Accounts -> 0 .. MaxCred + 1]
      BY <2>1 DEF Gw!Init, Gw!Nobody
    <2>7. /\ reg \in [Phones -> {None} \cup GwBinding] /\ grant \in [Phones -> GwRevs]
          /\ invite \in [Phones -> {None} \cup [account : Accounts, bound : BOOLEAN, revision : 1 .. MaxCred]]
      BY <2>1 DEF Gw!Init
    <2>8. late = None /\ epoch = 0 /\ writes = 0 /\ gwReady = FALSE
      BY DEF Gw!Init
    <2>9. epoch \in Nat /\ writes \in Nat /\ epoch <= writes /\ writes <= MaxWrites
      BY <2>1, <2>8
    <2>10. (writer.pc \in {"apply", "suspend"} => epoch < writes) /\ gwReady \in BOOLEAN
      BY <2>5, <2>8
    <2> QED
      BY <2>2, <2>4, <2>5, <2>6, <2>7, <2>8, <2>9, <2>10, Zenon DEF GwTypes
  <1>2. GwWriter /\ GwRefreshers
    BY DEF Gw!GatewayBounds, Gw!Init, GwWriter, GwRefreshers, Live, Gw!Idle, Gw!Refreshers
  <1>3. ASSUME NEW a \in Accounts
        PROVE  GwAccount(a)
    BY DEF Gw!GatewayBounds, Gw!Init, GwAccount, Gw!Nobody, Creating
  <1>4. ASSUME NEW p \in Phones
        PROVE  GwPhone(p)
    BY DEF Gw!GatewayBounds, Gw!Init, GwPhone
  <1> QED
    BY <1>1, <1>2, <1>3, <1>4 DEF GwInv

\* What a sync leaves of the policies, the registrations and the calls.
LEMMA GwSync ==
    ASSUME GwInv, Gw!GatewayBounds, NEW acc \in [Accounts -> GwRevs], NEW pols \in [Accounts -> GwRevs],
           Gw!syncLocked(acc, pols),
           reg' \in [Phones -> {None} \cup GwBinding],
           \A a \in Accounts : /\ acc[a] \in {0, pols[a]}
                               /\ db[a] # 0 => pols[a] <= db[a] /\ (pol[a] # 0 => pols[a] >= rev[a]),
           \A p \in Phones : reg'[p] # None => /\ reg'[p].revision = acc[reg'[p].account]
                                               /\ grant[p] # 0 => reg'[p] = reg[p]
    PROVE  /\ pol' \in [Accounts -> GwRevs] /\ rev' \in [Accounts -> GwRevs] /\ grant' \in [Phones -> GwRevs]
           /\ Gw!CallsLeft(acc, pols) \in [Accounts -> GwRevs]
           /\ \A a \in Accounts :
                 /\ pol'[a] \in {0, pols[a]} /\ (pol'[a] # 0 => rev'[a] = pol'[a])
                 /\ rev'[a] \in {rev[a], pols[a]}
                 /\ db[a] # 0 => rev'[a] <= db[a] /\ (pol'[a] = 0 => rev'[a] < db[a])
                 /\ Gw!CallsLeft(acc, pols)[a] # 0 => Gw!CallsLeft(acc, pols)[a] = acc[a] /\ pol'[a] # 0
           /\ \A p \in Phones : grant'[p] # 0 => /\ reg'[p] # None /\ grant'[p] = reg'[p].revision
                                                 /\ grant'[p] = pol'[reg'[p].account]
  <1> DEFINE next == {a \in Accounts : Gw!PutPolicy(a, pols[a])}
             revoked == Gw!Revoked(acc, pols)
  <1>1. /\ pol' = [a \in Accounts |-> IF a \in next THEN pols[a] ELSE 0]
        /\ rev' = [a \in Accounts |-> IF a \in next THEN pols[a] ELSE rev[a]]
    BY DEF Gw!syncLocked
  <1>2. grant' = [p \in Phones |->
                    IF reg'[p] = None \/ reg'[p].account \notin next THEN 0
                    ELSE IF grant[p] # 0 /\ reg'[p].account \notin revoked
                      THEN grant[p] ELSE IF acc[reg'[p].account] = pols[reg'[p].account]
                                         THEN acc[reg'[p].account] ELSE 0]
    BY DEF Gw!syncLocked
  <1>3. GwTypes /\ MaxCred \in Nat
    BY DEF GwInv, Gw!GatewayBounds
  <1>4. pol' \in [Accounts -> GwRevs] /\ rev' \in [Accounts -> GwRevs]
    BY <1>1, <1>3 DEF GwTypes, GwRevs
  <1>5. ASSUME NEW a \in Accounts
        PROVE  /\ pol[a] \in Nat /\ rev[a] \in Nat /\ pols[a] \in Nat /\ db[a] \in Nat /\ acc[a] \in GwRevs
               /\ GwAccount(a) /\ call[a] \in GwRevs
    BY <1>3 DEF GwInv, GwTypes, GwRevs
  <1>6. ASSUME NEW a \in Accounts
        PROVE  /\ pol'[a] \in {0, pols[a]} /\ (pol'[a] # 0 => rev'[a] = pol'[a])
               /\ rev'[a] \in {rev[a], pols[a]}
               /\ db[a] # 0 => rev'[a] <= db[a] /\ (pol'[a] = 0 => rev'[a] < db[a])
    <2>1. /\ pol'[a] = IF a \in next THEN pols[a] ELSE 0
          /\ rev'[a] = IF a \in next THEN pols[a] ELSE rev[a]
          /\ a \in next <=> pols[a] # 0 /\ pols[a] >= rev[a] /\ (pol[a] = 0 => pols[a] > rev[a])
      BY <1>1 DEF Gw!PutPolicy
    <2> HIDE DEF next
    <2> QED
      BY <1>5, <2>1 DEF GwAccount
  <1>7. Gw!CallsLeft(acc, pols) = [a \in Accounts |-> IF a \in revoked THEN 0 ELSE call[a]]
    BY DEF Gw!CallsLeft
  <1>8. ASSUME NEW a \in Accounts
        PROVE  a \notin revoked => /\ a \in next /\ acc[a] # 0 /\ pol[a] \in {0, pols[a]}
    BY DEF Gw!Revoked
  <1>9. ASSUME NEW a \in next
        PROVE  pols[a] # 0 /\ pol'[a] = pols[a]
    BY <1>1 DEF Gw!PutPolicy
  <1> HIDE DEF next, revoked
  <1>10. ASSUME NEW a \in Accounts, a \notin revoked, call[a] # 0
         PROVE  call[a] = acc[a] /\ pol'[a] # 0
    BY <1>5, <1>8, <1>9, <1>10 DEF GwAccount
  <1>11. ASSUME NEW p \in Phones
         PROVE  /\ grant'[p] \in GwRevs
                /\ grant'[p] # 0 => /\ reg'[p] # None /\ grant'[p] = reg'[p].revision
                                    /\ grant'[p] = pol'[reg'[p].account]
    <2> DEFINE a == reg'[p].account
    <2>1. CASE reg'[p] = None \/ a \notin next
      BY <1>2, <1>3, <2>1 DEF GwRevs
    <2>2. CASE ~ (reg'[p] = None \/ a \notin next)
      <3>1. a \in Accounts /\ reg'[p].revision = acc[a] /\ (grant[p] # 0 => reg'[p] = reg[p])
        BY <2>2 DEF GwBinding
      <3>2. pol'[a] = pols[a] /\ acc[a] \in {0, pols[a]} /\ grant[p] \in GwRevs
        BY <1>3, <1>9, <2>2, <3>1 DEF GwTypes
      <3>3. CASE grant[p] # 0 /\ a \notin revoked
        <4>1. grant'[p] = grant[p]
          BY <1>2, <2>2, <3>3
        <4>2. grant[p] = reg[p].revision /\ grant[p] = pol[reg[p].account]
          BY <3>3 DEF GwInv, GwPhone
        <4> QED
          BY <1>8, <2>2, <3>1, <3>2, <3>3, <4>1, <4>2
      <3>4. CASE ~ (grant[p] # 0 /\ a \notin revoked)
        <4>1. grant'[p] = IF acc[a] = pols[a] THEN acc[a] ELSE 0
          BY <1>2, <2>2, <3>4
        <4> QED
          BY <1>3, <1>5, <2>2, <3>1, <3>2, <4>1 DEF GwRevs
      <3> QED
        BY <3>3, <3>4
    <2> QED
      BY <2>1, <2>2
  <1>12. grant' \in [Phones -> GwRevs] /\ Gw!CallsLeft(acc, pols) \in [Accounts -> GwRevs]
    BY <1>2, <1>3, <1>5, <1>7, <1>11 DEF GwRevs
  <1>13. ASSUME NEW a \in Accounts
         PROVE  Gw!CallsLeft(acc, pols)[a] # 0 => Gw!CallsLeft(acc, pols)[a] = acc[a] /\ pol'[a] # 0
    <2>1. Gw!CallsLeft(acc, pols)[a] = IF a \in revoked THEN 0 ELSE call[a]
      BY <1>7
    <2> QED
      BY <1>10, <2>1
  <1> QED
    BY <1>4, <1>6, <1>11, <1>12, <1>13

\* The bindings that survive a new list of accounts are of their accounts' present revisions.
LEMMA GwReplace ==
    ASSUME GwInv, NEW next \in [Accounts -> GwRevs], NEW offline, Gw!Replace(next, offline), Gw!ForgetBindings
    PROVE  /\ reg' \in [Phones -> {None} \cup GwBinding]
           /\ invite' \in [Phones -> {None} \cup [account : Accounts, bound : BOOLEAN, revision : 1 .. MaxCred]]
           /\ \A p \in Phones :
                 /\ reg'[p] # None => reg'[p] = reg[p] /\ reg'[p].revision = next[reg'[p].account]
                 /\ invite'[p] # None /\ invite'[p].bound => reg'[p] # None /\ reg'[p].account = invite'[p].account
  <1>1. GwTypes
    BY DEF GwInv
  <1>2. ASSUME NEW p \in Phones
        PROVE  /\ reg'[p] \in {None, reg[p]}
               /\ reg'[p] # None => reg'[p].revision = next[reg'[p].account]
    <2>1. reg[p] # None => reg[p].revision = accounts[reg[p].account]
      BY DEF GwInv, GwPhone
    <2> QED
      BY <2>1 DEF Gw!Replace
  <1>3. reg' \in [Phones -> {None} \cup GwBinding]
    BY <1>1, <1>2 DEF Gw!Replace, GwTypes
  <1>4. ASSUME NEW p \in Phones
        PROVE  /\ invite'[p] \in {None} \cup [account : Accounts, bound : BOOLEAN, revision : 1 .. MaxCred]
               /\ invite'[p] # None /\ invite'[p].bound => reg'[p] # None /\ reg'[p].account = invite'[p].account
    <2>1. invite'[p] = IF invite[p] # None /\ reg'[p] = None
                       THEN [invite[p] EXCEPT !.bound = FALSE] ELSE invite[p]
      BY DEF Gw!ForgetBindings
    <2>2. /\ invite[p] \in {None} \cup [account : Accounts, bound : BOOLEAN, revision : 1 .. MaxCred]
          /\ invite[p] # None /\ invite[p].bound => reg[p] # None /\ reg[p].account = invite[p].account
      BY <1>1 DEF GwTypes, GwInv, GwPhone
    <2>3. CASE invite[p] # None /\ reg'[p] = None
      <3>1. invite'[p] = [invite[p] EXCEPT !.bound = FALSE]
        BY <2>1, <2>3
      <3>2. invite'[p] \in [account : Accounts, bound : BOOLEAN, revision : 1 .. MaxCred] /\ invite'[p].bound = FALSE
        BY <2>2, <2>3, <3>1
      <3> QED
        BY <3>2
    <2>4. CASE ~ (invite[p] # None /\ reg'[p] = None)
      BY <1>2, <2>1, <2>2, <2>4
    <2> QED
      BY <2>3, <2>4
  <1>5. invite' \in [Phones -> {None} \cup [account : Accounts, bound : BOOLEAN, revision : 1 .. MaxCred]]
    BY <1>4 DEF Gw!ForgetBindings
  <1> QED
    BY <1>2, <1>3, <1>4, <1>5

\* A sync over accounts and policies that fit the table keeps every view in agreement.
LEMMA GwSynced ==
    ASSUME GwInv, Gw!GatewayBounds, Gw!syncLocked(accounts', policies'),
           UNCHANGED <<db, born, late>>,
           accounts' \in [Accounts -> GwRevs], policies' \in [Accounts -> GwRevs],
           reg' \in [Phones -> {None} \cup GwBinding],
           \A a \in Accounts : /\ accounts'[a] \in {0, policies'[a]}
                               /\ accounts'[a] # 0 => accounts'[a] >= floor'[a]
                               /\ db[a] # 0 => /\ db[a] >= floor'[a]
                                               /\ policies'[a] <= db[a] /\ (pol[a] # 0 => policies'[a] >= rev[a])
                               /\ a \notin born \/ Creating(a) => policies'[a] = 0
                               /\ a \notin born => floor'[a] = 0
                               /\ late # None /\ late.account = a /\ late.value # 0 => late.value >= floor'[a]
                               /\ call'[a] # 0 => call'[a] = Gw!CallsLeft(accounts', policies')[a]
                                                  \/ (call'[a] = accounts'[a] /\ pol'[a] # 0),
           \A p \in Phones :
               /\ reg'[p] # None => reg'[p].revision = accounts'[reg'[p].account] /\ (grant[p] # 0 => reg'[p] = reg[p])
               /\ invite'[p] # None /\ invite'[p].bound => reg'[p] # None /\ reg'[p].account = invite'[p].account
    PROVE  /\ pol' \in [Accounts -> GwRevs] /\ rev' \in [Accounts -> GwRevs] /\ grant' \in [Phones -> GwRevs]
           /\ Gw!CallsLeft(accounts', policies') \in [Accounts -> GwRevs]
           /\ \A a \in Accounts : GwAccount(a)' /\ rev'[a] \in {rev[a], policies'[a]}
           /\ \A p \in Phones : GwPhone(p)'
  <1> DEFINE acc == accounts'
             pols == policies'
             left == Gw!CallsLeft(acc, pols)
  <1>1. /\ pol' \in [Accounts -> GwRevs] /\ rev' \in [Accounts -> GwRevs] /\ grant' \in [Phones -> GwRevs]
        /\ left \in [Accounts -> GwRevs]
        /\ \A a \in Accounts :
              /\ pol'[a] \in {0, pols[a]} /\ (pol'[a] # 0 => rev'[a] = pol'[a])
              /\ rev'[a] \in {rev[a], pols[a]}
              /\ db[a] # 0 => rev'[a] <= db[a] /\ (pol'[a] = 0 => rev'[a] < db[a])
              /\ left[a] # 0 => left[a] = acc[a] /\ pol'[a] # 0
        /\ \A p \in Phones : grant'[p] # 0 => /\ reg'[p] # None /\ grant'[p] = reg'[p].revision
                                              /\ grant'[p] = pol'[reg'[p].account]
    BY GwSync
  <1> HIDE DEF acc, pols, left
  <1>2. ASSUME NEW a \in Accounts
        PROVE  GwAccount(a)'
    <2>1. GwAccount(a) /\ Creating(a)' = Creating(a)
      BY DEF GwInv, Creating
    <2>2. call'[a] # 0 => call'[a] = accounts'[a] /\ pol'[a] # 0
      BY <1>1 DEF left, acc, pols
    <2> QED
      BY <1>1, <2>1, <2>2 DEF GwAccount, acc, pols
  <1>3. ASSUME NEW p \in Phones
        PROVE  GwPhone(p)'
    BY <1>1 DEF GwPhone
  <1> QED
    BY <1>1, <1>2, <1>3 DEF left, acc, pols

\* A step that leaves the router and the registrar alone.
LEMMA GwSame ==
    ASSUME GwInv, UNCHANGED <<accounts, policies, pol, rev, grant, call, reg, floor>>,
           \A a \in Accounts :
               /\ db'[a] # 0 => /\ a \in born' /\ db'[a] >= floor[a] /\ rev[a] <= db'[a] /\ policies[a] <= db'[a]
                                /\ pol[a] = 0 => rev[a] < db'[a]
               /\ a \notin born' => a \notin born /\ db'[a] = 0
               /\ a \notin born' \/ Creating(a)' => rev[a] = 0 /\ policies[a] = 0
               /\ late' # None /\ late'.account = a =>
                      /\ a \in born'
                      /\ late'.value # 0 => late'.value >= floor[a] /\ late'.value >= db'[a]
    PROVE  /\ \A a \in Accounts : GwAccount(a)'
           /\ UNCHANGED invite => \A p \in Phones : GwPhone(p)'
  <1>1. ASSUME NEW a \in Accounts
        PROVE  GwAccount(a)'
    <2>1. GwAccount(a)
      BY DEF GwInv
    <2> QED
      BY <2>1 DEF GwAccount
  <1>2. UNCHANGED invite => \A p \in Phones : GwPhone(p)'
    BY DEF GwInv, GwPhone
  <1> QED
    BY <1>1, <1>2

\* What a request leaves of the table: what commits now, and what may commit later.
LEMMA GwRequest ==
    ASSUME GwInv, Gw!GatewayBounds, NEW a \in Accounts, NEW value \in GwRevs, Gw!Request(a, value)
    PROVE  /\ writer.pc = "idle" /\ writes < MaxWrites /\ writes' = writes + 1 /\ born' = born \cup {a}
           /\ value # 0 => /\ value >= floor[a] /\ value >= db[a] /\ rev[a] <= value /\ policies[a] <= value
                           /\ pol[a] = 0 => rev[a] < value
                           /\ db[a] = 0 => a \notin born
  <1>1. /\ writer.pc = "idle" /\ writes < MaxWrites /\ writes' = writes + 1 /\ born' = born \cup {a}
        /\ \/ a \notin born /\ value = 1
           \/ db[a] # 0 /\ value \in {db[a], db[a] + 1}
           \/ value = 0
    BY DEF Gw!Request
  <1>2. /\ GwAccount(a) /\ db[a] \in Nat /\ floor[a] \in Nat /\ rev[a] \in Nat /\ policies[a] \in Nat /\ value \in Nat
        /\ pol[a] \in Nat
    BY DEF GwInv, GwTypes, GwRevs, Gw!GatewayBounds
  <1> QED
    BY <1>1, <1>2 DEF GwAccount

\* The table changes; nobody else has seen it.
LEMMA GwCommit ==
    ASSUME GwInv, Gw!GatewayBounds, NEW a \in Accounts, NEW value \in GwRevs,
           Gw!Commit(a, value) \/ Gw!CommitUnconfirmed(a, value)
    PROVE  GwInv'
  <1>1. /\ Gw!Request(a, value) /\ late = None
        /\ UNCHANGED <<refresher, epoch, gwReady, accounts, policies, pol, rev, grant, call, reg, invite, floor>>
        /\ \/ /\ db' = [db EXCEPT ![a] = value] /\ late' = None
              /\ writer' = [pc |-> "apply", account |-> a, value |-> value]
           \/ /\ writer' = [pc |-> "suspend", account |-> a, value |-> value]
              /\ \/ db' = [db EXCEPT ![a] = value] /\ late' = None
                 \/ db' = db /\ late' \in {None, [account |-> a, value |-> value]}
    BY DEF Gw!Commit, Gw!CommitUnconfirmed, Gw!AdvisoryLock, Gw!gateway, Gw!router
  <1>2. /\ writer.pc = "idle" /\ writes < MaxWrites /\ writes' = writes + 1 /\ born' = born \cup {a}
        /\ value # 0 => /\ value >= floor[a] /\ value >= db[a] /\ rev[a] <= value /\ policies[a] <= value
                        /\ pol[a] = 0 => rev[a] < value
                        /\ db[a] = 0 => a \notin born
    BY <1>1, GwRequest
  <1>3. GwTypes /\ MaxWrites \in Nat
    BY DEF GwInv, Gw!GatewayBounds
  <1>4. /\ db' \in [Accounts -> GwRevs] /\ db'[a] \in {value, db[a]}
        /\ \A b \in Accounts : b # a => db'[b] = db[b]
    BY <1>1, <1>3 DEF GwTypes
  <1>5. /\ late' = None \/ (late' = [account |-> a, value |-> value] /\ db' = db)
        /\ late' = None \/ late' \in [account : Accounts, value : GwRevs]
        /\ writer' \in [pc : {"idle", "apply", "suspend", "refresh"}, account : Accounts \cup {None}, value : GwRevs]
        /\ writer'.account = a /\ writer'.pc \in {"apply", "suspend"}
        /\ writer'.pc = "apply" => late' = None /\ db'[a] = value /\ writer'.value = value
        /\ late' # None => late'.account = a /\ late'.value = value
    BY <1>1, <1>3 DEF GwTypes
  <1>6. GwTypes'
    <2>1. writes' \in Nat /\ epoch <= writes' /\ writes' <= MaxWrites /\ epoch < writes'
      BY <1>2, <1>3 DEF GwTypes
    <2>2. born' \subseteq Accounts
      BY <1>2, <1>3 DEF GwTypes
    <2> QED
      BY <1>1, <1>3, <1>4, <1>5, <2>1, <2>2 DEF GwTypes
  <1>7. GwWriter'
    BY <1>2, <1>5 DEF GwWriter
  <1>8. ASSUME NEW b \in Accounts
        PROVE  /\ db'[b] # 0 => /\ b \in born' /\ db'[b] >= floor[b] /\ rev[b] <= db'[b] /\ policies[b] <= db'[b]
                                /\ pol[b] = 0 => rev[b] < db'[b]
               /\ b \notin born' => b \notin born /\ db'[b] = 0
               /\ b \notin born' \/ Creating(b)' => b \notin born /\ rev[b] = 0 /\ policies[b] = 0
               /\ late' # None /\ late'.account = b =>
                      /\ b \in born'
                      /\ late'.value # 0 => late'.value >= floor[b] /\ late'.value >= db'[b]
    <2>1. GwAccount(b)
      BY DEF GwInv
    <2>2. CASE b = a
      BY <1>1, <1>2, <1>4, <1>5, <2>1, <2>2 DEF GwAccount, Creating
    <2>3. CASE b # a
      BY <1>1, <1>2, <1>4, <1>5, <2>1, <2>3 DEF GwAccount, Creating
    <2> QED
      BY <2>2, <2>3
  <1>9. (\A b \in Accounts : GwAccount(b)') /\ \A p \in Phones : GwPhone(p)'
    BY <1>1, <1>8, GwSame
  <1>10. GwRefreshers'
    <2>1. ASSUME NEW x \in {"ticker", "api"}, Live(x)'
          PROVE  GwSnapshot(refresher[x].snapshot)'
      <3>1. Live(x)
        BY <1>1, <2>1 DEF Live
      <3> DEFINE s == refresher[x].snapshot
      <3>2. GwSnapshot(s) /\ s \in [Accounts -> GwRevs]
        BY <1>3, <3>1 DEF GwInv, GwRefreshers, Live, GwTypes
      <3>3. ASSUME NEW b \in Accounts
            PROVE  /\ s[b] # 0 => s[b] >= floor'[b]
                   /\ db'[b] # 0 => s[b] <= db'[b] /\ s[b] >= rev'[b] /\ s[b] >= policies'[b]
                   /\ b \notin born' \/ Creating(b)' => s[b] = 0
        <4>1. /\ s[b] \in Nat /\ db[b] \in Nat /\ db'[b] \in Nat /\ rev[b] \in Nat /\ policies[b] \in Nat
              /\ value \in Nat
          BY <1>3, <1>4, <3>2 DEF GwTypes, GwRevs
        <4>2. /\ s[b] # 0 => s[b] >= floor[b]
              /\ db[b] # 0 => s[b] <= db[b] /\ s[b] >= rev[b] /\ s[b] >= policies[b]
              /\ b \notin born => s[b] = 0 /\ rev[b] = 0 /\ policies[b] = 0
          BY <3>2 DEF GwSnapshot, GwInv, GwAccount
        <4>3. db'[b] # 0 => db'[b] >= db[b] /\ (db[b] # 0 \/ b \notin born)
          BY <1>2, <1>4, <4>1
        <4> QED
          BY <1>1, <1>8, <4>1, <4>2, <4>3
      <3>4. UNCHANGED refresher
        BY <1>1
      <3> QED
        BY <3>3, <3>4 DEF GwSnapshot
    <2>2. refresher["api"].pc = "idle"
      BY <1>2 DEF GwInv, GwRefreshers
    <2> QED
      BY <1>1, <1>5, <2>1, <2>2 DEF GwRefreshers, GwInv
  <1> QED
    BY <1>6, <1>7, <1>9, <1>10 DEF GwInv

\* A step that leaves the table, the registrar and the router alone.
LEMMA GwQuiet ==
    ASSUME GwInv, UNCHANGED <<db, born, late, accounts, policies, pol, rev, grant, call, reg, floor>>
    PROVE  /\ \A a \in Accounts : GwAccount(a)'
           /\ UNCHANGED invite => \A p \in Phones : GwPhone(p)'
  BY DEF GwInv, GwAccount, Creating, GwPhone

\* A credential that a live snapshot may carry stays one while the table keeps its rows.
LEMMA GwFresh ==
    ASSUME GwInv, Gw!GatewayBounds, UNCHANGED <<db, born, late, floor, refresher, epoch>>,
           NEW x \in {"ticker", "api"}, Live(x)',
           \A a \in Accounts : /\ rev'[a] \in {rev[a], policies[a]}
                               /\ policies'[a] = policies[a]
    PROVE  GwSnapshot(refresher[x].snapshot)'
  <1>1. Live(x)
    BY DEF Live
  <1>2. GwSnapshot(refresher[x].snapshot)
    BY <1>1 DEF GwInv, GwRefreshers
  <1> QED
    BY <1>2 DEF GwSnapshot, Creating

\* The table changes late, or does not.
LEMMA GwLate ==
    ASSUME GwInv, Gw!GatewayBounds, Gw!LateCommit
    PROVE  GwInv'
  <1> DEFINE a == late.account
             value == late.value
  <1>1. /\ late # None /\ late' = None
        /\ UNCHANGED <<born, writer, refresher, epoch, gwReady, accounts, policies, pol, rev, grant, call,
                       reg, invite, floor, writes>>
        /\ db' = [db EXCEPT ![a] = value] \/ db' = db
    BY DEF Gw!LateCommit, Gw!gateway, Gw!router
  <1>2. GwTypes /\ a \in Accounts /\ value \in GwRevs
    BY <1>1 DEF GwInv, GwTypes
  <1>3. /\ db' \in [Accounts -> GwRevs] /\ db'[a] \in {value, db[a]}
        /\ \A b \in Accounts : b # a => db'[b] = db[b]
    BY <1>1, <1>2 DEF GwTypes
  <1>4. GwTypes'
    BY <1>1, <1>2, <1>3 DEF GwTypes
  <1>5. GwWriter /\ writer.pc \in {"idle", "suspend"}
    BY <1>1, <1>2 DEF GwInv, GwWriter, GwTypes
  <1>6. GwWriter'
    BY <1>1, <1>5 DEF GwWriter
  <1>7. /\ value \in Nat /\ a \in born /\ (value # 0 => value >= floor[a] /\ value >= db[a])
        /\ value # 0 /\ db[a] = 0 => rev[a] = 0 /\ policies[a] = 0
        /\ \A b \in Accounts : GwAccount(b) /\ db[b] \in Nat /\ floor[b] \in Nat /\ rev[b] \in Nat
                               /\ policies[b] \in Nat
    BY <1>1, <1>2 DEF GwInv, GwTypes, GwAccount, Creating, GwRevs, Gw!GatewayBounds
  <1> HIDE DEF a, value
  <1>8. ASSUME NEW b \in Accounts
        PROVE  /\ db'[b] # 0 => /\ b \in born' /\ db'[b] >= floor[b] /\ rev[b] <= db'[b] /\ policies[b] <= db'[b]
                                /\ pol[b] = 0 => rev[b] < db'[b]
               /\ b \notin born' => b \notin born /\ db'[b] = 0
               /\ b \notin born' \/ Creating(b)' => rev[b] = 0 /\ policies[b] = 0
               /\ late' # None /\ late'.account = b =>
                      /\ b \in born'
                      /\ late'.value # 0 => late'.value >= floor[b] /\ late'.value >= db'[b]
    <2>1. CASE b = a
      BY <1>1, <1>3, <1>7, <2>1 DEF GwAccount, Creating
    <2>2. CASE b # a
      BY <1>1, <1>3, <1>7, <2>2 DEF GwAccount, Creating
    <2> QED
      BY <2>1, <2>2
  <1>9. (\A b \in Accounts : GwAccount(b)') /\ \A p \in Phones : GwPhone(p)'
    BY <1>1, <1>8, GwSame
  <1>10. GwRefreshers'
    <2>1. ASSUME NEW x \in {"ticker", "api"}, Live(x)'
          PROVE  GwSnapshot(refresher[x].snapshot)'
      <3> DEFINE s == refresher[x].snapshot
      <3>1. GwSnapshot(s) /\ s \in [Accounts -> GwRevs] /\ UNCHANGED refresher
        BY <1>1, <1>2, <2>1 DEF GwInv, GwRefreshers, Live, GwTypes
      <3> HIDE DEF s
      <3>2. ASSUME NEW b \in Accounts
            PROVE  /\ s[b] # 0 => s[b] >= floor'[b]
                   /\ db'[b] # 0 => s[b] <= db'[b] /\ s[b] >= rev'[b] /\ s[b] >= policies'[b]
                   /\ b \notin born' \/ Creating(b)' => s[b] = 0
        <4>1. s[b] \in Nat
          BY <1>2, <3>1 DEF GwRevs
        <4>2. /\ s[b] # 0 => s[b] >= floor[b]
              /\ db[b] # 0 => s[b] <= db[b] /\ s[b] >= rev[b] /\ s[b] >= policies[b]
              /\ b \notin born \/ (b = a /\ value # 0 /\ db[b] = 0) => s[b] = 0
          BY <1>1, <3>1 DEF GwSnapshot, Creating, a, value
        <4>3. CASE b = a
          BY <1>1, <1>3, <1>7, <4>1, <4>2, <4>3 DEF Creating
        <4>4. CASE b # a
          BY <1>1, <1>3, <1>7, <4>1, <4>2, <4>4 DEF Creating
        <4> QED
          BY <4>3, <4>4
      <3> QED
        BY <3>1, <3>2 DEF GwSnapshot, s
    <2> QED
      BY <1>1, <1>5, <2>1 DEF GwRefreshers, GwInv
  <1> QED
    BY <1>4, <1>6, <1>9, <1>10 DEF GwInv

\* One account changes at once: every snapshot being read is fenced, and every view follows.
LEMMA GwApplied ==
    ASSUME GwInv, Gw!GatewayBounds, NEW a \in Accounts, NEW account \in GwRevs, NEW newPol \in GwRevs,
           NEW f \in 0 .. MaxCred + 1,
           Gw!applyAccountLocked(a, account, newPol),
           UNCHANGED <<db, born, late, refresher, gwReady, writes>>, floor' = [floor EXCEPT ![a] = f],
           epoch < writes, writer.pc # "refresh", a \in born,
           writer' \in [pc : {"idle", "refresh"}, account : Accounts \cup {None}, value : GwRevs], GwWriter',
           writer'.pc \in {"idle", "refresh"},
           account \in {0, newPol}, account # 0 => account >= f,
           db[a] # 0 => db[a] >= f /\ newPol <= db[a] /\ (pol[a] # 0 => newPol >= rev[a]),
           Creating(a) => newPol = 0,
           late # None /\ late.account = a /\ late.value # 0 => late.value >= f
    PROVE  GwInv'
  <1>1. GwTypes
    BY DEF GwInv
  <1>2. /\ epoch' = epoch + 1
        /\ accounts' = [accounts EXCEPT ![a] = account] /\ policies' = [policies EXCEPT ![a] = newPol]
        /\ Gw!Replace(accounts', {}) /\ Gw!ForgetBindings
        /\ Gw!syncLocked(accounts', policies') /\ call' = Gw!CallsLeft(accounts', policies')
    BY DEF Gw!applyAccountLocked, Gw!SyncOnly
  <1>3. accounts' \in [Accounts -> GwRevs] /\ policies' \in [Accounts -> GwRevs]
    BY <1>1, <1>2 DEF GwTypes
  <1>4. /\ reg' \in [Phones -> {None} \cup GwBinding]
        /\ invite' \in [Phones -> {None} \cup [account : Accounts, bound : BOOLEAN, revision : 1 .. MaxCred]]
        /\ \A p \in Phones :
              /\ reg'[p] # None => reg'[p] = reg[p] /\ reg'[p].revision = accounts'[reg'[p].account]
              /\ invite'[p] # None /\ invite'[p].bound => reg'[p] # None /\ reg'[p].account = invite'[p].account
    BY <1>2, <1>3, GwReplace
  <1>5. ASSUME NEW b \in Accounts
        PROVE  /\ accounts'[b] \in {0, policies'[b]}
               /\ accounts'[b] # 0 => accounts'[b] >= floor'[b]
               /\ db[b] # 0 => /\ db[b] >= floor'[b]
                               /\ policies'[b] <= db[b] /\ (pol[b] # 0 => policies'[b] >= rev[b])
               /\ b \notin born \/ Creating(b) => policies'[b] = 0
               /\ b \notin born => floor'[b] = 0
               /\ late # None /\ late.account = b /\ late.value # 0 => late.value >= floor'[b]
    <2>1. /\ GwAccount(b) /\ policies[b] \in Nat /\ rev[b] \in Nat
      BY <1>1 DEF GwInv, GwTypes, GwRevs, Gw!GatewayBounds
    <2>2. CASE b = a
      BY <1>1, <1>2, <2>1, <2>2 DEF GwTypes
    <2>3. CASE b # a
      <3>1. accounts'[b] = accounts[b] /\ policies'[b] = policies[b] /\ floor'[b] = floor[b]
        BY <1>1, <1>2, <2>3 DEF GwTypes
      <3> QED
        BY <2>1, <3>1 DEF GwAccount
    <2> QED
      BY <2>2, <2>3
  <1>6. /\ pol' \in [Accounts -> GwRevs] /\ rev' \in [Accounts -> GwRevs] /\ grant' \in [Phones -> GwRevs]
        /\ Gw!CallsLeft(accounts', policies') \in [Accounts -> GwRevs]
        /\ \A b \in Accounts : GwAccount(b)'
        /\ \A p \in Phones : GwPhone(p)'
    <2>1. \A b \in Accounts : call'[b] # 0 => call'[b] = Gw!CallsLeft(accounts', policies')[b]
      BY <1>2
    <2>2. /\ GwInv /\ Gw!GatewayBounds /\ UNCHANGED <<db, born, late>>
          /\ Gw!syncLocked(accounts', policies')
      BY <1>2
    <2> QED
      BY <1>3, <1>4, <1>5, <2>1, <2>2, GwSynced
  <1>7. GwTypes'
    <2>1. epoch' \in Nat /\ epoch' <= writes' /\ \A x \in {"ticker", "api"} : refresher'[x].epoch <= epoch'
      BY <1>1, <1>2 DEF GwTypes
    <2>2. floor' \in [Accounts -> 0 .. MaxCred + 1]
      BY <1>1 DEF GwTypes
    <2>3. writer'.pc \notin {"apply", "suspend"}
      OBVIOUS
    <2>4. call' \in [Accounts -> GwRevs]
      BY <1>2, <1>6
    <2>5. writer' \in [pc : {"idle", "apply", "suspend", "refresh"}, account : Accounts \cup {None}, value : GwRevs]
      OBVIOUS
    <2> QED
      BY <1>1, <1>3, <1>4, <1>6, <2>1, <2>2, <2>3, <2>4, <2>5 DEF GwTypes
  <1>8. GwRefreshers'
    <2>1. \A x \in {"ticker", "api"} : ~ Live(x)'
      BY <1>1, <1>2 DEF GwTypes, Live
    <2>2. refresher["api"].pc = "idle"
      BY DEF GwInv, GwRefreshers
    <2> QED
      BY <2>1, <2>2 DEF GwRefreshers, GwInv
  <1> QED
    BY <1>6, <1>7, <1>8 DEF GwInv

\* The committed change takes effect.
LEMMA GwApply ==
    ASSUME GwInv, Gw!GatewayBounds, Gw!Apply
    PROVE  GwInv'
  <1> DEFINE a == writer.account
             value == writer.value
  <1>1. /\ writer.pc = "apply" /\ Gw!applyAccountLocked(a, value, value)
        /\ floor' = [floor EXCEPT ![a] = Gw!Floor(value)]
        /\ writer' = [writer EXCEPT !.pc = "refresh"]
        /\ UNCHANGED <<db, born, late, refresher, gwReady, writes>>
    BY DEF Gw!Apply, Gw!table
  <1>2. GwTypes /\ GwWriter /\ epoch < writes /\ MaxCred \in Nat
    BY <1>1 DEF GwInv, GwTypes, Gw!GatewayBounds
  <1>3. a \in Accounts /\ a \in born /\ late = None /\ db[a] = value /\ value \in GwRevs
    BY <1>1, <1>2 DEF GwWriter, GwTypes
  <1>4. /\ Gw!Floor(value) \in 0 .. MaxCred + 1 /\ (value # 0 => Gw!Floor(value) = value)
        /\ value \in Nat
    BY <1>2, <1>3 DEF Gw!Floor, GwRevs
  <1>5. /\ writer' \in [pc : {"idle", "refresh"}, account : Accounts \cup {None}, value : GwRevs]
        /\ writer'.pc = "refresh" /\ writer'.account = a
    BY <1>1, <1>2 DEF GwTypes
  <1>6. GwWriter'
    BY <1>1, <1>3, <1>5 DEF GwWriter
  <1>7. /\ value # 0 => value >= Gw!Floor(value)
        /\ db[a] # 0 => /\ db[a] >= Gw!Floor(value) /\ value <= db[a]
                        /\ pol[a] # 0 => value >= rev[a]
        /\ ~ Creating(a)
    <2>1. GwAccount(a) /\ rev[a] \in Nat
      BY <1>2, <1>3 DEF GwInv, GwTypes, GwRevs
    <2> QED
      BY <1>3, <1>4, <2>1 DEF GwAccount, Creating
  <1> DEFINE f == Gw!Floor(value)
  <1> HIDE DEF a, value, f
  <1>8. f \in 0 .. MaxCred + 1 /\ f = Gw!Floor(value)
    BY <1>4 DEF f
  <1> QED
    BY <1>1, <1>2, <1>3, <1>5, <1>6, <1>7, <1>8, GwApplied

\* The account of a change whose outcome nobody knows is suspended.
LEMMA GwSuspend ==
    ASSUME GwInv, Gw!GatewayBounds, Gw!suspendAccountLocked
    PROVE  GwInv'
  <1> DEFINE a == writer.account
             f == IF late = None THEN Gw!Floor(db[a]) ELSE db[a]
             newPol == policies[a]
  <1>1. /\ writer.pc = "suspend" /\ Gw!applyAccountLocked(a, 0, newPol)
        /\ floor' = [floor EXCEPT ![a] = f]
        /\ writer' = [pc |-> "idle", account |-> None, value |-> 0]
        /\ UNCHANGED <<db, born, late, refresher, gwReady, writes>>
    BY DEF Gw!suspendAccountLocked, Gw!table
  <1>2. GwTypes /\ GwWriter /\ epoch < writes /\ MaxCred \in Nat
    BY <1>1 DEF GwInv, GwTypes, Gw!GatewayBounds
  <1>3. a \in Accounts /\ a \in born
    BY <1>1, <1>2 DEF GwWriter, GwTypes
  <1>4. /\ db[a] \in GwRevs /\ db[a] \in Nat /\ newPol \in GwRevs /\ rev[a] \in Nat /\ newPol \in Nat /\ GwAccount(a)
        /\ 0 \in GwRevs
    BY <1>2, <1>3 DEF GwInv, GwTypes, GwRevs
  <1>5. f \in 0 .. MaxCred + 1 /\ (db[a] # 0 => f = db[a]) /\ (late # None => f = db[a])
    BY <1>2, <1>4 DEF Gw!Floor, GwRevs
  <1>6. /\ writer' \in [pc : {"idle", "refresh"}, account : Accounts \cup {None}, value : GwRevs]
        /\ writer'.pc = "idle" /\ GwWriter'
    BY <1>1, <1>4 DEF GwWriter
  <1>7. /\ db[a] # 0 => /\ db[a] >= f /\ newPol <= db[a] /\ (pol[a] # 0 => newPol >= rev[a])
        /\ Creating(a) => newPol = 0
        /\ late # None /\ late.account = a /\ late.value # 0 => late.value >= f
    BY <1>4, <1>5 DEF GwAccount
  <1> HIDE DEF a, f, newPol
  <1> QED
    BY <1>1, <1>2, <1>3, <1>4, <1>5, <1>6, <1>7, GwApplied

\* One caller of refresh moves on, and whatever is served stays.
LEMMA GwReading ==
    ASSUME GwInv, Gw!GatewayBounds, NEW x \in {"ticker", "api"},
           UNCHANGED <<db, born, late, epoch, accounts, policies, pol, rev, grant, call, reg, invite, floor, writes>>,
           gwReady' \in BOOLEAN,
           NEW r \in [epoch : Nat, pc : {"idle", "read", "apply"}, snapshot : {None} \cup [Accounts -> GwRevs]],
           refresher' = [refresher EXCEPT ![x] = r], r.epoch <= epoch,
           r.pc # "apply" \/ r.snapshot \in {None, db}, r.pc = "read" => r.snapshot = None,
           \/ writer' = writer /\ (x = "api" /\ r.pc # "idle" => writer.pc = "refresh")
           \/ x = "api" /\ r.pc = "idle" /\ writer' = [pc |-> "idle", account |-> None, value |-> 0]
    PROVE  GwInv'
  <1>1. GwTypes /\ 0 \in GwRevs
    BY DEF GwInv, GwTypes, GwRevs, Gw!GatewayBounds
  <1>2. /\ refresher' \in [{"ticker", "api"} -> [epoch : Nat, pc : {"idle", "read", "apply"},
                                                 snapshot : {None} \cup [Accounts -> GwRevs]]]
        /\ refresher'[x] = r /\ \A y \in {"ticker", "api"} : y # x => refresher'[y] = refresher[y]
    BY <1>1 DEF GwTypes
  <1>3. /\ writer' \in [pc : {"idle", "apply", "suspend", "refresh"}, account : Accounts \cup {None}, value : GwRevs]
        /\ writer' = writer \/ (writer'.pc = "idle" /\ x = "api" /\ r.pc = "idle")
    BY <1>1 DEF GwTypes
  <1>4. GwTypes'
    BY <1>1, <1>2, <1>3 DEF GwTypes
  <1>5. GwWriter'
    BY <1>3 DEF GwInv, GwWriter
  <1>6. (\A a \in Accounts : GwAccount(a)') /\ \A p \in Phones : GwPhone(p)'
    BY GwQuiet
  <1>7. ASSUME NEW a \in Accounts
        PROVE  GwAccount(a) /\ db[a] \in Nat
    BY <1>1 DEF GwInv, GwTypes, GwRevs, Gw!GatewayBounds
  <1>8. GwSnapshot(db)
    BY <1>7 DEF GwSnapshot, GwAccount, Creating
  <1>9. ASSUME NEW y \in {"ticker", "api"}, Live(y)'
        PROVE  /\ GwSnapshot(refresher[y].snapshot)'
               /\ writer'.pc = "refresh" => refresher'[y].snapshot = db'
    <2>1. CASE y = x
      <3>1. refresher'[y].snapshot = db
        BY <1>2, <1>9, <2>1 DEF Live
      <3> QED
        BY <1>8, <3>1 DEF GwSnapshot, Creating
    <2>2. CASE y # x
      <3>1. Live(y) /\ refresher'[y] = refresher[y]
        BY <1>2, <1>9, <2>2 DEF Live
      <3>2. /\ GwSnapshot(refresher[y].snapshot)
            /\ writer.pc = "refresh" => refresher[y].snapshot = db
        BY <3>1 DEF GwInv, GwRefreshers
      <3>3. GwSnapshot(refresher[y].snapshot)'
        BY <3>1, <3>2 DEF GwSnapshot, Creating
      <3> QED
        BY <1>3, <3>1, <3>2, <3>3
    <2> QED
      BY <2>1, <2>2
  <1>10. refresher'["api"].pc # "idle" => writer'.pc = "refresh"
    BY <1>2, <1>3 DEF GwInv, GwRefreshers
  <1>11. GwRefreshers'
    <2>1. \A y \in {"ticker", "api"} : refresher'[y].pc = "read" => refresher'[y].snapshot = None
      BY <1>2 DEF GwInv, GwRefreshers
    <2> QED
      BY <1>9, <1>10, <2>1 DEF GwRefreshers, GwSnapshot, Creating
  <1> QED
    BY <1>4, <1>5, <1>6, <1>11 DEF GwInv

\* A refresh begins, reads the table, or ends without applying what it read.
LEMMA GwRefreshing ==
    ASSUME GwInv, Gw!GatewayBounds, NEW x \in {"ticker", "api"},
           \/ Gw!RefreshBegin(x) \/ Gw!readSnapshot(x) \/ Gw!RefreshFenced(x) \/ Gw!RefreshFailed(x)
    PROVE  GwInv'
  <1>1. GwTypes
    BY DEF GwInv
  <1>2. /\ refresher[x] \in [epoch : Nat, pc : {"idle", "read", "apply"},
                             snapshot : {None} \cup [Accounts -> GwRevs]]
        /\ refresher[x].epoch <= epoch /\ epoch \in Nat /\ db \in [Accounts -> GwRevs] /\ gwReady \in BOOLEAN
        /\ DOMAIN refresher = {"ticker", "api"}
    BY <1>1 DEF GwTypes
  <1>3. CASE Gw!RefreshBegin(x)
    <2> DEFINE r == [epoch |-> epoch, pc |-> "read", snapshot |-> None]
    <2>1. /\ UNCHANGED <<db, born, late, epoch, accounts, policies, pol, rev, grant, call, reg, invite, floor, writes>>
          /\ gwReady' \in BOOLEAN /\ writer' = writer /\ refresher' = [refresher EXCEPT ![x] = r]
          /\ x = "api" => writer.pc = "refresh"
      BY <1>2, <1>3 DEF Gw!RefreshBegin, Gw!table, Gw!gateway, Gw!router
    <2>2. /\ r \in [epoch : Nat, pc : {"idle", "read", "apply"}, snapshot : {None} \cup [Accounts -> GwRevs]]
          /\ r.epoch <= epoch /\ r.pc = "read" /\ r.snapshot = None
      BY <1>2
    <2> HIDE DEF r
    <2> QED
      BY <2>1, <2>2, GwReading
  <1>4. CASE Gw!readSnapshot(x)
    <2>1. /\ UNCHANGED <<db, born, late, epoch, accounts, policies, pol, rev, grant, call, reg, invite, floor, writes>>
          /\ gwReady' \in BOOLEAN /\ writer' = writer /\ refresher[x].pc = "read"
      BY <1>2, <1>4 DEF Gw!readSnapshot, Gw!table, Gw!gateway, Gw!router
    <2>2. x = "api" => writer.pc = "refresh"
      BY <2>1 DEF GwInv, GwRefreshers
    <2>3. CASE refresher' = [refresher EXCEPT ![x].pc = "apply", ![x].snapshot = db]
      <3> DEFINE r == [refresher[x] EXCEPT !.pc = "apply", !.snapshot = db]
      <3>1. /\ r \in [epoch : Nat, pc : {"idle", "read", "apply"}, snapshot : {None} \cup [Accounts -> GwRevs]]
            /\ r.epoch <= epoch /\ r.pc = "apply" /\ r.snapshot = db
        BY <1>2
      <3>2. refresher' = [refresher EXCEPT ![x] = r]
        BY <1>2, <2>3
      <3>3. x = "api" /\ r.pc # "idle" => writer.pc = "refresh"
        BY <2>2
      <3> HIDE DEF r
      <3> QED
        BY <2>1, <3>1, <3>2, <3>3, GwReading
    <2>4. CASE refresher' = [refresher EXCEPT ![x].pc = "apply"]
      <3> DEFINE r == [refresher[x] EXCEPT !.pc = "apply"]
      <3>1. refresher[x].snapshot = None
        BY <2>1 DEF GwInv, GwRefreshers
      <3>2. /\ r \in [epoch : Nat, pc : {"idle", "read", "apply"}, snapshot : {None} \cup [Accounts -> GwRevs]]
            /\ r.epoch <= epoch /\ r.pc = "apply" /\ r.snapshot = None
        BY <1>2, <3>1
      <3>3. refresher' = [refresher EXCEPT ![x] = r]
        BY <1>2, <2>4
      <3>4. x = "api" /\ r.pc # "idle" => writer.pc = "refresh"
        BY <2>2
      <3> HIDE DEF r
      <3> QED
        BY <2>1, <3>2, <3>3, <3>4, GwReading
    <2> QED
      BY <1>4, <2>3, <2>4 DEF Gw!readSnapshot
  <1>5. CASE Gw!RefreshFenced(x) \/ Gw!RefreshFailed(x)
    <2> DEFINE r == Gw!Idle
    <2>1. /\ UNCHANGED <<db, born, late, epoch, accounts, policies, pol, rev, grant, call, reg, invite, floor, writes>>
          /\ gwReady' \in BOOLEAN /\ refresher' = [refresher EXCEPT ![x] = r]
          /\ writer' = IF x = "api" THEN [pc |-> "idle", account |-> None, value |-> 0] ELSE writer
      BY <1>2, <1>5 DEF Gw!RefreshFenced, Gw!RefreshFailed, Gw!RefreshDone, Gw!table, Gw!gateway, Gw!router
    <2>2. /\ r \in [epoch : Nat, pc : {"idle", "read", "apply"}, snapshot : {None} \cup [Accounts -> GwRevs]]
          /\ r.epoch <= epoch /\ r.pc = "idle"
      BY <1>2 DEF Gw!Idle
    <2> HIDE DEF r
    <2> QED
      BY <2>1, <2>2, GwReading
  <1> QED
    BY <1>3, <1>4, <1>5

\* A snapshot that no change has fenced becomes what everybody serves.
LEMMA GwServed ==
    ASSUME GwInv, Gw!GatewayBounds, NEW x \in {"ticker", "api"}, NEW dark \in SUBSET Accounts, NEW offline,
           Gw!applySnapshotLocked(x, dark, offline)
    PROVE  GwInv'
  <1> DEFINE s == refresher[x].snapshot
  <1>1. GwTypes /\ 0 \in GwRevs
    BY DEF GwInv, GwTypes, GwRevs, Gw!GatewayBounds
  <1>2. /\ Live(x) /\ accounts' = [a \in Accounts |-> IF a \in dark THEN 0 ELSE s[a]] /\ policies' = s
        /\ Gw!Replace(accounts', offline) /\ Gw!ForgetBindings
        /\ Gw!syncLocked(accounts', policies') /\ call' = Gw!CallsLeft(accounts', policies')
        /\ gwReady' = TRUE /\ UNCHANGED <<db, born, late, epoch, floor, writes>>
        /\ refresher' = [refresher EXCEPT ![x] = Gw!Idle]
        /\ writer' = IF x = "api" THEN [pc |-> "idle", account |-> None, value |-> 0] ELSE writer
    BY DEF Gw!applySnapshotLocked, Gw!SyncOnly, Gw!RefreshDone, Gw!Fenced, Gw!table, Live
  <1>3. GwSnapshot(s) /\ s \in [Accounts -> GwRevs]
    BY <1>1, <1>2 DEF GwInv, GwRefreshers, Live, GwTypes
  <1>4. accounts' \in [Accounts -> GwRevs] /\ policies' \in [Accounts -> GwRevs]
    BY <1>1, <1>2, <1>3
  <1>5. /\ reg' \in [Phones -> {None} \cup GwBinding]
        /\ invite' \in [Phones -> {None} \cup [account : Accounts, bound : BOOLEAN, revision : 1 .. MaxCred]]
        /\ \A p \in Phones :
              /\ reg'[p] # None => reg'[p] = reg[p] /\ reg'[p].revision = accounts'[reg'[p].account]
              /\ invite'[p] # None /\ invite'[p].bound => reg'[p] # None /\ reg'[p].account = invite'[p].account
    BY <1>2, <1>4, GwReplace
  <1>6. ASSUME NEW b \in Accounts
        PROVE  /\ accounts'[b] \in {0, policies'[b]}
               /\ accounts'[b] # 0 => accounts'[b] >= floor'[b]
               /\ db[b] # 0 => /\ db[b] >= floor'[b]
                               /\ policies'[b] <= db[b] /\ (pol[b] # 0 => policies'[b] >= rev[b])
               /\ b \notin born \/ Creating(b) => policies'[b] = 0
               /\ b \notin born => floor'[b] = 0
               /\ late # None /\ late.account = b /\ late.value # 0 => late.value >= floor'[b]
    <2>1. GwAccount(b) /\ accounts'[b] \in {0, s[b]} /\ policies'[b] = s[b]
      BY <1>2 DEF GwInv
    <2> HIDE DEF s
    <2> QED
      BY <1>2, <1>3, <2>1 DEF GwAccount, GwSnapshot
  <1>7. /\ pol' \in [Accounts -> GwRevs] /\ rev' \in [Accounts -> GwRevs] /\ grant' \in [Phones -> GwRevs]
        /\ Gw!CallsLeft(accounts', policies') \in [Accounts -> GwRevs]
        /\ \A b \in Accounts : GwAccount(b)' /\ rev'[b] \in {rev[b], policies'[b]}
        /\ \A p \in Phones : GwPhone(p)'
    <2>1. \A b \in Accounts : call'[b] # 0 => call'[b] = Gw!CallsLeft(accounts', policies')[b]
      BY <1>2
    <2>2. /\ GwInv /\ Gw!GatewayBounds /\ UNCHANGED <<db, born, late>>
          /\ Gw!syncLocked(accounts', policies')
      BY <1>2
    <2> QED
      BY <1>4, <1>5, <1>6, <2>1, <2>2, GwSynced
  <1>8. /\ Gw!Idle \in [epoch : Nat, pc : {"idle", "read", "apply"}, snapshot : {None} \cup [Accounts -> GwRevs]]
        /\ Gw!Idle.epoch = 0 /\ Gw!Idle.pc = "idle" /\ Gw!Idle.snapshot = None
    BY DEF Gw!Idle
  <1>9. /\ refresher' \in [{"ticker", "api"} -> [epoch : Nat, pc : {"idle", "read", "apply"},
                                                 snapshot : {None} \cup [Accounts -> GwRevs]]]
        /\ refresher'[x] = Gw!Idle /\ \A y \in {"ticker", "api"} : y # x => refresher'[y] = refresher[y]
        /\ \A y \in {"ticker", "api"} : refresher'[y].epoch <= epoch
    BY <1>1, <1>2, <1>8 DEF GwTypes
  <1>10. /\ writer' \in [pc : {"idle", "apply", "suspend", "refresh"}, account : Accounts \cup {None}, value : GwRevs]
         /\ writer' = writer \/ (writer'.pc = "idle" /\ x = "api")
    BY <1>1, <1>2 DEF GwTypes
  <1>11. GwTypes'
    <2>1. call' \in [Accounts -> GwRevs]
      BY <1>2, <1>7
    <2> QED
      BY <1>1, <1>2, <1>4, <1>5, <1>7, <1>9, <1>10, <2>1 DEF GwTypes
  <1>12. GwWriter'
    BY <1>2, <1>10 DEF GwInv, GwWriter
  <1>13. ASSUME NEW y \in {"ticker", "api"}, Live(y)'
         PROVE  GwSnapshot(refresher[y].snapshot)' /\ Live(y) /\ refresher'[y] = refresher[y]
    <2>1. y # x /\ refresher'[y] = refresher[y]
      BY <1>8, <1>9, <1>13 DEF Live
    <2>2. Live(y)
      BY <1>2, <1>13, <2>1 DEF Live
    <2>3. refresher[y].snapshot = s
      BY <1>2, <2>1, <2>2 DEF GwInv, GwRefreshers, Live
    <2>4. ASSUME NEW b \in Accounts
          PROVE  /\ s[b] # 0 => s[b] >= floor'[b]
                 /\ db'[b] # 0 => s[b] <= db'[b] /\ s[b] >= rev'[b] /\ s[b] >= policies'[b]
                 /\ b \notin born' \/ Creating(b)' => s[b] = 0
      <3>1. s[b] \in Nat /\ rev'[b] \in {rev[b], s[b]} /\ policies'[b] = s[b]
        BY <1>2, <1>3, <1>7 DEF GwRevs
      <3> HIDE DEF s
      <3> QED
        BY <1>2, <1>3, <3>1 DEF GwSnapshot, Creating
    <2> QED
      BY <2>1, <2>2, <2>3, <2>4 DEF GwSnapshot
  <1>14. GwRefreshers'
    BY <1>2, <1>8, <1>9, <1>10, <1>13 DEF GwInv, GwRefreshers
  <1> QED
    BY <1>7, <1>11, <1>12, <1>14 DEF GwInv

\* The table, the accounts and the refreshes stay; bindings, admissions and calls change.
LEMMA GwDialog ==
    ASSUME GwInv, Gw!GatewayBounds,
           UNCHANGED <<db, born, late, writer, refresher, epoch, accounts, policies, floor, writes>>,
           gwReady' \in BOOLEAN,
           pol' \in [Accounts -> GwRevs], rev' \in [Accounts -> GwRevs], call' \in [Accounts -> GwRevs],
           reg' \in [Phones -> {None} \cup GwBinding], grant' \in [Phones -> GwRevs],
           invite' \in [Phones -> {None} \cup [account : Accounts, bound : BOOLEAN, revision : 1 .. MaxCred]],
           \A a \in Accounts : GwAccount(a)' /\ rev'[a] \in {rev[a], policies[a]},
           \A p \in Phones : GwPhone(p)'
    PROVE  GwInv'
  <1>1. GwTypes'
    BY DEF GwInv, GwTypes
  <1>2. GwWriter'
    BY DEF GwInv, GwWriter
  <1>3. ASSUME NEW x \in {"ticker", "api"}, Live(x)'
        PROVE  GwSnapshot(refresher[x].snapshot)' /\ Live(x)
    BY <1>3, GwFresh DEF Live
  <1>4. GwRefreshers'
    BY <1>3 DEF GwInv, GwRefreshers
  <1> QED
    BY <1>1, <1>2, <1>4 DEF GwInv

\* A sync under unchanged accounts and policies.
LEMMA GwPhoneSync ==
    ASSUME GwInv, Gw!GatewayBounds,
           UNCHANGED <<db, born, late, writer, refresher, epoch, gwReady, accounts, policies, floor, writes>>,
           Gw!syncLocked(accounts, policies),
           call' \in [Accounts -> GwRevs],
           \A a \in Accounts : call'[a] # 0 => call'[a] = Gw!CallsLeft(accounts, policies)[a]
                                                \/ (call'[a] = accounts[a] /\ pol'[a] # 0),
           reg' \in [Phones -> {None} \cup GwBinding],
           invite' \in [Phones -> {None} \cup [account : Accounts, bound : BOOLEAN, revision : 1 .. MaxCred]],
           \A p \in Phones :
               /\ reg'[p] # None => reg'[p].revision = accounts[reg'[p].account] /\ (grant[p] # 0 => reg'[p] = reg[p])
               /\ invite'[p] # None /\ invite'[p].bound => reg'[p] # None /\ reg'[p].account = invite'[p].account
    PROVE  GwInv'
  <1>1. GwTypes
    BY DEF GwInv
  <1>2. accounts' \in [Accounts -> GwRevs] /\ policies' \in [Accounts -> GwRevs]
    BY <1>1 DEF GwTypes
  <1>3. ASSUME NEW b \in Accounts
        PROVE  /\ accounts'[b] \in {0, policies'[b]}
               /\ accounts'[b] # 0 => accounts'[b] >= floor'[b]
               /\ db[b] # 0 => /\ db[b] >= floor'[b]
                               /\ policies'[b] <= db[b] /\ (pol[b] # 0 => policies'[b] >= rev[b])
               /\ b \notin born \/ Creating(b) => policies'[b] = 0
               /\ b \notin born => floor'[b] = 0
               /\ late # None /\ late.account = b /\ late.value # 0 => late.value >= floor'[b]
    <2>1. GwAccount(b) /\ policies[b] \in Nat /\ rev[b] \in Nat
      BY <1>1 DEF GwInv, GwTypes, GwRevs, Gw!GatewayBounds
    <2> QED
      BY <2>1 DEF GwAccount
  <1>4. /\ GwInv /\ Gw!GatewayBounds /\ UNCHANGED <<db, born, late>>
        /\ Gw!syncLocked(accounts', policies')
        /\ Gw!CallsLeft(accounts', policies') = Gw!CallsLeft(accounts, policies)
        /\ accounts' = accounts /\ policies' = policies
    OBVIOUS
  <1>5. /\ pol' \in [Accounts -> GwRevs] /\ rev' \in [Accounts -> GwRevs] /\ grant' \in [Phones -> GwRevs]
        /\ \A b \in Accounts : GwAccount(b)' /\ rev'[b] \in {rev[b], policies'[b]}
        /\ \A p \in Phones : GwPhone(p)'
    <2>1. \A b \in Accounts : call'[b] # 0 => call'[b] = Gw!CallsLeft(accounts', policies')[b]
                                               \/ (call'[b] = accounts'[b] /\ pol'[b] # 0)
      BY <1>4
    <2>2. \A p \in Phones :
               /\ reg'[p] # None => reg'[p].revision = accounts'[reg'[p].account] /\ (grant[p] # 0 => reg'[p] = reg[p])
               /\ invite'[p] # None /\ invite'[p].bound => reg'[p] # None /\ reg'[p].account = invite'[p].account
      BY <1>4
    <2> QED
      BY <1>2, <1>3, <1>4, <2>1, <2>2, GwSynced
  <1>6. gwReady' \in BOOLEAN
    BY <1>1 DEF GwTypes
  <1> QED
    BY <1>4, <1>5, <1>6, GwDialog

\* What a sync leaves of the calls.
LEMMA GwLeft ==
    ASSUME GwInv, Gw!GatewayBounds
    PROVE  Gw!CallsLeft(accounts, policies) \in [Accounts -> GwRevs]
  BY DEF GwInv, GwTypes, Gw!CallsLeft, GwRevs, Gw!GatewayBounds

\* A phone registers.
LEMMA GwRegister ==
    ASSUME GwInv, Gw!GatewayBounds, NEW p \in Phones, NEW a \in Accounts, Gw!Register(p, a)
    PROVE  GwInv'
  <1>1. GwTypes
    BY DEF GwInv
  <1>2. /\ UNCHANGED <<db, born, late, writer, refresher, epoch, gwReady, accounts, policies, floor, writes, invite>>
        /\ Gw!syncLocked(accounts, policies) /\ call' = Gw!CallsLeft(accounts, policies)
        /\ accounts[a] # 0 /\ (reg[p] # None => reg[p].account = a)
        /\ reg' = [reg EXCEPT ![p] = [account |-> a, revision |-> accounts[a]]]
    BY DEF Gw!Register, Gw!SyncOnly, Gw!table, Gw!gateway
  <1>3. [account |-> a, revision |-> accounts[a]] \in GwBinding
    BY <1>1, <1>2 DEF GwTypes, GwRevs, GwBinding, Gw!GatewayBounds
  <1>4. reg' \in [Phones -> {None} \cup GwBinding]
    BY <1>1, <1>2, <1>3 DEF GwTypes
  <1>5. ASSUME NEW q \in Phones
        PROVE  /\ reg'[q] # None => reg'[q].revision = accounts[reg'[q].account] /\ (grant[q] # 0 => reg'[q] = reg[q])
               /\ invite'[q] # None /\ invite'[q].bound => reg'[q] # None /\ reg'[q].account = invite'[q].account
    <2>1. GwPhone(q)
      BY DEF GwInv
    <2>2. CASE q = p
      <3>1. reg'[q] = [account |-> a, revision |-> accounts[a]] /\ reg'[q] # None
        BY <1>1, <1>2, <1>3, <2>2 DEF GwTypes, GwBinding, Gw!GatewayBounds
      <3>2. reg[q] # None => reg[q] = [account |-> reg[q].account, revision |-> reg[q].revision]
        BY <1>1 DEF GwTypes, GwBinding
      <3> QED
        BY <1>2, <2>1, <2>2, <3>1, <3>2 DEF GwPhone
    <2>3. CASE q # p
      BY <1>1, <1>2, <2>1, <2>3 DEF GwPhone, GwTypes
    <2> QED
      BY <2>2, <2>3
  <1>6. /\ call' \in [Accounts -> GwRevs]
        /\ \A b \in Accounts : call'[b] # 0 => call'[b] = Gw!CallsLeft(accounts, policies)[b]
      BY <1>2, GwLeft
  <1>7. invite' \in [Phones -> {None} \cup [account : Accounts, bound : BOOLEAN, revision : 1 .. MaxCred]]
    BY <1>1, <1>2 DEF GwTypes
  <1> QED
    BY <1>2, <1>4, <1>5, <1>6, <1>7, GwPhoneSync

\* A binding goes, and the admission that came through it loses it.
LEMMA GwForget ==
    ASSUME GwInv, NEW p \in Phones, reg[p] # None, reg' = [reg EXCEPT ![p] = None], Gw!ForgetBindings
    PROVE  /\ reg' \in [Phones -> {None} \cup GwBinding]
           /\ invite' \in [Phones -> {None} \cup [account : Accounts, bound : BOOLEAN, revision : 1 .. MaxCred]]
           /\ \A q \in Phones :
                 /\ q # p => reg'[q] = reg[q]
                 /\ invite'[q] # None /\ invite'[q].bound => reg'[q] # None /\ reg'[q].account = invite'[q].account
  <1>1. GwTypes
    BY DEF GwInv
  <1>2. reg' \in [Phones -> {None} \cup GwBinding] /\ \A q \in Phones : reg'[q] = IF q = p THEN None ELSE reg[q]
    BY <1>1 DEF GwTypes
  <1>3. ASSUME NEW q \in Phones
        PROVE  /\ invite'[q] \in {None} \cup [account : Accounts, bound : BOOLEAN, revision : 1 .. MaxCred]
               /\ invite'[q] # None /\ invite'[q].bound => reg'[q] # None /\ reg'[q].account = invite'[q].account
    <2>1. invite'[q] = IF invite[q] # None /\ reg'[q] = None
                       THEN [invite[q] EXCEPT !.bound = FALSE] ELSE invite[q]
      BY DEF Gw!ForgetBindings
    <2>2. /\ invite[q] \in {None} \cup [account : Accounts, bound : BOOLEAN, revision : 1 .. MaxCred]
          /\ invite[q] # None /\ invite[q].bound => reg[q] # None /\ reg[q].account = invite[q].account
      BY <1>1 DEF GwTypes, GwInv, GwPhone
    <2>3. CASE invite[q] # None /\ reg'[q] = None
      <3>1. invite'[q] = [invite[q] EXCEPT !.bound = FALSE]
        BY <2>1, <2>3
      <3>2. invite'[q] \in [account : Accounts, bound : BOOLEAN, revision : 1 .. MaxCred] /\ invite'[q].bound = FALSE
        BY <2>2, <2>3, <3>1
      <3> QED
        BY <3>2
    <2>4. CASE ~ (invite[q] # None /\ reg'[q] = None)
      BY <1>2, <2>1, <2>2, <2>4
    <2> QED
      BY <2>3, <2>4
  <1>4. invite' \in [Phones -> {None} \cup [account : Accounts, bound : BOOLEAN, revision : 1 .. MaxCred]]
    BY <1>3 DEF Gw!ForgetBindings
  <1> QED
    BY <1>2, <1>3, <1>4

\* A phone leaves or is forgotten.
LEMMA GwUnregister ==
    ASSUME GwInv, Gw!GatewayBounds, NEW p \in Phones, Gw!Unregister(p) \/ Gw!Expire(p)
    PROVE  GwInv'
  <1>1. GwTypes /\ 0 \in GwRevs
    BY DEF GwInv, GwTypes, GwRevs, Gw!GatewayBounds
  <1>2. /\ UNCHANGED <<db, born, late, writer, refresher, epoch, gwReady, accounts, policies, floor, writes>>
        /\ reg[p] # None /\ reg' = [reg EXCEPT ![p] = None] /\ Gw!ForgetBindings
    BY DEF Gw!Unregister, Gw!Expire, Gw!table, Gw!gateway
  <1>3. /\ reg' \in [Phones -> {None} \cup GwBinding]
        /\ invite' \in [Phones -> {None} \cup [account : Accounts, bound : BOOLEAN, revision : 1 .. MaxCred]]
        /\ \A q \in Phones :
              /\ q # p => reg'[q] = reg[q]
              /\ invite'[q] # None /\ invite'[q].bound => reg'[q] # None /\ reg'[q].account = invite'[q].account
        /\ reg'[p] = None
    BY <1>1, <1>2, GwForget DEF GwTypes
  <1>4. CASE Gw!Unregister(p)
    <2>1. Gw!syncLocked(accounts, policies) /\ call' = Gw!CallsLeft(accounts, policies)
      BY <1>4 DEF Gw!Unregister, Gw!SyncOnly
    <2>2. /\ call' \in [Accounts -> GwRevs]
          /\ \A b \in Accounts : call'[b] # 0 => call'[b] = Gw!CallsLeft(accounts, policies)[b]
      BY <2>1, GwLeft
    <2>3. \A q \in Phones :
               /\ reg'[q] # None => reg'[q].revision = accounts[reg'[q].account] /\ (grant[q] # 0 => reg'[q] = reg[q])
               /\ invite'[q] # None /\ invite'[q].bound => reg'[q] # None /\ reg'[q].account = invite'[q].account
      BY <1>3 DEF GwInv, GwPhone
    <2> QED
      BY <1>2, <1>3, <2>1, <2>2, <2>3, GwPhoneSync
  <1>5. CASE Gw!Expire(p)
    <2>1. UNCHANGED <<pol, rev, call>> /\ grant' = [grant EXCEPT ![p] = 0]
      BY <1>5 DEF Gw!Expire
    <2>2. grant' \in [Phones -> GwRevs] /\ \A q \in Phones : grant'[q] = IF q = p THEN 0 ELSE grant[q]
      BY <1>1, <2>1 DEF GwTypes
    <2>3. ASSUME NEW q \in Phones
          PROVE  GwPhone(q)'
      <3>1. GwPhone(q)
        BY DEF GwInv
      <3> QED
        BY <1>2, <1>3, <2>1, <2>2, <3>1 DEF GwPhone
    <2>4. ASSUME NEW a \in Accounts
          PROVE  GwAccount(a)' /\ rev'[a] \in {rev[a], policies[a]}
      BY <1>2, <2>1 DEF GwInv, GwAccount, Creating
    <2>5. /\ pol' \in [Accounts -> GwRevs] /\ rev' \in [Accounts -> GwRevs] /\ call' \in [Accounts -> GwRevs]
          /\ gwReady' \in BOOLEAN
      BY <1>1, <1>2, <2>1 DEF GwTypes
    <2> QED
      BY <1>2, <1>3, <2>2, <2>3, <2>4, <2>5, GwDialog
  <1> QED
    BY <1>4, <1>5

\* An INVITE is admitted; a call is placed, refused or ended.
LEMMA GwInvite ==
    ASSUME GwInv, Gw!GatewayBounds, NEW p \in Phones,
           Gw!InviteBegin(p) \/ Gw!InvitePlaced(p) \/ Gw!InviteBusy(p) \/ Gw!InviteRefused(p)
    PROVE  GwInv'
  <1>1. GwTypes /\ 0 \in GwRevs
    BY DEF GwInv, GwTypes, GwRevs, Gw!GatewayBounds
  <1>2. UNCHANGED <<db, born, late, writer, refresher, epoch, gwReady, accounts, policies, floor, writes, reg>>
    BY DEF Gw!InviteBegin, Gw!InvitePlaced, Gw!InviteBusy, Gw!InviteRefused, Gw!table, Gw!gateway
  <1>3. /\ reg' \in [Phones -> {None} \cup GwBinding] /\ gwReady' \in BOOLEAN
        /\ \A q \in Phones : GwPhone(q)
    BY <1>1, <1>2 DEF GwTypes, GwInv
  <1>4. CASE Gw!InviteBegin(p)
    <2>1. /\ UNCHANGED <<pol, rev, grant, call>> /\ reg[p] # None /\ accounts[reg[p].account] # 0
          /\ invite' = [invite EXCEPT ![p] = [account |-> reg[p].account, bound |-> TRUE,
                                              revision |-> accounts[reg[p].account]]]
      BY <1>4 DEF Gw!InviteBegin, Gw!router
    <2>2. /\ [account |-> reg[p].account, bound |-> TRUE, revision |-> accounts[reg[p].account]]
                  \in [account : Accounts, bound : BOOLEAN, revision : 1 .. MaxCred]
      BY <1>1, <2>1 DEF GwTypes, GwBinding, GwRevs, Gw!GatewayBounds
    <2>3. invite' \in [Phones -> {None} \cup [account : Accounts, bound : BOOLEAN, revision : 1 .. MaxCred]]
      BY <1>1, <2>1, <2>2 DEF GwTypes
    <2>4. ASSUME NEW q \in Phones
          PROVE  GwPhone(q)'
      <3>1. CASE q = p
        <4>1. invite'[q].account = reg[p].account
          BY <1>1, <2>1, <3>1 DEF GwTypes
        <4> QED
          BY <1>2, <1>3, <2>1, <3>1, <4>1 DEF GwPhone
      <3>2. CASE q # p
        BY <1>1, <1>2, <1>3, <2>1, <3>2 DEF GwPhone, GwTypes
      <3> QED
        BY <3>1, <3>2
    <2>5. ASSUME NEW a \in Accounts
          PROVE  GwAccount(a)' /\ rev'[a] \in {rev[a], policies[a]}
      BY <1>2, <2>1 DEF GwInv, GwAccount, Creating
    <2>6. /\ pol' \in [Accounts -> GwRevs] /\ rev' \in [Accounts -> GwRevs] /\ call' \in [Accounts -> GwRevs]
          /\ grant' \in [Phones -> GwRevs]
      BY <1>1, <2>1 DEF GwTypes
    <2> QED
      BY <1>2, <1>3, <2>3, <2>4, <2>5, <2>6, GwDialog
  <1>5. ASSUME invite' = [invite EXCEPT ![p] = None]
        PROVE  /\ invite' \in [Phones -> {None} \cup [account : Accounts, bound : BOOLEAN, revision : 1 .. MaxCred]]
               /\ \A q \in Phones : invite'[q] \in {None, invite[q]}
    BY <1>1, <1>5 DEF GwTypes
  <1>6. ASSUME invite' = [invite EXCEPT ![p] = None]
        PROVE  \A q \in Phones :
               /\ reg'[q] # None => reg'[q].revision = accounts[reg'[q].account] /\ (grant[q] # 0 => reg'[q] = reg[q])
               /\ invite'[q] # None /\ invite'[q].bound => reg'[q] # None /\ reg'[q].account = invite'[q].account
    BY <1>2, <1>3, <1>5, <1>6 DEF GwPhone
  <1>7. CASE Gw!InvitePlaced(p)
    <2> DEFINE a == invite[p].account
               left == Gw!CallsLeft(accounts, policies)
    <2>1. /\ Gw!syncLocked(accounts, policies) /\ invite[p] # None /\ left[a] = 0 /\ grant'[p] # 0
          /\ accounts[a] = invite[p].revision /\ invite[p].bound
          /\ call' = [left EXCEPT ![a] = invite[p].revision]
          /\ invite' = [invite EXCEPT ![p] = None]
      BY <1>7 DEF Gw!InvitePlaced, Gw!inviteBindingCurrent
    <2>2. a \in Accounts /\ invite[p].revision \in GwRevs /\ left \in [Accounts -> GwRevs]
      BY <1>1, <2>1, GwLeft DEF GwTypes, GwRevs, Gw!GatewayBounds
    <2>3. pol'[a] # 0
      <3>1. \A b \in Accounts : GwAccount(b) /\ policies[b] \in Nat /\ rev[b] \in Nat
        BY <1>1 DEF GwInv, GwTypes, GwRevs, Gw!GatewayBounds
      <3>2. \A b \in Accounts : /\ accounts[b] \in {0, policies[b]}
                                /\ db[b] # 0 => policies[b] <= db[b] /\ (pol[b] # 0 => policies[b] >= rev[b])
        BY <3>1 DEF GwAccount
      <3>3. \A q \in Phones : reg'[q] # None => /\ reg'[q].revision = accounts[reg'[q].account]
                                                /\ grant[q] # 0 => reg'[q] = reg[q]
        BY <1>6, <2>1
      <3>4. accounts \in [Accounts -> GwRevs] /\ policies \in [Accounts -> GwRevs]
        BY <1>1 DEF GwTypes
      <3>5. grant'[p] = pol'[reg'[p].account]
        BY <1>3, <2>1, <3>2, <3>3, <3>4, GwSync
      <3>6. reg[p].account = a
        BY <1>3, <2>1 DEF GwPhone
      <3> QED
        BY <1>2, <2>1, <3>5, <3>6
    <2> HIDE DEF a, left
    <2>4. call' \in [Accounts -> GwRevs] /\ \A b \in Accounts : call'[b] = IF b = a THEN invite[p].revision ELSE left[b]
      BY <2>1, <2>2
    <2>5. \A b \in Accounts : call'[b] # 0 => call'[b] = Gw!CallsLeft(accounts, policies)[b]
                                               \/ (call'[b] = accounts[b] /\ pol'[b] # 0)
      BY <2>1, <2>3, <2>4 DEF left
    <2> QED
      BY <1>2, <1>3, <1>5, <1>6, <2>1, <2>4, <2>5, GwPhoneSync
  <1>8. CASE Gw!InviteBusy(p)
    <2>1. /\ Gw!syncLocked(accounts, policies) /\ call' = Gw!CallsLeft(accounts, policies)
          /\ invite' = [invite EXCEPT ![p] = None]
      BY <1>8 DEF Gw!InviteBusy, Gw!SyncOnly
    <2>2. /\ call' \in [Accounts -> GwRevs]
          /\ \A b \in Accounts : call'[b] # 0 => call'[b] = Gw!CallsLeft(accounts, policies)[b]
      BY <2>1, GwLeft
    <2> QED
      BY <1>2, <1>3, <1>5, <1>6, <2>1, <2>2, GwPhoneSync
  <1>9. CASE Gw!InviteRefused(p)
    <2>1. UNCHANGED <<pol, rev, grant, call>> /\ invite' = [invite EXCEPT ![p] = None]
      BY <1>9 DEF Gw!InviteRefused, Gw!router
    <2>2. \A q \in Phones : GwPhone(q)'
      BY <1>2, <1>3, <1>5, <2>1 DEF GwPhone
    <2>3. ASSUME NEW a \in Accounts
          PROVE  GwAccount(a)' /\ rev'[a] \in {rev[a], policies[a]}
      BY <1>2, <2>1 DEF GwInv, GwAccount, Creating
    <2>4. /\ pol' \in [Accounts -> GwRevs] /\ rev' \in [Accounts -> GwRevs] /\ call' \in [Accounts -> GwRevs]
          /\ grant' \in [Phones -> GwRevs]
      BY <1>1, <2>1 DEF GwTypes
    <2> QED
      BY <1>2, <1>3, <1>5, <2>1, <2>2, <2>3, <2>4, GwDialog
  <1> QED
    BY <1>4, <1>7, <1>8, <1>9

\* The gateway stops being ready, or a call ends.
LEMMA GwOthers ==
    ASSUME GwInv, Gw!GatewayBounds, Gw!Lapse \/ \E a \in Accounts : Gw!Hangup(a)
    PROVE  GwInv'
  <1>1. GwTypes /\ 0 \in GwRevs
    BY DEF GwInv, GwTypes, GwRevs, Gw!GatewayBounds
  <1>2. /\ UNCHANGED <<db, born, late, writer, refresher, epoch, accounts, policies, floor, writes,
                       pol, rev, grant, reg, invite>>
        /\ gwReady' \in BOOLEAN
        /\ call' = call \/ \E a \in Accounts : call' = [call EXCEPT ![a] = 0]
    BY <1>1 DEF Gw!Lapse, Gw!Hangup, Gw!table, Gw!gateway, Gw!router, GwTypes
  <1>3. call' \in [Accounts -> GwRevs] /\ \A a \in Accounts : call'[a] \in {0, call[a]}
    BY <1>1, <1>2 DEF GwTypes
  <1>4. ASSUME NEW a \in Accounts
        PROVE  GwAccount(a)' /\ rev'[a] \in {rev[a], policies[a]}
    BY <1>2, <1>3 DEF GwInv, GwAccount, Creating
  <1>5. \A q \in Phones : GwPhone(q)'
    BY <1>2 DEF GwPhone, GwInv
  <1>6. /\ pol' \in [Accounts -> GwRevs] /\ rev' \in [Accounts -> GwRevs] /\ grant' \in [Phones -> GwRevs]
        /\ reg' \in [Phones -> {None} \cup GwBinding]
        /\ invite' \in [Phones -> {None} \cup [account : Accounts, bound : BOOLEAN, revision : 1 .. MaxCred]]
    BY <1>1, <1>2 DEF GwTypes
  <1> QED
    BY <1>2, <1>3, <1>4, <1>5, <1>6, GwDialog

\* A restart keeps the table alone.
LEMMA GwRestart ==
    ASSUME GwInv, Gw!GatewayBounds, Gw!Restart
    PROVE  GwInv'
  <1>1. GwTypes /\ 0 \in GwRevs
    BY DEF GwInv, GwTypes, GwRevs, Gw!GatewayBounds
  <1>2. /\ UNCHANGED <<db, born, late, floor, writes>>
        /\ writer' = [pc |-> "idle", account |-> None, value |-> 0]
        /\ refresher' = [x \in {"ticker", "api"} |-> Gw!Idle] /\ epoch' = 0 /\ gwReady' = FALSE
        /\ accounts' = Gw!Nobody /\ policies' = Gw!Nobody /\ pol' = Gw!Nobody /\ rev' = Gw!Nobody
        /\ call' = Gw!Nobody
        /\ reg' = [p \in Phones |-> None] /\ grant' = [p \in Phones |-> 0] /\ invite' = [p \in Phones |-> None]
    BY DEF Gw!Restart, Gw!table, Gw!Refreshers
  <1>3. Gw!Nobody \in [Accounts -> GwRevs] /\ \A a \in Accounts : Gw!Nobody[a] = 0
    BY <1>1 DEF Gw!Nobody
  <1>4. /\ Gw!Idle \in [epoch : Nat, pc : {"idle", "read", "apply"}, snapshot : {None} \cup [Accounts -> GwRevs]]
        /\ Gw!Idle.epoch = 0 /\ Gw!Idle.pc = "idle" /\ Gw!Idle.snapshot = None
    BY DEF Gw!Idle
  <1>5. GwTypes'
    <2>1. /\ refresher' \in [{"ticker", "api"} -> [epoch : Nat, pc : {"idle", "read", "apply"},
                                                  snapshot : {None} \cup [Accounts -> GwRevs]]]
          /\ \A x \in {"ticker", "api"} : refresher'[x].epoch <= epoch'
      BY <1>2, <1>4
    <2>2. /\ writer' \in [pc : {"idle", "apply", "suspend", "refresh"}, account : Accounts \cup {None}, value : GwRevs]
          /\ writer'.pc = "idle"
      BY <1>1, <1>2
    <2>3. /\ reg' \in [Phones -> {None} \cup GwBinding] /\ grant' \in [Phones -> GwRevs]
          /\ invite' \in [Phones -> {None} \cup [account : Accounts, bound : BOOLEAN, revision : 1 .. MaxCred]]
      BY <1>1, <1>2
    <2>4. epoch' \in Nat /\ epoch' <= writes'
      BY <1>1, <1>2 DEF GwTypes
    <2> QED
      BY <1>1, <1>2, <1>3, <2>1, <2>2, <2>3, <2>4 DEF GwTypes
  <1>6. GwWriter' /\ GwRefreshers'
    BY <1>2, <1>4 DEF GwWriter, GwRefreshers, Live
  <1>7. ASSUME NEW a \in Accounts
        PROVE  GwAccount(a)'
    <2>1. GwAccount(a) /\ db[a] \in Nat
      BY <1>1 DEF GwInv, GwTypes, GwRevs
    <2> QED
      BY <1>2, <1>3, <2>1 DEF GwAccount, Creating
  <1>8. ASSUME NEW p \in Phones
        PROVE  GwPhone(p)'
    BY <1>2 DEF GwPhone
  <1> QED
    BY <1>5, <1>6, <1>7, <1>8 DEF GwInv

\* Every step of the gateway keeps its accounts in order.
LEMMA GwStep ==
    ASSUME GwInv, Gw!GatewayBounds, Gw!Next
    PROVE  GwInv'
  <1>1. CASE \E a \in Accounts, value \in Gw!Revisions : Gw!Commit(a, value) \/ Gw!CommitUnconfirmed(a, value)
    BY <1>1, GwCommit DEF Gw!Revisions, GwRevs
  <1>2. CASE Gw!LateCommit \/ Gw!Apply \/ Gw!suspendAccountLocked
    BY <1>2, GwLate, GwApply, GwSuspend
  <1>3. CASE \E x \in Gw!Refreshers :
                \/ Gw!RefreshBegin(x) \/ Gw!readSnapshot(x) \/ Gw!RefreshFenced(x) \/ Gw!RefreshFailed(x)
                \/ Gw!ListenersKept(x) \/ Gw!ListenersLost(x)
    <2>1. PICK x \in {"ticker", "api"} :
                \/ Gw!RefreshBegin(x) \/ Gw!readSnapshot(x) \/ Gw!RefreshFenced(x) \/ Gw!RefreshFailed(x)
                \/ Gw!ListenersKept(x) \/ Gw!ListenersLost(x)
      BY <1>3 DEF Gw!Refreshers
    <2>2. CASE Gw!ListenersKept(x)
      BY <2>2, GwServed DEF Gw!ListenersKept
    <2>3. CASE Gw!ListenersLost(x)
      <3>1. PICK dark \in SUBSET Accounts, offline \in SUBSET Accounts : Gw!applySnapshotLocked(x, dark, offline)
        <4>1. PICK a \in Accounts, d \in {TRUE, FALSE} : Gw!applySnapshotLocked(x, IF d THEN {a} ELSE {}, {a})
          BY <2>3 DEF Gw!ListenersLost
        <4> QED
          BY <4>1
      <3> QED
        BY <3>1, GwServed
    <2> QED
      BY <2>1, <2>2, <2>3, GwRefreshing
  <1>4. CASE Gw!Lapse \/ \E a \in Accounts : Gw!Hangup(a)
    BY <1>4, GwOthers
  <1>5. CASE \E p \in Phones, a \in Accounts : Gw!Register(p, a)
    BY <1>5, GwRegister
  <1>6. CASE \E p \in Phones : \/ Gw!Unregister(p) \/ Gw!Expire(p) \/ Gw!InviteBegin(p)
                               \/ Gw!InvitePlaced(p) \/ Gw!InviteBusy(p) \/ Gw!InviteRefused(p)
    BY <1>6, GwUnregister, GwInvite
  <1>7. CASE Gw!Restart
    BY <1>7, GwRestart
  <1> QED
    BY <1>1, <1>2, <1>3, <1>4, <1>5, <1>6, <1>7 DEF Gw!Next

\* The gateway's accounts in every behaviour of the program's parts: table, registrar and
\* router agree on every account, a snapshot that no change has fenced is older than none of
\* them, and what the table holds is never locked out (backend/sip_gateway.go refresh,
\* applySnapshotLocked; internal/telephony/router.go PutPolicy).
THEOREM GatewayInvariant == Behaviour => [](part = "gateway" => GwInv)
  <1>1. InitAll => (part = "gateway" => GwInv)
    BY AccountBounds, GwInit DEF InitAll
  <1>2. (part = "gateway" => GwInv) /\ [NextAll]_all => (part = "gateway" => GwInv)'
    <2> SUFFICES ASSUME part = "gateway" => GwInv, [NextAll]_all, part' = "gateway"
                 PROVE  GwInv'
      OBVIOUS
    <2>1. CASE UNCHANGED all
      <3>1. part = "gateway" /\ UNCHANGED varsGw
        BY <2>1 DEF all
      <3>2. GwInv
        BY <3>1
      <3>3. GwTypes' /\ GwWriter' /\ GwRefreshers'
        BY <3>1, <3>2 DEF GwInv, GwTypes, GwWriter, GwRefreshers, Live, GwSnapshot, Creating, varsGw
      <3>4. (\A a \in Accounts : GwAccount(a)') /\ \A p \in Phones : GwPhone(p)'
        BY <3>1, <3>2, GwQuiet DEF varsGw
      <3> QED
        BY <3>3, <3>4 DEF GwInv
    <2>2. CASE NextAll
      <3>1. part = "gateway"
        BY <2>2 DEF NextAll
      <3>2. Gw!Next
        BY <2>2, <3>1 DEF NextAll
      <3> QED
        BY <3>1, <3>2, GwStep, AccountBounds
    <2> QED
      BY <2>1, <2>2
  <1> QED
    BY <1>1, <1>2, PTL DEF Behaviour

\* What the accounts of the gateway promise follows from how they are kept.
LEMMA GwServes ==
    ASSUME GwInv, Gw!GatewayBounds
    PROVE  Gw!ViewsAgree /\ Gw!FencedCredentials /\ Gw!NoLockout
  <1>1. GwTypes /\ MaxCred \in Nat /\ MaxWrites \in Nat
    BY DEF GwInv, Gw!GatewayBounds
  <1>2. ASSUME NEW a \in Accounts
        PROVE  GwAccount(a) /\ accounts[a] \in Nat /\ pol[a] \in Nat /\ floor[a] \in Nat
    BY <1>1 DEF GwInv, GwTypes, GwRevs
  <1>3. ASSUME NEW p \in Phones
        PROVE  GwPhone(p) /\ (reg[p] # None => reg[p].account \in Accounts /\ reg[p].revision \in 1 .. MaxCred)
    BY <1>1 DEF GwInv, GwTypes, GwBinding
  <1>4. Gw!TypeOK
    <2>1. \A x \in Gw!Refreshers : /\ refresher[x].pc \in {"idle", "read", "apply"}
                                   /\ refresher[x].snapshot \in {None} \cup [Accounts -> Gw!Revisions]
                                   /\ refresher[x].epoch \in 0 .. epoch
      BY <1>1 DEF GwTypes, GwRevs, Gw!Revisions, Gw!Refreshers
    <2>2. epoch \in 0 .. MaxWrites
      BY <1>1 DEF GwTypes
    <2>3. /\ writer.pc \in {"idle", "apply", "suspend", "refresh"}
          /\ {accounts, policies, pol, rev, call} \subseteq [Accounts -> Gw!Revisions]
          /\ db \in [Accounts -> Gw!Revisions] /\ born \subseteq Accounts
          /\ late = None \/ late \in [account : Accounts, value : Gw!Revisions]
          /\ gwReady \in BOOLEAN /\ grant \in [Phones -> Gw!Revisions]
          /\ floor \in [Accounts -> 0 .. MaxCred + 1]
      BY <1>1 DEF GwTypes, GwRevs, Gw!Revisions
    <2>4. \A p \in Phones : /\ reg[p] = None \/ reg[p] \in [account : Accounts, revision : 1 .. MaxCred]
                            /\ invite[p] = None \/ invite[p].account \in Accounts
      BY <1>1 DEF GwTypes, GwBinding
    <2> QED
      BY <2>1, <2>2, <2>3, <2>4 DEF Gw!TypeOK
  <1>5. Gw!ViewsAgree
    BY <1>3, <1>4 DEF Gw!ViewsAgree, GwPhone
  <1>6. Gw!NoLockout
    BY <1>2 DEF Gw!NoLockout, GwAccount
  <1>7. ASSUME NEW a \in Accounts
        PROVE  /\ accounts[a] # 0 => accounts[a] >= floor[a]
               /\ pol[a] # 0 /\ accounts[a] # 0 => pol[a] >= floor[a]
               /\ call[a] # 0 => call[a] >= floor[a] /\ call[a] = accounts[a]
    BY <1>2 DEF GwAccount
  <1>8. ASSUME NEW p \in Phones
        PROVE  /\ reg[p] # None => reg[p].revision >= floor[reg[p].account]
               /\ grant[p] # 0 => grant[p] >= floor[reg[p].account]
    BY <1>3, <1>7 DEF GwPhone
  <1>9. Gw!FencedCredentials
    BY <1>7, <1>8 DEF Gw!FencedCredentials
  <1> QED
    BY <1>5, <1>6, <1>9

\* For any number of accounts, phones, revisions and faults: the three places that know an
\* account agree, a credential that a change revoked is honoured nowhere again, whatever
\* refreshes were under way, and no account that exists is refused for ever.
THEOREM GatewayServed == Behaviour => []AccountsServed
  <1>1. (part = "gateway" => GwInv) => AccountsServed
    BY AccountBounds, GwServes DEF AccountsServed
  <1> QED
    BY <1>1, GatewayInvariant, PTL

-----------------------------------------------------------------------------
(* The lease of one worker.                                                *)

VocStages == {"snapshot", "rfoff", "sim", "access", "tunnel", "ims", "sms"}
VocSetup == VocStages \cup {"failing"}

\* Who holds the operation lock, and what it cleans.
VocLocks ==
    /\ (vocLock = <<"loop">>) <=> vocPc \in VocSetup \cup {"stopping"}
    /\ (vocLock = <<"sms">>) <=> sms = "sending"
    /\ \A x \in Voc!Watchers : (watch[x].at = "cleaning") <=> (vocLock = x)
    /\ \A x \in Voc!Watchers : vocLock = x => x[1] = res.att
    /\ (clean # "no") <=> (vocLock \in Voc!Watchers \/ vocPc \in {"failing", "stopping"})
    /\ clean = "radio" => vocPc = "stopping"
    /\ clean \in {"tunnel", "radio", "done"} => ~ res.ims
    /\ clean \in {"radio", "done"} => ~ res.tunnel

\* What the orchestrator owns is what exists, but for closes that did not succeed.
VocSessions ==
    /\ res.att \in {0, st.att}
    /\ res.att = 0 => ~ res.tunnel /\ ~ res.ims /\ ~ res.radio
    /\ vocPc \in VocSetup => res.att = st.att /\ st.att > 0
    /\ st.tunnel => res.tunnel \/ clean # "no"
    /\ st.ims => res.ims \/ clean # "no"
    /\ sms = "sending" => res.ims
    /\ st.phase = "failed" => ~ res.tunnel /\ ~ res.ims

VocOpen ==
    /\ open \subseteq Voc!Watchers
    /\ \A x \in Voc!Watchers : (x \in open /\ vocDoubt[x] = "none") <=> (x[1] = res.att /\ res[x[2]])

\* The watchers of an attempt start with its sessions.
VocWatches ==
    /\ \A x \in Voc!Watchers : x[1] > st.att => watch[x].at = "off"
    /\ vocPc \in {"snapshot", "rfoff", "sim", "access", "tunnel"} =>
           \A x \in Voc!Watchers : x[1] = st.att => watch[x].at = "off"
    /\ vocPc = "ims" => watch[<<st.att, "ims">>].at = "off"

\* Every attempt but the first follows a fault of the one before.
VocSpent == st.att + vocFaults <= MaxFaults
VocRetries == {"transient", "retryafter"}
VocFaultsPaid ==
    /\ st.att + vocFaults <= MaxFaults + 1
    /\ vocPc \in {"enter", "delay"} => VocSpent
    /\ vocSeen.err \in VocRetries \/ st.err \in VocRetries => VocSpent
    /\ \A x \in Voc!Watchers : x[1] = st.att /\ watch[x].at \in {"waiting", "cleaning"} => VocSpent
    /\ vocPc \notin VocSetup \cup {"return"} /\ news # <<>> => VocSpent

\* A watcher publishes once.
VocDone(l) == IF st.att > 0 /\ watch[<<st.att, l>>].at = "done" THEN 1 ELSE 0
VocNews ==
    Len(news) <= VocDone("tunnel") + VocDone("ims") + (IF vocPc \in VocSetup \cup {"return"} THEN 2 ELSE 0)

\* What the phases say of the attempt.
VocPhases ==
    /\ vocPc \in VocStages => st.phase # "failed"
    /\ vocPc \in {"tunnel", "ims", "sms"} => st.phase # "idle"
    /\ vocPc \in {"enter", "delay"} => st.phase \in {"idle", "failed"}
    /\ vocPc = "decide" => st.phase = "failed"
    /\ vocPc = "return" /\ ~ ok => st.phase = "failed"
    /\ vocPc = "watch" /\ news # <<>> => st.phase = "failed"
    /\ st.phase = "idle" /\ vocPc \notin VocStages \cup {"failing", "ended"} => st.att = 0 /\ ~ taken /\ vocLock = <<"free">>
    /\ vocPc = "watch" /\ shown = "connected" => news # <<>> \/ (st.ims /\ st.tunnel)

\* The radio comes back with the last close, as the stop asked.
VocRadio ==
    /\ rf = "cellular" => vocPc \in {"stopping", "ended"} /\ ~ res.ims /\ ~ res.tunnel
    /\ taken => res.radio \/ vocPc = "ended" \/ (vocPc = "stopping" /\ clean = "done")
    /\ vocPc = "stopping" /\ clean = "done" /\ ~ errs /\ taken => rf = IF want THEN "cellular" ELSE "off"
    /\ outcome # "none" => vocPc \in {"stop", "stopping", "ended"}
    /\ outcome = "clean" => vocPc = "ended"
    /\ outcome = "clean" => ~ res.ims /\ ~ res.tunnel /\ (taken => rf = IF want THEN "cellular" ELSE "off")

\* A close in doubt is on record until the loop has judged it.
VocRecorded ==
    \/ vocPc = "failing" /\ errs
    \/ vocPc = "return" /\ (IF st.phase = "failed" THEN st.cleanup ELSE vocLock \in Voc!Watchers /\ errs)
    \/ vocPc = "watch" /\ (IF news = <<>> THEN vocLock \in Voc!Watchers /\ errs ELSE Head(news).cleanup)
    \/ vocPc = "decide" /\ vocSeen.cleanup
    \/ vocPc \in {"stop", "stopping", "ended"} /\ (ctx \/ outcome = "unconfirmed")
VocRecords ==
    /\ \A x \in Voc!Watchers : vocDoubt[x] = "known" => VocRecorded
    /\ \A x \in Voc!Watchers : vocDoubt[x] = "final" => outcome = "unconfirmed" \/ (vocPc = "stopping" /\ errs)
    /\ \A x \in Voc!Watchers : x[1] > st.att \/ (x[1] = st.att /\ vocPc \in VocStages) => vocDoubt[x] = "none"
    /\ vocPc = "stop" => ctx \/ st.phase = "failed"
    /\ vocPc = "ended" => outcome # "none"

VocTypes ==
    /\ ctx \in BOOLEAN /\ want \in BOOLEAN /\ ok \in BOOLEAN
    /\ vocPc \in VocSetup \cup {"enter", "return", "watch", "decide", "delay", "stop", "stopping", "ended"}
    /\ st \in Voc!State /\ vocSeen \in Voc!State /\ news \in Seq(Voc!State)
    /\ shown \in {"radio-off", "reconnecting", "connected"} /\ registrar \in 0 .. RegistrarLimit
    /\ vocLock \in {<<"free">>, <<"loop">>, <<"sms">>} \cup Voc!Watchers
    /\ res \in [att : 0 .. MaxFaults + 1, tunnel : BOOLEAN, ims : BOOLEAN, radio : BOOLEAN]
    /\ vocCancelled \subseteq Voc!Attempts /\ clean \in {"no", "ims", "tunnel", "radio", "done"} /\ errs \in BOOLEAN
    /\ watch \in [Voc!Watchers -> [at : {"off", "on", "waiting", "cleaning", "done"}, why : Voc!Errors]]
    /\ rf \in {"off", "cellular"} /\ sms \in {"idle", "wants", "sending"}
    /\ outcome \in {"none", "clean", "unconfirmed"} /\ vocDoubt \in [Voc!Watchers -> Voc!Marks] /\ taken \in BOOLEAN
    /\ vocFaults \in 0 .. MaxFaults /\ sends \in 0 .. MaxSends

VocInv == /\ VocTypes /\ VocLocks /\ VocSessions /\ VocOpen /\ VocWatches /\ VocFaultsPaid /\ VocNews
          /\ VocPhases /\ VocRadio /\ VocRecords

\* The holders of the lock are told apart, and a watcher is an attempt with a layer.
LEMMA VocNames ==
    /\ \A x \in Voc!Watchers : x # <<"free">> /\ x # <<"loop">> /\ x # <<"sms">>
    /\ <<"free">> # <<"loop">> /\ <<"free">> # <<"sms">> /\ <<"loop">> # <<"sms">>
    /\ \A x \in Voc!Watchers : x[1] \in Voc!Attempts /\ x[2] \in {"tunnel", "ims"} /\ x = <<x[1], x[2]>>
    /\ \A a \in Voc!Attempts, l \in {"tunnel", "ims"} :
          <<a, l>> \in Voc!Watchers /\ <<a, l>>[1] = a /\ <<a, l>>[2] = l
    /\ \A a \in Voc!Attempts : a \in Nat /\ a > 0
  BY DEF Voc!Watchers, Voc!Layers, Voc!Attempts

\* A lease begins with the radio off and nothing open.
LEMMA VocInit ==
    ASSUME Voc!SessionConstants, Voc!Init
    PROVE  VocInv
  <1>1. Voc!Idle \in Voc!State /\ Voc!Idle.att = 0 /\ Voc!Idle.err = "none" /\ Voc!Idle.phase = "idle"
    BY DEF Voc!Idle, Voc!State, Voc!SessionConstants
  <1>2. /\ Voc!NoRes \in [att : 0 .. MaxFaults + 1, tunnel : BOOLEAN, ims : BOOLEAN, radio : BOOLEAN]
        /\ Voc!NoRes.att = 0 /\ ~ Voc!NoRes.tunnel /\ ~ Voc!NoRes.ims /\ ~ Voc!NoRes.radio
    BY DEF Voc!NoRes, Voc!SessionConstants
  <1>3. /\ watch \in [Voc!Watchers -> [at : {"off", "on", "waiting", "cleaning", "done"}, why : Voc!Errors]]
        /\ \A x \in Voc!Watchers : watch[x].at = "off"
    BY DEF Voc!Init, Voc!Errors
  <1>4. VocTypes
    <2>1. /\ registrar \in 0 .. RegistrarLimit /\ vocFaults \in 0 .. MaxFaults /\ sends \in 0 .. MaxSends
          /\ news \in Seq(Voc!State)
      BY DEF Voc!Init, Voc!SessionConstants
    <2>2. st \in Voc!State /\ vocSeen \in Voc!State
      BY <1>1 DEF Voc!Init
    <2>3. res \in [att : 0 .. MaxFaults + 1, tunnel : BOOLEAN, ims : BOOLEAN, radio : BOOLEAN]
      BY <1>2 DEF Voc!Init
    <2>4. vocDoubt \in [Voc!Watchers -> Voc!Marks]
      BY DEF Voc!Init, Voc!Marks
    <2> QED
      BY <1>3, <2>1, <2>2, <2>3, <2>4 DEF Voc!Init, VocTypes
  <1>5. VocLocks
    BY <1>2, <1>3, VocNames DEF Voc!Init, VocLocks, VocSetup, VocStages
  <1>6. VocSessions
    BY <1>1, <1>2 DEF Voc!Init, VocSessions, VocSetup, VocStages, Voc!Idle
  <1>11. VocOpen
    BY <1>2 DEF Voc!Init, VocOpen, Voc!Watchers, Voc!Layers
  <1>7. VocWatches
    BY <1>1, <1>3 DEF Voc!Init, VocWatches
  <1>8. VocFaultsPaid
    BY <1>1, <1>3 DEF Voc!Init, VocFaultsPaid, VocSpent, VocRetries, Voc!SessionConstants
  <1>9. VocNews
    <2>1. VocDone("tunnel") = 0 /\ VocDone("ims") = 0
      BY <1>1 DEF Voc!Init, VocDone
    <2> QED
      BY <2>1 DEF Voc!Init, VocNews, VocSetup, VocStages
  <1>10. VocPhases /\ VocRadio
    BY <1>1 DEF Voc!Init, VocPhases, VocRadio, VocStages
  <1>12. VocRecords
    BY DEF Voc!Init, VocRecords, VocStages
  <1> QED
    BY <1>4, <1>5, <1>6, <1>7, <1>8, <1>9, <1>10, <1>11, <1>12 DEF VocInv

\* What a lease is sound for.
LEMMA VocPromise ==
    ASSUME VocInv, Voc!SessionConstants
    PROVE  Voc!LeaseSound /\ Voc!NeverUnderMessage /\ Voc!HonestLease
  <1>1. VocTypes /\ VocSessions /\ VocOpen
    BY DEF VocInv
  <1>2. Voc!TypeOK
    <2>1. Len(news) <= 4 /\ Len(news) \in Nat
      <3>1. VocDone("tunnel") \in {0, 1} /\ VocDone("ims") \in {0, 1}
        BY DEF VocDone
      <3> QED
        BY <1>1, <3>1 DEF VocInv, VocNews, VocTypes
    <2>2. {Voc!Stages[i] : i \in DOMAIN Voc!Stages} = VocStages
      BY DEF Voc!Stages, VocStages
    <2>3. open \subseteq Voc!Watchers
      BY <1>1 DEF VocOpen
    <2> QED
      BY <1>1, <2>1, <2>2, <2>3 DEF Voc!TypeOK, VocTypes, VocSetup
  <1>11. \A x \in Voc!Live : x \in Voc!Watchers /\ x[1] = res.att /\ res[x[2]]
    BY <1>1 DEF Voc!Live, VocOpen
  <1>12. ~ res.ims /\ ~ res.tunnel => Voc!Live = {}
    BY <1>11, VocNames
  <1>3. Voc!RadioHeld
    BY <1>12 DEF VocInv, VocRadio, Voc!RadioHeld
  <1>4. Voc!NoOrphan
    BY <1>11 DEF Voc!NoOrphan
  <1>5. Voc!Startable
    BY DEF VocInv, VocPhases, Voc!Startable
  <1>6. res.att \in 0 .. MaxFaults + 1 /\ st.att \in 0 .. MaxFaults + 1 /\ MaxFaults \in Nat
    BY <1>1 DEF VocTypes, Voc!State, Voc!SessionConstants
  <1>7. ASSUME NEW l \in {"tunnel", "ims"}, st[l], clean = "no"
        PROVE  <<st.att, l>> \in Voc!Live
    <2>1. res[l] /\ res.att = st.att /\ st.att > 0
      BY <1>1, <1>6, <1>7 DEF VocSessions
    <2>3. st.att \in Voc!Attempts
      BY <1>6, <2>1 DEF Voc!Attempts
    <2>2. <<st.att, l>> \in Voc!Watchers /\ <<st.att, l>>[1] = st.att /\ <<st.att, l>>[2] = l
      BY <2>3, VocNames
    <2> QED
      BY <1>1, <2>1, <2>2 DEF VocOpen, Voc!Live
  <1>8. Voc!NeverUnderMessage
    <2>1. SUFFICES ASSUME sms = "sending" PROVE <<res.att, "ims">> \in Voc!Live
      BY DEF Voc!NeverUnderMessage
    <2>2. res.ims /\ res.att \in Voc!Attempts
      BY <1>1, <1>6, <2>1 DEF VocSessions, Voc!Attempts
    <2>3. <<res.att, "ims">> \in Voc!Watchers /\ <<res.att, "ims">>[1] = res.att /\ <<res.att, "ims">>[2] = "ims"
      BY <2>2, VocNames
    <2> QED
      BY <1>1, <2>2, <2>3 DEF VocOpen, Voc!Live
  <1>9. Voc!HonestReport
    BY <1>7 DEF Voc!HonestReport, VocInv, VocPhases, VocLocks, Voc!Layers
  <1>10. Voc!HonestEnd
    <2>1. SUFFICES ASSUME outcome = "clean"
          PROVE  /\ Voc!Live = {} /\ (taken => rf = IF want THEN "cellular" ELSE "off")
                 /\ \A x \in Voc!Watchers : vocDoubt[x] # "final" /\ (vocDoubt[x] = "known" => ctx)
      BY DEF Voc!HonestEnd
    <2>2. vocPc = "ended" /\ ~ res.ims /\ ~ res.tunnel /\ (taken => rf = IF want THEN "cellular" ELSE "off")
      BY <2>1 DEF VocInv, VocRadio
    <2>3. \A x \in Voc!Watchers : vocDoubt[x] # "final" /\ (vocDoubt[x] = "known" => ctx)
      BY <2>1, <2>2 DEF VocInv, VocRecords, VocRecorded
    <2> QED
      BY <1>12, <2>2, <2>3
  <1>13. Voc!NoKnownDoubt
    BY DEF VocInv, VocRecords, VocRecorded, Voc!NoKnownDoubt
  <1> QED
    BY <1>2, <1>3, <1>4, <1>5, <1>8, <1>9, <1>10, <1>13 DEF Voc!LeaseSound, Voc!HonestLease

\* The loop thinks: it reads what was published and decides, and touches nothing else.
LEMMA VocThinks ==
    ASSUME VocInv, Voc!SessionConstants,
           UNCHANGED <<ctx, want, rf, sends, sms, ok, vocLock, st, res, vocCancelled, clean, errs, watch, open,
                       vocDoubt, taken, vocFaults>>,
           outcome' = outcome \/ (outcome' = "unconfirmed" /\ vocPc' = "stop"), VocRecords',
           vocPc \in {"enter", "return", "watch", "decide", "delay"},
           vocPc' \in {"watch", "decide", "delay", "enter", "stop"},
           vocSeen' \in Voc!State, news' \in Seq(Voc!State),
           shown' \in {"radio-off", "reconnecting", "connected"}, registrar' \in 0 .. RegistrarLimit,
           vocPc' \in {"enter", "delay"} => VocSpent /\ st.phase \in {"idle", "failed"},
           vocPc' = "decide" => st.phase = "failed",
           vocSeen'.err \in VocRetries => VocSpent,
           news' = <<>> \/ (vocPc # "return" /\ news # <<>> /\ Len(news') <= Len(news)),
           vocPc' = "watch" => news' = <<>> /\ (shown' = "connected" => st.ims /\ st.tunnel)
    PROVE  VocInv'
  <1>1. VocTypes
    BY DEF VocInv
  <1>2. VocTypes'
    BY <1>1 DEF VocTypes
  <1>3. VocLocks' /\ VocSessions' /\ VocOpen'
    BY DEF VocInv, VocLocks, VocSessions, VocOpen, VocSetup, VocStages
  <1>4. VocWatches' /\ VocRadio'
    BY DEF VocInv, VocWatches, VocRadio
  <1>5. VocFaultsPaid'
    BY DEF VocInv, VocFaultsPaid, VocSpent, VocSetup, VocStages
  <1>6. VocNews'
    <2>1. VocDone("tunnel") \in {0, 1} /\ VocDone("ims") \in {0, 1}
      BY DEF VocDone
    <2>2. VocDone("tunnel")' = VocDone("tunnel") /\ VocDone("ims")' = VocDone("ims")
      BY DEF VocDone
    <2>3. Len(news) \in Nat /\ Len(news') \in Nat /\ (news' = <<>> => Len(news') = 0)
      BY <1>1 DEF VocTypes
    <2>4. vocPc # "return" => Len(news) <= VocDone("tunnel") + VocDone("ims")
      <3>1. vocPc # "return" => vocPc \notin VocSetup \cup {"return"}
        BY DEF VocSetup, VocStages
      <3> QED
        BY <2>1, <2>3, <3>1 DEF VocInv, VocNews
    <2>5. Len(news') <= VocDone("tunnel") + VocDone("ims")
      BY <2>1, <2>3, <2>4
    <2> QED
      BY <2>1, <2>2, <2>3, <2>5 DEF VocNews
  <1>7. VocPhases'
    BY DEF VocInv, VocPhases, VocStages
  <1> QED
    BY <1>2, <1>3, <1>4, <1>5, <1>6, <1>7 DEF VocInv

\* The steps by which the loop reads and decides.
LEMMA VocThought ==
    ASSUME VocInv, Voc!SessionConstants,
           Voc!GivesUp \/ Voc!Drain \/ Voc!Follow \/ Voc!Decide \/ Voc!Delay
    PROVE  VocInv'
  <1>1. VocTypes /\ VocFaultsPaid /\ VocPhases /\ VocRecords
    BY DEF VocInv
  <1>2. /\ UNCHANGED <<ctx, want, rf, sends, sms, ok, vocLock, st, res, vocCancelled, clean, errs, watch, open,
                       vocDoubt, taken, vocFaults>>
        /\ vocPc \in {"enter", "return", "watch", "decide", "delay"}
    BY DEF Voc!GivesUp, Voc!Drain, Voc!Follow, Voc!Decide, Voc!Delay, Voc!world
  <1>3. /\ st \in Voc!State /\ vocSeen \in Voc!State /\ news \in Seq(Voc!State) /\ registrar \in 0 .. RegistrarLimit
        /\ shown \in {"radio-off", "reconnecting", "connected"} /\ RegistrarLimit \in Nat
        /\ st.phase \in {"idle", "setup", "failed", "stopping", "sms", "tunnel", "ims"}
    BY <1>1 DEF VocTypes, Voc!State, Voc!Layers, Voc!SessionConstants
  <1>4. CASE Voc!GivesUp
    <2>1. /\ vocPc = "enter" /\ vocPc' = "stop" /\ ctx /\ UNCHANGED <<vocSeen, news, shown, registrar, outcome>>
      BY <1>4 DEF Voc!GivesUp
    <2>7. VocRecords'
      BY <1>1, <1>2, <2>1 DEF VocRecords, VocRecorded, VocStages
    <2>2. vocSeen.err \in VocRetries => VocSpent
      BY <1>1 DEF VocFaultsPaid
    <2>3. news' = <<>> \/ (vocPc # "return" /\ news # <<>> /\ Len(news') <= Len(news))
      BY <1>3, <2>1
    <2>4. vocSeen' \in Voc!State /\ news' \in Seq(Voc!State)
      BY <1>3, <2>1
    <2> QED
      BY <1>2, <1>3, <2>1, <2>2, <2>3, <2>4, <2>7, VocThinks
  <1>5. CASE Voc!Drain
    <2>1. /\ vocPc = "return" /\ vocSeen' = st /\ news' = <<>> /\ UNCHANGED outcome
          /\ \/ /\ ok /\ st.phase # "failed" /\ vocPc' = "watch" /\ shown' = Voc!Report(st)
                /\ registrar' \in {0, registrar}
             \/ ~ (ok /\ st.phase # "failed") /\ vocPc' = "decide" /\ UNCHANGED <<shown, registrar>>
      BY <1>5 DEF Voc!Drain
    <2>7. VocRecords'
      BY <1>1, <1>2, <2>1 DEF VocRecords, VocRecorded, VocStages, VocPhases
    <2>2. st.err \in VocRetries => VocSpent
      BY <1>1 DEF VocFaultsPaid
    <2>3. ok \/ st.phase = "failed"
      BY <1>1, <2>1 DEF VocPhases
    <2>4. news' \in Seq(Voc!State) /\ vocSeen' \in Voc!State
      BY <1>3, <2>1
    <2>5. Voc!Report(st) \in {"connected", "reconnecting"} /\ (Voc!Report(st) = "connected" => st.ims /\ st.tunnel)
      BY DEF Voc!Report
    <2>6. shown' \in {"radio-off", "reconnecting", "connected"} /\ registrar' \in 0 .. RegistrarLimit
      BY <1>3, <2>1, <2>5
    <2> QED
      BY <1>2, <2>1, <2>2, <2>3, <2>4, <2>5, <2>6, <2>7, VocThinks
  <1>6. CASE Voc!Follow
    <2>1. /\ vocPc = "watch" /\ UNCHANGED <<shown, registrar, outcome>>
          /\ \/ ctx /\ vocPc' = "stop" /\ UNCHANGED <<vocSeen, news>>
             \/ news # <<>> /\ vocSeen' = Head(news) /\ news' = Tail(news) /\ vocPc' = "decide"
      BY <1>6 DEF Voc!Follow
    <2>7. VocRecords'
      BY <1>1, <1>2, <2>1 DEF VocRecords, VocRecorded, VocStages
    <2>2. vocSeen.err \in VocRetries => VocSpent
      BY <1>1 DEF VocFaultsPaid
    <2>3. news # <<>> => VocSpent /\ st.phase = "failed"
      BY <1>1, <2>1 DEF VocFaultsPaid, VocPhases, VocSetup, VocStages
    <2>4. /\ vocSeen' \in Voc!State /\ news' \in Seq(Voc!State)
          /\ news' = <<>> \/ (vocPc # "return" /\ news # <<>> /\ Len(news') <= Len(news))
      BY <1>3, <2>1
    <2> QED
      BY <1>2, <1>3, <2>1, <2>2, <2>3, <2>4, <2>7, VocThinks
  <1>7. CASE Voc!Decide
    <2>1. /\ vocPc = "decide" /\ shown' = "reconnecting" /\ UNCHANGED <<vocSeen, news>>
          /\ outcome' = IF ~ ctx /\ vocSeen.cleanup THEN "unconfirmed" ELSE outcome
          /\ \/ /\ vocPc' = "delay" /\ vocSeen.err \in VocRetries /\ ~ vocSeen.cleanup
                /\ \/ vocSeen.err = "retryafter" /\ registrar < RegistrarLimit /\ registrar' = registrar + 1
                   \/ registrar' = registrar + 0
             \/ vocPc' = "stop" /\ UNCHANGED registrar
      BY <1>7 DEF Voc!Decide, Voc!vocatRegistrationRetryDelay, VocRetries
    <2>2. /\ vocSeen.err \in VocRetries => VocSpent
          /\ st.phase = "failed"
      BY <1>1, <2>1 DEF VocFaultsPaid, VocPhases
    <2>7. VocRecords'
      BY <1>1, <1>2, <2>1, <2>2 DEF VocRecords, VocRecorded, VocStages
    <2>8. outcome' = outcome \/ (outcome' = "unconfirmed" /\ vocPc' = "stop")
      BY <2>1
    <2>3. /\ vocSeen' \in Voc!State /\ news' \in Seq(Voc!State)
          /\ news' = <<>> \/ (vocPc # "return" /\ news # <<>> /\ Len(news') <= Len(news))
      BY <1>3, <2>1
    <2>4. registrar' \in 0 .. RegistrarLimit
      BY <1>3, <2>1
    <2> QED
      BY <1>2, <1>3, <2>1, <2>2, <2>3, <2>4, <2>7, <2>8, VocThinks
  <1>8. CASE Voc!Delay
    <2>1. /\ vocPc = "delay" /\ vocPc' = IF ctx THEN "stop" ELSE "enter"
          /\ UNCHANGED <<vocSeen, news, shown, registrar, outcome>>
      BY <1>8 DEF Voc!Delay
    <2>7. VocRecords'
      BY <1>1, <1>2, <2>1 DEF VocRecords, VocRecorded, VocStages
    <2>2. /\ vocSeen.err \in VocRetries => VocSpent
          /\ VocSpent /\ st.phase \in {"idle", "failed"}
      BY <1>1, <2>1 DEF VocFaultsPaid, VocPhases
    <2>3. news' = <<>> \/ (vocPc # "return" /\ news # <<>> /\ Len(news') <= Len(news))
      BY <1>3, <2>1
    <2>4. vocSeen' \in Voc!State /\ news' \in Seq(Voc!State)
      BY <1>3, <2>1
    <2> QED
      BY <1>2, <1>3, <2>1, <2>2, <2>3, <2>4, <2>7, VocThinks
  <1> QED
    BY <1>4, <1>5, <1>6, <1>7, <1>8

\* A stop, and a message that asks to be sent.
LEMMA VocAsked ==
    ASSUME VocInv, Voc!SessionConstants, Voc!Stop \/ Voc!Send
    PROVE  VocInv'
  <1>1. /\ UNCHANGED <<vocPc, ok, vocSeen, shown, registrar, rf, news, vocLock, st, res, vocCancelled, clean, errs,
                       watch, outcome, open, vocDoubt, taken, vocFaults>>
        /\ \/ /\ vocPc \notin {"stop", "stopping", "ended"} /\ ctx' = TRUE /\ want' \in BOOLEAN /\ UNCHANGED <<sms, sends>>
           \/ /\ sms = "idle" /\ sms' = "wants" /\ sends > 0 /\ sends' = sends - 1 /\ UNCHANGED <<ctx, want>>
    BY DEF Voc!Stop, Voc!Send, Voc!loop
  <1>2. VocTypes'
    <2>1. VocTypes
      BY DEF VocInv
    <2>2. sends' \in 0 .. MaxSends
      BY <1>1, <2>1 DEF VocTypes, Voc!SessionConstants
    <2>3. ctx' \in BOOLEAN /\ want' \in BOOLEAN /\ sms' \in {"idle", "wants", "sending"}
      BY <1>1, <2>1 DEF VocTypes
    <2> QED
      BY <1>1, <2>1, <2>2, <2>3 DEF VocTypes
  <1>3. VocLocks' /\ VocSessions' /\ VocOpen'
    BY <1>1 DEF VocInv, VocLocks, VocSessions, VocOpen
  <1>4. VocWatches' /\ VocFaultsPaid'
    BY <1>1 DEF VocInv, VocWatches, VocFaultsPaid, VocSpent
  <1>5. VocNews' /\ VocPhases'
    BY <1>1 DEF VocInv, VocNews, VocDone, VocPhases
  <1>6. VocRadio' /\ VocRecords'
    BY <1>1 DEF VocInv, VocRadio, VocRecords, VocRecorded
  <1> QED
    BY <1>2, <1>3, <1>4, <1>5, <1>6 DEF VocInv

\* A message is sent under the lock, or finds no session.
LEMMA VocSends ==
    ASSUME VocInv, Voc!SessionConstants, Voc!SendSMS
    PROVE  VocInv'
  <1>1. /\ UNCHANGED <<ctx, want, rf, sends, vocPc, ok, vocSeen, shown, registrar, news, st, res, vocCancelled, clean,
                       errs, watch, outcome, open, vocDoubt, taken, vocFaults>>
        /\ \/ /\ sms = "wants" /\ vocLock = <<"free">>
              /\ \/ res.ims /\ sms' = "sending" /\ vocLock' = <<"sms">>
                 \/ sms' = "idle" /\ vocLock' = vocLock
           \/ sms = "sending" /\ sms' = "idle" /\ vocLock' = <<"free">>
    BY DEF Voc!SendSMS, Voc!Free, Voc!loop
  <1>2. VocTypes'
    BY <1>1 DEF VocInv, VocTypes
  <1>3. VocLocks'
    BY <1>1, VocNames DEF VocInv, VocLocks
  <1>4. VocSessions' /\ VocOpen'
    BY <1>1 DEF VocInv, VocSessions, VocOpen
  <1>5. VocWatches' /\ VocFaultsPaid'
    BY <1>1 DEF VocInv, VocWatches, VocFaultsPaid, VocSpent
  <1>6. VocNews' /\ VocRadio'
    BY <1>1 DEF VocInv, VocNews, VocDone, VocRadio
  <1>7. VocPhases'
    BY <1>1 DEF VocInv, VocPhases, VocLocks, VocSessions
  <1>8. VocRecords'
    <2>1. VocRecords /\ (vocLock \notin Voc!Watchers \/ vocLock' = vocLock)
      BY <1>1, VocNames DEF VocInv, VocLocks
    <2> QED
      BY <1>1, <2>1 DEF VocRecords, VocRecorded
  <1> QED
    BY <1>2, <1>3, <1>4, <1>5, <1>6, <1>7, <1>8 DEF VocInv

\* What holds while Enable brings an attempt up.
LEMMA VocBringsUp ==
    ASSUME VocInv, Voc!SessionConstants, vocPc \in VocStages
    PROVE  /\ VocTypes /\ vocLock = <<"loop">> /\ res.att = st.att /\ st.att > 0 /\ st.att \in Voc!Attempts
           /\ clean = "no" /\ sms # "sending" /\ rf = "off" /\ outcome = "none" /\ st.phase # "failed"
           /\ \A x \in Voc!Watchers : watch[x].at # "cleaning"
           /\ st.att \in Nat /\ vocFaults \in Nat /\ MaxFaults \in Nat
           /\ \A x \in Voc!Watchers : vocDoubt[x] # "known" /\ vocDoubt[x] # "final"
           /\ \A x \in Voc!Watchers : x[1] >= st.att => vocDoubt[x] = "none"
  <1>1. VocTypes
    BY DEF VocInv
  <1>2. st.att \in Nat /\ vocFaults \in Nat /\ MaxFaults \in Nat /\ st.att <= MaxFaults + 1
    BY <1>1 DEF VocTypes, Voc!State, Voc!SessionConstants
  <1>3. vocLock = <<"loop">> /\ res.att = st.att /\ st.att > 0
    BY DEF VocInv, VocLocks, VocSessions, VocOpen, VocSetup
  <1>4. clean = "no" /\ sms # "sending" /\ \A x \in Voc!Watchers : watch[x].at # "cleaning"
    BY <1>3, VocNames DEF VocInv, VocLocks, VocStages
  <1>5. rf = "off" /\ outcome = "none" /\ st.phase # "failed"
    BY <1>1 DEF VocInv, VocRadio, VocPhases, VocStages, VocTypes
  <1>6. \A x \in Voc!Watchers : vocDoubt[x] # "known" /\ vocDoubt[x] # "final"
    BY <1>5 DEF VocInv, VocRecords, VocRecorded, VocStages
  <1>7. \A x \in Voc!Watchers : x[1] >= st.att => vocDoubt[x] = "none"
    BY <1>2, VocNames DEF VocInv, VocRecords
  <1> QED
    BY <1>1, <1>2, <1>3, <1>4, <1>5, <1>6, <1>7 DEF Voc!Attempts

\* The loop takes the lock for a new attempt, which keeps the radio's checkpoint of a failed one.
LEMMA VocEnter ==
    ASSUME VocInv, Voc!SessionConstants, Voc!Enter
    PROVE  VocInv'
  <1> DEFINE a == st.att + 1
             kept == st.phase = "failed" /\ res.radio
  <1>1. /\ vocPc = "enter" /\ vocLock = <<"free">> /\ vocLock' = <<"loop">> /\ vocPc' \in {"rfoff", "snapshot"}
        /\ st' = [Voc!Idle EXCEPT !.att = a] /\ res' = [Voc!NoRes EXCEPT !.att = a, !.radio = kept]
        /\ vocSeen' = Voc!Idle
        /\ UNCHANGED <<ctx, want, rf, sends, sms, ok, shown, registrar, news, vocCancelled, clean, errs, watch, outcome,
                       open, vocDoubt, taken, vocFaults>>
    BY DEF Voc!Enter, Voc!Free, Voc!world
  <1>2. VocTypes /\ st.att \in Nat /\ vocFaults \in Nat /\ MaxFaults \in Nat
    BY DEF VocInv, VocTypes, Voc!State, Voc!SessionConstants
  <1>3. VocSpent /\ st.phase \in {"idle", "failed"} /\ a <= MaxFaults + 1 /\ a \in Nat
        /\ a = st.att + 1 /\ kept = (st.phase = "failed" /\ res.radio)
    BY <1>1, <1>2 DEF VocInv, VocFaultsPaid, VocPhases, VocSpent
  <1>4. /\ st' \in Voc!State /\ st'.att = a /\ st'.phase = "idle" /\ st'.err = "none" /\ ~ st'.tunnel /\ ~ st'.ims
        /\ vocSeen' \in Voc!State /\ vocSeen'.err = "none"
    <2>1. st' = [phase |-> "idle", att |-> a, tunnel |-> FALSE, ims |-> FALSE, sms |-> FALSE, cleanup |-> FALSE,
                 err |-> "none"]
      BY <1>1 DEF Voc!Idle
    <2>2. vocSeen' = [phase |-> "idle", att |-> 0, tunnel |-> FALSE, ims |-> FALSE, sms |-> FALSE, cleanup |-> FALSE,
                      err |-> "none"]
      BY <1>1 DEF Voc!Idle
    <2>3. a \in 0 .. MaxFaults + 1 /\ 0 \in 0 .. MaxFaults + 1
      BY <1>2, <1>3
    <2> HIDE DEF a
    <2> QED
      BY <2>1, <2>2, <2>3 DEF Voc!State
  <1>5. /\ res' \in [att : 0 .. MaxFaults + 1, tunnel : BOOLEAN, ims : BOOLEAN, radio : BOOLEAN]
        /\ res'.att = a /\ ~ res'.tunnel /\ ~ res'.ims /\ res'.radio = kept
    <2>1. res' = [att |-> a, tunnel |-> FALSE, ims |-> FALSE, radio |-> kept]
      BY <1>1 DEF Voc!NoRes
    <2>2. kept \in BOOLEAN /\ a \in 0 .. MaxFaults + 1
      BY <1>2, <1>3 DEF VocTypes
    <2> HIDE DEF a, kept
    <2> QED
      BY <2>1, <2>2
  <1> HIDE DEF a, kept
  <1>6. VocTypes'
    <2>1. vocPc' \in VocSetup /\ vocLock' \in {<<"free">>, <<"loop">>, <<"sms">>}
      BY <1>1 DEF VocSetup, VocStages
    <2>2. UNCHANGED <<ctx, want, rf, sends, sms, ok, shown, registrar, news, vocCancelled, clean, errs, watch, outcome,
                       vocDoubt, taken, vocFaults>>
      BY <1>1
    <2> QED
      BY <1>2, <1>4, <1>5, <2>1, <2>2 DEF VocTypes
  <1>7. clean = "no" /\ sms # "sending" /\ \A x \in Voc!Watchers : watch[x].at # "cleaning"
    BY <1>1, VocNames DEF VocInv, VocLocks
  <1>8. VocLocks'
    BY <1>1, <1>7, VocNames DEF VocLocks, VocSetup, VocStages
  <1>9. st.phase = "idle" => st.att = 0 /\ ~ taken
    BY <1>1 DEF VocInv, VocPhases, VocStages
  <1>10. ~ res.tunnel /\ ~ res.ims
    BY <1>2, <1>3, <1>9 DEF VocInv, VocSessions
  <1>11. VocOpen'
    <2>1. \A x \in Voc!Watchers : ~ res[x[2]] /\ ~ res'[x[2]]
      BY <1>5, <1>10, VocNames
    <2> QED
      BY <1>1, <2>1 DEF VocInv, VocOpen
  <1>12. VocSessions'
    BY <1>1, <1>2, <1>3, <1>4, <1>5, <1>7 DEF VocSessions
  <1>13. ASSUME NEW x \in Voc!Watchers, x[1] >= a
         PROVE  watch'[x].at = "off"
    BY <1>1, <1>2, <1>3, <1>13, VocNames DEF VocInv, VocWatches
  <1>14. VocWatches'
    BY <1>1, <1>2, <1>3, <1>4, <1>13, VocNames DEF VocWatches
  <1>15. VocFaultsPaid'
    <2>1. a + vocFaults <= MaxFaults + 1
      BY <1>2, <1>3 DEF VocSpent
    <2>2. \A x \in Voc!Watchers : x[1] = a => watch'[x].at = "off"
      BY <1>2, <1>13, VocNames
    <2> QED
      BY <1>1, <1>4, <2>1, <2>2 DEF VocFaultsPaid, VocRetries, VocSetup, VocStages
  <1>16. VocNews'
    <2>1. VocDone("tunnel") \in {0, 1} /\ VocDone("ims") \in {0, 1}
      BY DEF VocDone
    <2>2. Len(news) <= 2 /\ Len(news) \in Nat
      BY <1>1, <1>2, <2>1 DEF VocInv, VocNews, VocSetup, VocStages, VocTypes
    <2>3. VocDone("tunnel")' \in {0, 1} /\ VocDone("ims")' \in {0, 1}
      BY DEF VocDone
    <2> QED
      BY <1>1, <2>2, <2>3 DEF VocNews, VocSetup, VocStages
  <1>17. VocPhases'
    BY <1>1, <1>4 DEF VocPhases, VocStages
  <1>18. VocRadio'
    BY <1>1, <1>3, <1>5, <1>9 DEF VocInv, VocRadio
  <1>19. VocRecords'
    <2>1. \A x \in Voc!Watchers : x[1] >= a => x[1] > st.att
      BY <1>2, <1>3, VocNames
    <2>2. \A x \in Voc!Watchers : x[1] > a \/ x[1] = a => x[1] >= a
      BY <1>3, VocNames
    <2> QED
      BY <1>1, <1>4, <2>1, <2>2 DEF VocInv, VocRecords, VocRecorded, VocStages
  <1> QED
    BY <1>6, <1>8, <1>11, <1>12, <1>14, <1>15, <1>16, <1>17, <1>18, <1>19 DEF VocInv

\* A stage fails: the attempt is to be cleaned.
LEMMA VocStageFails ==
    ASSUME VocInv, Voc!SessionConstants, NEW s \in VocStages, Voc!StageFails(s)
    PROVE  VocInv'
  <1>1. PICK e \in Voc!StageErrors(s) :
           /\ vocPc = s /\ vocPc' = "failing" /\ ok' = FALSE /\ vocCancelled' = vocCancelled \cup {res.att}
           /\ clean' = "ims" /\ errs' = FALSE /\ vocSeen' = [vocSeen EXCEPT !.err = e]
           /\ IF e = "canceled" THEN UNCHANGED vocFaults ELSE vocFaults > 0 /\ vocFaults' = vocFaults - 1
           /\ UNCHANGED <<ctx, want, rf, sends, sms, shown, registrar, news, vocLock, st, res, watch, outcome, open,
                          vocDoubt, taken>>
    BY DEF Voc!StageFails, Voc!Fail, Voc!Fault, Voc!world
  <1>2. /\ VocTypes /\ vocLock = <<"loop">> /\ res.att = st.att /\ st.att > 0 /\ st.att \in Voc!Attempts
        /\ clean = "no" /\ sms # "sending" /\ rf = "off" /\ outcome = "none" /\ st.phase # "failed"
        /\ \A x \in Voc!Watchers : watch[x].at # "cleaning"
        /\ st.att \in Nat /\ vocFaults \in Nat /\ MaxFaults \in Nat
        /\ \A x \in Voc!Watchers : vocDoubt[x] # "known" /\ vocDoubt[x] # "final"
        /\ \A x \in Voc!Watchers : x[1] >= st.att => vocDoubt[x] = "none"
    BY <1>1, VocBringsUp
  <1>3. e \in Voc!Errors \cup {"none", "canceled"}
    BY DEF Voc!StageErrors, Voc!Errors
  <1>4. vocSeen' \in Voc!State /\ vocSeen'.err = e
    BY <1>1, <1>2, <1>3 DEF VocTypes, Voc!State
  <1>5. vocFaults' \in 0 .. MaxFaults /\ vocFaults' <= vocFaults /\ (e \in VocRetries => vocFaults' = vocFaults - 1)
    BY <1>1, <1>2 DEF VocTypes, VocRetries
  <1>6. VocTypes'
    BY <1>1, <1>2, <1>4, <1>5 DEF VocTypes, VocSetup, VocStages
  <1>7. VocLocks'
    BY <1>1, <1>2, VocNames DEF VocLocks, VocSetup, VocStages
  <1>8. VocSessions' /\ VocOpen'
    BY <1>1, <1>2 DEF VocInv, VocSessions, VocOpen
  <1>9. VocWatches'
    BY <1>1 DEF VocInv, VocWatches
  <1>10. VocFaultsPaid'
    BY <1>1, <1>2, <1>4, <1>5 DEF VocInv, VocFaultsPaid, VocSpent, VocSetup, VocStages
  <1>11. VocNews'
    <2>1. VocDone("tunnel")' = VocDone("tunnel") /\ VocDone("ims")' = VocDone("ims")
      BY <1>1 DEF VocDone
    <2> QED
      BY <1>1, <2>1 DEF VocInv, VocNews, VocSetup, VocStages
  <1>12. VocPhases'
    BY <1>1, <1>2 DEF VocInv, VocPhases, VocStages
  <1>13. VocRadio'
    BY <1>1, <1>2 DEF VocInv, VocRadio, VocStages
  <1>14. VocRecords'
    BY <1>1, <1>2 DEF VocInv, VocRecords, VocStages
  <1> QED
    BY <1>6, <1>7, <1>8, <1>9, <1>10, <1>11, <1>12, <1>13, <1>14 DEF VocInv

\* The stage that follows each.
LEMMA VocOrder ==
    /\ Voc!Next_("snapshot") = "rfoff" /\ Voc!Next_("rfoff") = "sim" /\ Voc!Next_("sim") = "access"
    /\ Voc!Next_("access") = "tunnel" /\ Voc!Next_("tunnel") = "ims" /\ Voc!Next_("ims") = "sms"
  <1>1. Voc!Next_("snapshot") = "rfoff"
    BY DEF Voc!Next_, Voc!Stages
  <1>2. Voc!Next_("rfoff") = "sim"
    BY DEF Voc!Next_, Voc!Stages
  <1>3. Voc!Next_("sim") = "access"
    BY DEF Voc!Next_, Voc!Stages
  <1>4. Voc!Next_("access") = "tunnel"
    BY DEF Voc!Next_, Voc!Stages
  <1>5. Voc!Next_("tunnel") = "ims"
    BY DEF Voc!Next_, Voc!Stages
  <1>6. Voc!Next_("ims") = "sms"
    BY DEF Voc!Next_, Voc!Stages
  <1> QED
    BY <1>1, <1>2, <1>3, <1>4, <1>5, <1>6

\* A stage passes.
LEMMA VocStagePasses ==
    ASSUME VocInv, Voc!SessionConstants, NEW s \in VocStages, Voc!StagePasses(s)
    PROVE  VocInv'
  <1>1. /\ vocPc = s /\ s \in {"snapshot", "rfoff", "sim", "access"}
        /\ vocPc' \in {"rfoff", "sim", "access", "tunnel"} /\ (vocPc' = "tunnel" <=> s = "access")
        /\ res' = IF s = "snapshot" THEN [res EXCEPT !.radio = TRUE] ELSE res
        /\ taken' = (taken \/ s = "snapshot")
        /\ st' = IF s = "access" THEN [st EXCEPT !.phase = "setup"] ELSE st
        /\ UNCHANGED <<ctx, want, rf, sends, sms, ok, vocSeen, shown, registrar, news, vocLock, vocCancelled, clean, errs,
                       watch, outcome, open, vocDoubt, vocFaults>>
    BY VocOrder DEF Voc!StagePasses, Voc!world, VocStages
  <1>2. /\ VocTypes /\ vocLock = <<"loop">> /\ res.att = st.att /\ st.att > 0 /\ st.att \in Voc!Attempts
        /\ clean = "no" /\ sms # "sending" /\ rf = "off" /\ outcome = "none" /\ st.phase # "failed"
        /\ \A x \in Voc!Watchers : watch[x].at # "cleaning"
        /\ st.att \in Nat /\ vocFaults \in Nat /\ MaxFaults \in Nat
        /\ \A x \in Voc!Watchers : vocDoubt[x] # "known" /\ vocDoubt[x] # "final"
        /\ \A x \in Voc!Watchers : x[1] >= st.att => vocDoubt[x] = "none"
    BY <1>1, VocBringsUp
  <1>3. /\ res' \in [att : 0 .. MaxFaults + 1, tunnel : BOOLEAN, ims : BOOLEAN, radio : BOOLEAN]
        /\ res'.att = res.att /\ res'.tunnel = res.tunnel /\ res'.ims = res.ims /\ (res.radio => res'.radio)
        /\ s = "snapshot" => res'.radio
        /\ res'["tunnel"] = res["tunnel"] /\ res'["ims"] = res["ims"]
    BY <1>1, <1>2 DEF VocTypes
  <1>4. /\ st' \in Voc!State /\ st'.att = st.att /\ st'.tunnel = st.tunnel /\ st'.ims = st.ims /\ st'.err = st.err
        /\ st'.phase \in {st.phase, "setup"} /\ (s = "access" => st'.phase = "setup")
    BY <1>1, <1>2 DEF VocTypes, Voc!State
  <1>5. taken' \in BOOLEAN
    BY <1>1, <1>2 DEF VocTypes
  <1>6. VocTypes'
    BY <1>1, <1>2, <1>3, <1>4, <1>5 DEF VocTypes, VocSetup, VocStages
  <1>7. VocLocks'
    BY <1>1, <1>2, VocNames DEF VocLocks, VocSetup, VocStages
  <1>8. VocSessions' /\ VocOpen'
    <2>1. VocOpen'
      BY <1>1, <1>3, VocNames DEF VocInv, VocOpen
    <2> QED
      BY <1>1, <1>2, <1>3, <1>4, <2>1 DEF VocInv, VocSessions
  <1>9. VocWatches'
    BY <1>1, <1>4 DEF VocInv, VocWatches
  <1>10. VocFaultsPaid'
    BY <1>1, <1>4 DEF VocInv, VocFaultsPaid, VocSpent, VocSetup, VocStages
  <1>11. VocNews'
    <2>1. VocDone("tunnel")' = VocDone("tunnel") /\ VocDone("ims")' = VocDone("ims")
      BY <1>1, <1>4 DEF VocDone
    <2> QED
      BY <1>1, <2>1 DEF VocInv, VocNews, VocSetup, VocStages
  <1>12. VocPhases'
    BY <1>1, <1>2, <1>4 DEF VocInv, VocPhases, VocStages
  <1>13. VocRadio'
    BY <1>1, <1>2, <1>3 DEF VocInv, VocRadio, VocStages
  <1>14. \A x \in Voc!Watchers : x[1] > st.att \/ x[1] = st.att => x[1] >= st.att
    BY <1>2, VocNames
  <1>15. VocRecords'
    BY <1>1, <1>2, <1>4, <1>14 DEF VocRecords
  <1> QED
    BY <1>6, <1>7, <1>8, <1>9, <1>10, <1>11, <1>12, <1>13, <1>15 DEF VocInv

\* A session comes up, or its evidence is refused: either way it is the orchestrator's.
LEMMA VocStartSession ==
    ASSUME VocInv, Voc!SessionConstants, NEW s \in VocStages, Voc!StartSession(s)
    PROVE  VocInv'
  <1> DEFINE me == <<st.att, s>>
  <1>1. vocPc = s /\ s \in {"tunnel", "ims"}
    BY DEF Voc!StartSession, Voc!Layers
  <1>2. /\ VocTypes /\ vocLock = <<"loop">> /\ res.att = st.att /\ st.att > 0 /\ st.att \in Voc!Attempts
        /\ clean = "no" /\ sms # "sending" /\ rf = "off" /\ outcome = "none" /\ st.phase # "failed"
        /\ \A x \in Voc!Watchers : watch[x].at # "cleaning"
        /\ st.att \in Nat /\ vocFaults \in Nat /\ MaxFaults \in Nat
        /\ \A x \in Voc!Watchers : vocDoubt[x] # "known" /\ vocDoubt[x] # "final"
        /\ \A x \in Voc!Watchers : x[1] >= st.att => vocDoubt[x] = "none"
    BY <1>1, VocBringsUp
  <1>3. /\ open' = open \cup {me} /\ res' = [res EXCEPT ![s] = TRUE]
        /\ UNCHANGED <<ctx, want, rf, sends, sms, shown, registrar, news, vocLock, outcome, vocDoubt, taken>>
        /\ watch' = watch \/ watch' = [watch EXCEPT ![me].at = "on"]
        /\ \/ /\ vocPc' = Voc!Next_(s) /\ st' = [st EXCEPT !.phase = s, ![s] = TRUE]
              /\ UNCHANGED <<ok, vocCancelled, clean, errs, vocSeen, vocFaults>>
           \/ /\ vocPc' = "failing" /\ ok' = FALSE /\ vocCancelled' = vocCancelled \cup {res.att}
              /\ clean' = "ims" /\ errs' = FALSE /\ vocSeen' = [vocSeen EXCEPT !.err = "permanent"]
              /\ vocFaults > 0 /\ vocFaults' = vocFaults - 1 /\ UNCHANGED st
    BY <1>2 DEF Voc!StartSession, Voc!Adopt, Voc!Fail, Voc!Fault, Voc!world
  <1>4. me \in Voc!Watchers /\ me[1] = st.att /\ me[2] = s /\ watch[me].at = "off"
    <2>1. me \in Voc!Watchers /\ me[1] = st.att /\ me[2] = s
      BY <1>1, <1>2, VocNames
    <2> QED
      BY <1>1, <2>1 DEF VocInv, VocWatches
  <1>5. /\ res' \in [att : 0 .. MaxFaults + 1, tunnel : BOOLEAN, ims : BOOLEAN, radio : BOOLEAN]
        /\ res'.att = res.att /\ res'.radio = res.radio /\ res'[s] = TRUE
        /\ \A l \in {"tunnel", "ims"} : l # s => res'[l] = res[l]
        /\ res.tunnel => res'.tunnel
        /\ res.ims => res'.ims
        /\ s = "tunnel" => res'.tunnel
        /\ s = "ims" => res'.ims
    <2>1. CASE s = "tunnel"
      BY <1>2, <1>3, <2>1 DEF VocTypes
    <2>2. CASE s = "ims"
      BY <1>2, <1>3, <2>2 DEF VocTypes
    <2> QED
      BY <1>1, <2>1, <2>2
  <1>6. /\ st' \in Voc!State /\ st'.att = st.att /\ st'.err = st.err
        /\ st'.phase # "failed" /\ st'.phase # "idle"
        /\ st'.tunnel => st.tunnel \/ s = "tunnel"
        /\ st'.ims => st.ims \/ s = "ims"
    <2>1. st.phase # "idle" /\ st.phase # "failed" /\ st \in Voc!State
      BY <1>1, <1>2 DEF VocInv, VocPhases, VocTypes
    <2>2. CASE s = "tunnel"
      BY <1>3, <2>1, <2>2 DEF Voc!State, Voc!Layers
    <2>3. CASE s = "ims"
      BY <1>3, <2>1, <2>3 DEF Voc!State, Voc!Layers
    <2> QED
      BY <1>1, <2>2, <2>3
  <1>7. /\ watch' \in [Voc!Watchers -> [at : {"off", "on", "waiting", "cleaning", "done"}, why : Voc!Errors]]
        /\ \A x \in Voc!Watchers : x # me => watch'[x] = watch[x]
        /\ watch'[me].at \in {"off", "on"}
    <2>1. /\ watch \in [Voc!Watchers -> [at : {"off", "on", "waiting", "cleaning", "done"}, why : Voc!Errors]]
          /\ me \in Voc!Watchers /\ watch[me].at = "off"
      BY <1>2, <1>4 DEF VocTypes
    <2>2. [watch[me] EXCEPT !.at = "on"] \in [at : {"off", "on", "waiting", "cleaning", "done"}, why : Voc!Errors]
      BY <2>1
    <2>3. watch' = watch \/ watch' = [watch EXCEPT ![me] = [watch[me] EXCEPT !.at = "on"]]
      BY <1>3
    <2> HIDE DEF me
    <2> QED
      BY <2>1, <2>2, <2>3
  <1>8. /\ vocPc' \in {"ims", "sms", "failing"} /\ (vocPc' = "ims" => s = "tunnel") /\ vocPc' \in VocSetup
        /\ vocPc' = "failing" <=> clean' # "no"
        /\ clean' \in {"no", "ims"}
    BY <1>1, <1>2, <1>3, VocOrder DEF VocSetup, VocStages
  <1>9. /\ vocSeen' \in Voc!State /\ vocSeen'.err \in {vocSeen.err, "permanent"}
        /\ vocFaults' \in 0 .. MaxFaults /\ vocFaults' <= vocFaults
        /\ vocCancelled' \subseteq Voc!Attempts /\ ok' \in BOOLEAN /\ errs' \in BOOLEAN
    <2>1. vocSeen \in Voc!State /\ vocFaults \in 0 .. MaxFaults /\ vocCancelled \subseteq Voc!Attempts
          /\ ok \in BOOLEAN /\ errs \in BOOLEAN
      BY <1>2 DEF VocTypes
    <2>2. [vocSeen EXCEPT !.err = "permanent"] \in Voc!State /\ [vocSeen EXCEPT !.err = "permanent"].err = "permanent"
      BY <2>1 DEF Voc!State, Voc!Errors
    <2>3. res.att \in Voc!Attempts /\ MaxFaults \in Nat
      BY <1>2
    <2>4. CASE UNCHANGED <<ok, vocCancelled, clean, errs, vocSeen, vocFaults>>
      BY <2>1, <2>3, <2>4
    <2>5. CASE /\ ok' = FALSE /\ vocCancelled' = vocCancelled \cup {res.att}
               /\ errs' = FALSE /\ vocSeen' = [vocSeen EXCEPT !.err = "permanent"]
               /\ vocFaults > 0 /\ vocFaults' = vocFaults - 1
      <3>1. vocCancelled' \subseteq Voc!Attempts
        BY <2>1, <2>3, <2>5
      <3>2. vocFaults' \in 0 .. MaxFaults /\ vocFaults' <= vocFaults
        BY <2>1, <2>3, <2>5
      <3> QED
        BY <2>2, <2>5, <3>1, <3>2
    <2> QED
      BY <1>3, <2>4, <2>5
  <1> HIDE DEF me
  <1>10. VocTypes'
    <2>1. UNCHANGED <<ctx, want, rf, sends, sms, shown, registrar, news, vocLock, outcome, vocDoubt, taken>>
      BY <1>3
    <2>2. clean' \in {"no", "ims", "tunnel", "radio", "done"}
      BY <1>8
    <2> QED
      BY <1>2, <1>5, <1>6, <1>7, <1>8, <1>9, <2>1, <2>2 DEF VocTypes
  <1>11. VocLocks'
    <2>1. vocLock' = <<"loop">> /\ sms' # "sending" /\ \A x \in Voc!Watchers : watch'[x].at # "cleaning"
      BY <1>2, <1>3, <1>7
    <2> QED
      BY <1>8, <2>1, VocNames DEF VocLocks
  <1>12. VocSessions'
    <2>1. VocSessions /\ clean = "no" /\ res.att = st.att /\ st.att > 0 /\ sms' = sms /\ st'.att = st.att
      BY <1>2, <1>3, <1>6 DEF VocInv
    <2>2. /\ res'.att = res.att /\ (res.tunnel => res'.tunnel) /\ (res.ims => res'.ims)
          /\ (s = "tunnel" => res'.tunnel) /\ (s = "ims" => res'.ims)
          /\ st'.phase # "failed" /\ (st'.tunnel => st.tunnel \/ s = "tunnel") /\ (st'.ims => st.ims \/ s = "ims")
      BY <1>5, <1>6
    <2>3. st.att # 0
      BY <1>2
    <2> QED
      BY <2>1, <2>2, <2>3 DEF VocSessions
  <1>13. VocOpen'
    <2>1. VocOpen /\ vocDoubt[me] = "none" /\ vocDoubt' = vocDoubt
      BY <1>2, <1>3, <1>4 DEF VocInv
    <2>2. ASSUME NEW x \in Voc!Watchers
          PROVE  (x \in open' /\ vocDoubt[x] = "none") <=> x[1] = res'.att /\ res'[x[2]]
      <3>1. x[1] = st.att /\ x[2] = s => x = me
        BY <2>2, VocNames DEF me
      <3>2. x[2] \in {"tunnel", "ims"}
        BY VocNames
      <3> QED
        BY <1>2, <1>3, <1>4, <1>5, <2>1, <3>1, <3>2 DEF VocOpen
    <2>3. open' \subseteq Voc!Watchers
      BY <1>3, <1>4, <2>1 DEF VocOpen
    <2> QED
      BY <2>1, <2>2, <2>3 DEF VocOpen
  <1>14. VocWatches'
    <2>1. vocPc' = "ims" => watch'[<<st'.att, "ims">>].at = "off"
      <3>1. SUFFICES ASSUME vocPc' = "ims" PROVE watch'[<<st'.att, "ims">>].at = "off"
        OBVIOUS
      <3>2. s = "tunnel" /\ vocPc = "tunnel"
        BY <1>1, <1>8, <3>1
      <3>3. /\ <<st.att, "ims">> \in Voc!Watchers /\ <<st.att, "ims">>[1] = st.att /\ <<st.att, "ims">>[2] = "ims"
        BY <1>2, VocNames
      <3>4. <<st.att, "ims">> # me
        BY <1>4, <3>2, <3>3
      <3> QED
        BY <1>6, <1>7, <3>2, <3>3, <3>4 DEF VocInv, VocWatches
    <2> QED
      BY <1>2, <1>4, <1>6, <1>7, <1>8, <2>1, VocNames DEF VocInv, VocWatches
  <1>15. VocFaultsPaid'
    <2>1. \A x \in Voc!Watchers : watch'[x].at \in {"waiting", "cleaning"} => watch[x].at \in {"waiting", "cleaning"}
      BY <1>7
    <2> QED
      BY <1>2, <1>6, <1>8, <1>9, <2>1 DEF VocInv, VocFaultsPaid, VocSpent, VocRetries
  <1>16. VocNews'
    <2>1. \A l \in {"tunnel", "ims"} : VocDone(l)' = VocDone(l)
      <3>1. TAKE l \in {"tunnel", "ims"}
      <3>2. <<st.att, l>> \in Voc!Watchers
        BY <1>2, VocNames
      <3>3. watch'[<<st.att, l>>].at = "done" <=> watch[<<st.att, l>>].at = "done"
        BY <1>4, <1>7, <3>2
      <3> QED
        BY <1>6, <3>3 DEF VocDone
    <2> QED
      BY <1>1, <1>3, <1>8, <2>1 DEF VocInv, VocNews, VocSetup, VocStages
  <1>17. VocPhases'
    BY <1>6, <1>8 DEF VocPhases
  <1>18. VocRadio'
    BY <1>1, <1>2, <1>3, <1>5, <1>8 DEF VocInv, VocRadio
  <1>19. VocRecords'
    <2>1. \A x \in Voc!Watchers : x[1] > st.att \/ x[1] = st.att => x[1] >= st.att
      BY <1>2, VocNames
    <2> QED
      BY <1>2, <1>3, <1>6, <1>8, <2>1 DEF VocRecords
  <1> QED
    BY <1>10, <1>11, <1>12, <1>13, <1>14, <1>15, <1>16, <1>17, <1>18, <1>19 DEF VocInv

\* Enable returns, up or cleaned.
LEMMA VocReturns ==
    ASSUME VocInv, Voc!SessionConstants, Voc!EnableSMS
    PROVE  VocInv'
  <1>1. /\ vocPc = "sms" /\ vocPc' = "return" /\ ok' = TRUE /\ vocLock' = <<"free">>
        /\ st' = [st EXCEPT !.phase = "sms", !.sms = TRUE] \/ st' = st
        /\ UNCHANGED <<ctx, want, rf, sends, sms, vocSeen, shown, registrar, news, res, vocCancelled, clean, errs, watch,
                       outcome, open, vocDoubt, taken, vocFaults>>
    BY DEF Voc!EnableSMS, Voc!world
  <1>2. /\ VocTypes /\ vocLock = <<"loop">> /\ res.att = st.att /\ st.att > 0 /\ st.att \in Voc!Attempts
        /\ clean = "no" /\ sms # "sending" /\ rf = "off" /\ outcome = "none" /\ st.phase # "failed"
        /\ \A x \in Voc!Watchers : watch[x].at # "cleaning"
        /\ st.att \in Nat /\ vocFaults \in Nat /\ MaxFaults \in Nat
        /\ \A x \in Voc!Watchers : vocDoubt[x] # "known" /\ vocDoubt[x] # "final"
        /\ \A x \in Voc!Watchers : x[1] >= st.att => vocDoubt[x] = "none"
    BY <1>1, VocBringsUp DEF VocStages
  <1>3. /\ st' \in Voc!State /\ st'.att = st.att /\ st'.tunnel = st.tunnel /\ st'.ims = st.ims /\ st'.err = st.err
        /\ st'.phase # "failed" /\ st'.phase # "idle"
    BY <1>1, <1>2 DEF VocTypes, Voc!State, VocInv, VocPhases
  <1>4. VocTypes'
    BY <1>1, <1>2, <1>3 DEF VocTypes
  <1>5. VocLocks'
    BY <1>1, <1>2, VocNames DEF VocInv, VocLocks, VocSetup, VocStages
  <1>6. VocSessions' /\ VocOpen'
    BY <1>1, <1>2, <1>3 DEF VocInv, VocSessions, VocOpen, VocSetup, VocStages
  <1>7. VocWatches'
    BY <1>1, <1>3 DEF VocInv, VocWatches
  <1>8. VocFaultsPaid'
    BY <1>1, <1>3 DEF VocInv, VocFaultsPaid, VocSpent
  <1>9. VocNews'
    <2>1. VocDone("tunnel")' = VocDone("tunnel") /\ VocDone("ims")' = VocDone("ims")
      BY <1>1, <1>3 DEF VocDone
    <2> QED
      BY <1>1, <2>1 DEF VocInv, VocNews, VocSetup, VocStages
  <1>10. VocPhases'
    BY <1>1, <1>3 DEF VocPhases, VocStages
  <1>11. VocRadio'
    BY <1>1, <1>2 DEF VocInv, VocRadio
  <1>12. VocRecords'
    BY <1>1, <1>2, <1>3 DEF VocInv, VocRecords, VocStages
  <1> QED
    BY <1>4, <1>5, <1>6, <1>7, <1>8, <1>9, <1>10, <1>11, <1>12 DEF VocInv

\* What a failed attempt leaves.
LEMMA VocFailedState ==
    ASSUME VocTypes, NEW e \in Voc!Errors \cup {"none", "canceled"}
    PROVE  /\ Voc!Failed(e) \in Voc!State /\ Voc!Failed(e).att = st.att /\ Voc!Failed(e).err = e
           /\ Voc!Failed(e).phase = "failed" /\ ~ Voc!Failed(e).tunnel /\ ~ Voc!Failed(e).ims
           /\ Voc!Failed(e).cleanup = errs
  <1>1. st \in Voc!State /\ errs \in BOOLEAN
    BY DEF VocTypes
  <1>2. Voc!Failed(e) \in Voc!State
    BY <1>1 DEF Voc!Failed, Voc!State
  <1>3. /\ Voc!Failed(e).att = st.att /\ Voc!Failed(e).err = e /\ Voc!Failed(e).phase = "failed"
        /\ Voc!Failed(e).tunnel = FALSE /\ Voc!Failed(e).ims = FALSE /\ Voc!Failed(e).cleanup = errs
    BY <1>1 DEF Voc!Failed, Voc!State
  <1> QED
    BY <1>2, <1>3

\* A failed attempt whose sessions are closed leaves at most its radio checkpoint.
LEMMA VocKeeps ==
    ASSUME VocInv, Voc!SessionConstants, clean = "done", Voc!Keep, UNCHANGED open, st'.att = st.att,
           \A x \in Voc!Watchers : vocDoubt'[x] = "none" <=> vocDoubt[x] = "none"
    PROVE  /\ res' \in [att : 0 .. MaxFaults + 1, tunnel : BOOLEAN, ims : BOOLEAN, radio : BOOLEAN]
           /\ res'.att \in {0, st'.att} /\ ~ res'.tunnel /\ ~ res'.ims /\ (res.radio => res'.radio)
           /\ res'.att = 0 => ~ res'.radio
           /\ VocOpen'
  <1>1. VocTypes /\ ~ res.tunnel /\ ~ res.ims
    BY DEF VocInv, VocLocks
  <1>2. /\ Voc!NoRes \in [att : 0 .. MaxFaults + 1, tunnel : BOOLEAN, ims : BOOLEAN, radio : BOOLEAN]
        /\ Voc!NoRes.att = 0 /\ ~ Voc!NoRes.tunnel /\ ~ Voc!NoRes.ims /\ ~ Voc!NoRes.radio
    BY DEF Voc!NoRes, Voc!SessionConstants
  <1>3. res' = res \/ (res' = Voc!NoRes /\ ~ res.radio)
    BY DEF Voc!Keep
  <1>4. /\ res' \in [att : 0 .. MaxFaults + 1, tunnel : BOOLEAN, ims : BOOLEAN, radio : BOOLEAN]
        /\ res'.att \in {0, st'.att} /\ ~ res'.tunnel /\ ~ res'.ims /\ (res.radio => res'.radio)
        /\ res'.att = 0 => ~ res'.radio
    BY <1>1, <1>2, <1>3 DEF VocTypes, VocInv, VocSessions
  <1>5. VocOpen'
    BY <1>1, <1>4, VocNames DEF VocInv, VocOpen
  <1> QED
    BY <1>4, <1>5

\* An attempt that failed is cleaned.
LEMMA VocFailEnds ==
    ASSUME VocInv, Voc!SessionConstants, Voc!FailEnds
    PROVE  VocInv'
  <1>1. /\ vocPc = "failing" /\ vocLock = <<"loop">> /\ clean = "done" /\ st' = Voc!Failed(vocSeen.err) /\ Voc!Keep
        /\ clean' = "no" /\ vocLock' = <<"free">> /\ vocPc' = "return"
        /\ UNCHANGED <<ctx, want, rf, sends, sms, ok, vocSeen, shown, registrar, news, vocCancelled, errs, watch, outcome,
                       open, vocDoubt, taken, vocFaults>>
    BY DEF Voc!FailEnds, Voc!world
  <1>2. VocTypes /\ vocSeen.err \in Voc!Errors \cup {"none", "canceled"}
    BY DEF VocInv, VocTypes, Voc!State
  <1>3. /\ st' \in Voc!State /\ st'.att = st.att /\ st'.err = vocSeen.err /\ st'.phase = "failed"
        /\ ~ st'.tunnel /\ ~ st'.ims /\ st'.cleanup = errs
    BY <1>1, <1>2, VocFailedState
  <1>4. /\ res' \in [att : 0 .. MaxFaults + 1, tunnel : BOOLEAN, ims : BOOLEAN, radio : BOOLEAN]
        /\ res'.att \in {0, st'.att} /\ ~ res'.tunnel /\ ~ res'.ims /\ (res.radio => res'.radio)
        /\ res'.att = 0 => ~ res'.radio
        /\ VocOpen'
    BY <1>1, <1>3, VocKeeps
  <1>5. sms # "sending" /\ \A x \in Voc!Watchers : watch[x].at # "cleaning"
    BY <1>1, VocNames DEF VocInv, VocLocks
  <1>6. VocTypes'
    BY <1>1, <1>2, <1>3, <1>4 DEF VocTypes
  <1>7. VocLocks'
    BY <1>1, <1>5, VocNames DEF VocLocks, VocSetup, VocStages
  <1>8. VocSessions'
    BY <1>1, <1>3, <1>4, <1>5 DEF VocSessions, VocSetup, VocStages
  <1>9. VocWatches'
    BY <1>1, <1>3 DEF VocInv, VocWatches
  <1>10. VocFaultsPaid'
    BY <1>1, <1>3 DEF VocInv, VocFaultsPaid, VocSpent
  <1>11. VocNews'
    <2>1. VocDone("tunnel")' = VocDone("tunnel") /\ VocDone("ims")' = VocDone("ims")
      BY <1>1, <1>3 DEF VocDone
    <2> QED
      BY <1>1, <2>1 DEF VocInv, VocNews, VocSetup, VocStages
  <1>12. VocPhases'
    BY <1>1, <1>3 DEF VocPhases, VocStages
  <1>13. VocRadio'
    BY <1>1, <1>4 DEF VocInv, VocRadio
  <1>14. VocRecords'
    BY <1>1, <1>3 DEF VocInv, VocRecords, VocRecorded, VocStages
  <1> QED
    BY <1>4, <1>6, <1>7, <1>8, <1>9, <1>10, <1>11, <1>12, <1>13, <1>14 DEF VocInv

\* Whoever holds the lock closes one session.
LEMMA VocCloses ==
    ASSUME VocInv, Voc!SessionConstants, Voc!CloseIMS \/ Voc!CloseTunnel
    PROVE  VocInv'
  <1>0. PICK l \in {"tunnel", "ims"} : (l = "ims" /\ Voc!CloseIMS) \/ (l = "tunnel" /\ Voc!CloseTunnel)
    OBVIOUS
  <1> DEFINE me == <<res.att, l>>
  <1>1. /\ clean = l /\ clean' = IF l = "ims" THEN "tunnel" ELSE Voc!AfterTunnel
        /\ UNCHANGED <<ctx, want, rf, sends, sms, vocPc, ok, vocSeen, shown, registrar, news, vocLock, st, vocCancelled,
                       watch, outcome, taken>>
        /\ res' = [res EXCEPT ![l] = FALSE]
        /\ \/ ~ res[l] /\ UNCHANGED <<errs, vocDoubt, vocFaults, open>>
           \/ res[l] /\ open' = open \ {me} /\ UNCHANGED <<errs, vocDoubt, vocFaults>>
           \/ /\ res[l] /\ vocFaults > 0 /\ vocFaults' = vocFaults - 1 /\ errs' = TRUE
              /\ vocDoubt' = [vocDoubt EXCEPT ![me] = Voc!Cause] /\ open' \in {open, open \ {me}}
    BY <1>0 DEF Voc!CloseIMS, Voc!CloseTunnel, Voc!CloseSession, Voc!Closes, Voc!Fault, Voc!world, Voc!loop
  <1>2. VocTypes /\ vocFaults \in Nat /\ MaxFaults \in Nat /\ st.att \in Nat
    BY DEF VocInv, VocTypes, Voc!State, Voc!SessionConstants
  <1>3. /\ res' \in [att : 0 .. MaxFaults + 1, tunnel : BOOLEAN, ims : BOOLEAN, radio : BOOLEAN]
        /\ res'.att = res.att /\ res'.radio = res.radio /\ res'[l] = FALSE
        /\ (\A m \in {"tunnel", "ims"} : m # l => res'[m] = res[m])
        /\ (res'.tunnel => res.tunnel) /\ (res'.ims => res.ims)
        /\ (l = "tunnel" => ~ res'.tunnel) /\ (l = "ims" => ~ res'.ims)
    <2>1. CASE l = "tunnel"
      BY <1>1, <1>2, <2>1 DEF VocTypes
    <2>2. CASE l = "ims"
      BY <1>1, <1>2, <2>2 DEF VocTypes
    <2> QED
      BY <2>1, <2>2
  <1> HIDE DEF me
  <1>17. Voc!Cause \in {"known", "final"} /\ (Voc!Cause = "final" <=> vocPc = "stopping" /\ vocLock = <<"loop">>)
    BY DEF Voc!Cause
  <1>18. /\ vocDoubt \in [Voc!Watchers -> Voc!Marks] /\ vocDoubt' \in [Voc!Watchers -> Voc!Marks]
         /\ \A x \in Voc!Watchers : x # me => vocDoubt'[x] = vocDoubt[x]
         /\ \A x \in Voc!Watchers : vocDoubt'[x] # vocDoubt[x] => errs' /\ vocDoubt'[x] = Voc!Cause /\ x = me /\ res[l]
    BY <1>1, <1>2, <1>17 DEF VocTypes, Voc!Marks
  <1>4. /\ vocFaults' \in 0 .. MaxFaults /\ vocFaults' <= vocFaults /\ errs' \in BOOLEAN /\ (errs => errs')
    <2>1. vocFaults \in 0 .. MaxFaults /\ errs \in BOOLEAN
      BY <1>2 DEF VocTypes
    <2>2. UNCHANGED vocFaults \/ (vocFaults > 0 /\ vocFaults' = vocFaults - 1)
      BY <1>1
    <2>3. vocFaults' \in 0 .. MaxFaults /\ vocFaults' <= vocFaults
      BY <1>2, <2>1, <2>2
    <2>4. errs' = errs \/ errs' = TRUE
      BY <1>1
    <2> QED
      BY <2>1, <2>3, <2>4
  <1>5. /\ clean' \in {"tunnel", "radio", "done"} /\ (clean' = "radio" => vocPc = "stopping")
        /\ clean' = "tunnel" => l = "ims"
        /\ clean' = "done" => vocPc # "stopping"
        /\ clean' # "tunnel" => l = "tunnel"
    BY <1>1 DEF Voc!AfterTunnel, VocInv, VocLocks
  <1>6. VocTypes'
    <2>1. clean' \in {"no", "ims", "tunnel", "radio", "done"}
      BY <1>5
    <2>2. UNCHANGED <<ctx, want, rf, sends, sms, vocPc, ok, vocSeen, shown, registrar, news, vocLock, st, vocCancelled,
                      watch, outcome, taken>>
      BY <1>1
    <2> QED
      BY <1>2, <1>3, <1>4, <1>18, <2>1, <2>2 DEF VocTypes
  <1>7. vocLock \in Voc!Watchers \/ vocPc \in {"failing", "stopping"}
    BY <1>1 DEF VocInv, VocLocks
  <1>8. sms # "sending"
    BY <1>7, VocNames DEF VocInv, VocLocks, VocSetup
  <1>9. VocLocks'
    <2>1. VocLocks /\ UNCHANGED <<vocLock, vocPc, sms, watch>>
      BY <1>1 DEF VocInv
    <2> QED
      BY <1>1, <1>3, <1>5, <1>7, <2>1 DEF VocLocks
  <1>10. VocSessions'
    <2>1. VocSessions /\ UNCHANGED <<vocPc, sms, st>>
      BY <1>1 DEF VocInv
    <2> QED
      BY <1>1, <1>3, <1>5, <1>8, <2>1 DEF VocSessions
  <1>11. VocOpen'
    <2>1. VocOpen
      BY DEF VocInv
    <2>4. \A x \in Voc!Watchers : x = me <=> x[1] = res.att /\ x[2] = l
      BY VocNames DEF me
    <2>5. open' \subseteq open /\ \A x \in Voc!Watchers : x # me => (x \in open' <=> x \in open)
      BY <1>1
    <2>2. ASSUME NEW x \in Voc!Watchers
          PROVE  (x \in open' /\ vocDoubt'[x] = "none") <=> x[1] = res'.att /\ res'[x[2]]
      <3>1. CASE x # me
        <4>1. x[2] \in {"tunnel", "ims"}
          BY VocNames
        <4> QED
          BY <1>3, <1>18, <2>1, <2>4, <2>5, <3>1, <4>1 DEF VocOpen
      <3>2. CASE x = me
        <4>1. ~ res'[x[2]]
          BY <1>3, <2>4, <3>2
        <4>2. ~ (x \in open' /\ vocDoubt'[x] = "none")
          <5>1. CASE ~ res[l] /\ UNCHANGED <<vocDoubt, open>>
            BY <2>1, <2>4, <3>2, <5>1 DEF VocOpen
          <5>2. CASE open' = open \ {me}
            BY <3>2, <5>2
          <5>3. CASE vocDoubt' = [vocDoubt EXCEPT ![me] = Voc!Cause]
            BY <1>17, <1>18, <3>2, <5>3
          <5> QED
            BY <1>1, <5>1, <5>2, <5>3
        <4> QED
          BY <4>1, <4>2
      <3> QED
        BY <3>1, <3>2
    <2>3. open' \subseteq Voc!Watchers
      BY <2>1, <2>5 DEF VocOpen
    <2> QED
      BY <2>2, <2>3 DEF VocOpen
  <1>12. VocWatches'
    BY <1>1 DEF VocInv, VocWatches
  <1>13. VocFaultsPaid'
    <2>1. VocFaultsPaid /\ UNCHANGED <<vocPc, st, vocSeen, news, watch>>
      BY <1>1 DEF VocInv
    <2> QED
      BY <1>2, <1>4, <2>1 DEF VocFaultsPaid, VocSpent
  <1>14. VocNews'
    BY <1>1 DEF VocInv, VocNews, VocDone
  <1>15. VocPhases'
    BY <1>1 DEF VocInv, VocPhases
  <1>16. VocRadio'
    <2>1. VocRadio /\ UNCHANGED <<rf, vocPc, taken, want, outcome>> /\ clean \in {"ims", "tunnel"}
      BY <1>1 DEF VocInv
    <2> QED
      BY <1>3, <1>5, <2>1 DEF VocRadio
  <1>19. VocRecords'
    <2>1. VocRecords /\ VocLocks /\ VocSessions /\ VocPhases /\ VocRadio /\ VocTypes
      BY DEF VocInv
    <2>2. UNCHANGED <<ctx, vocPc, st, vocLock, news, vocSeen, outcome>>
      BY <1>1
    <2>3. res[l] => /\ st.phase # "failed" /\ res.att = st.att /\ st.att # 0 /\ outcome # "clean"
                    /\ vocPc \notin VocStages /\ vocPc \notin {"enter", "delay", "decide"}
                    /\ (vocPc = "watch" => news = <<>>)
      <3>1. vocPc \notin VocStages
        BY <1>7, <2>1, VocNames DEF VocLocks, VocSetup, VocStages
      <3>2. res[l] => st.phase # "failed" /\ res.att = st.att /\ st.att # 0 /\ outcome # "clean"
        BY <2>1 DEF VocSessions, VocRadio
      <3>3. st.phase = "idle" => res.att = 0 \/ vocPc \in VocStages \cup {"failing", "ended"}
        BY <2>1 DEF VocPhases, VocSessions
      <3> QED
        BY <2>1, <3>1, <3>2, <3>3 DEF VocPhases, VocSessions
    <2>4. ASSUME NEW x \in Voc!Watchers, vocDoubt'[x] = "known"
          PROVE  VocRecorded'
      <3>1. CASE vocDoubt[x] = "known"
        BY <1>4, <2>1, <2>2, <3>1 DEF VocRecords, VocRecorded
      <3>2. CASE vocDoubt[x] # "known"
        <4>1. errs' /\ res[l] /\ ~ (vocPc = "stopping" /\ vocLock = <<"loop">>)
          BY <1>17, <1>18, <2>4, <3>2
        <4>2. vocPc # "stopping"
          BY <2>1, <4>1 DEF VocLocks
        <4>3. vocPc = "failing" \/ vocLock \in Voc!Watchers
          BY <1>7, <4>2
        <4>4. /\ st.phase # "failed" /\ outcome # "clean" /\ vocPc \notin VocStages
              /\ vocPc \notin {"enter", "delay", "decide"} /\ (vocPc = "watch" => news = <<>>)
          BY <2>3, <4>1
        <4>5. vocPc = "stop" => ctx
          BY <2>1, <4>4 DEF VocRecords
        <4>6. vocPc = "ended" => outcome = "unconfirmed"
          BY <2>1, <4>4 DEF VocRecords, VocTypes
        <4> QED
          BY <2>1, <2>2, <4>1, <4>2, <4>3, <4>4, <4>5, <4>6 DEF VocRecorded, VocTypes, VocSetup
      <3> QED
        BY <3>1, <3>2
    <2>5. ASSUME NEW x \in Voc!Watchers, vocDoubt'[x] = "final"
          PROVE  (outcome = "unconfirmed" \/ (vocPc = "stopping" /\ errs))'
      BY <1>4, <1>17, <1>18, <2>1, <2>2, <2>5 DEF VocRecords
    <2>6. ASSUME NEW x \in Voc!Watchers, x[1] > st.att \/ (x[1] = st.att /\ vocPc \in VocStages)
          PROVE  vocDoubt'[x] = "none"
      <3>1. vocDoubt[x] = "none"
        BY <2>1, <2>6 DEF VocRecords
      <3>2. x = me => ~ res[l]
        BY <1>2, <2>3, <2>6, VocNames DEF me
      <3> QED
        BY <1>18, <3>1, <3>2
    <2> QED
      BY <2>1, <2>2, <2>4, <2>5, <2>6 DEF VocRecords
  <1> QED
    BY <1>6, <1>9, <1>10, <1>11, <1>12, <1>13, <1>14, <1>15, <1>16, <1>19 DEF VocInv

\* A close that was given up ends after all.
LEMMA VocLateClose ==
    ASSUME VocInv, Voc!SessionConstants, Voc!LateCloses
    PROVE  VocInv'
  <1>1. PICK x \in open :
           /\ vocDoubt[x] # "none" /\ open' = open \ {x}
           /\ UNCHANGED <<ctx, want, rf, sends, sms, vocPc, ok, vocSeen, shown, registrar, news, vocLock, st, res,
                          vocCancelled, clean, errs, watch, outcome, vocDoubt, taken, vocFaults>>
    BY DEF Voc!LateCloses, Voc!LateClose, Voc!world, Voc!loop
  <1>2. VocTypes' /\ VocLocks' /\ VocSessions'
    BY <1>1 DEF VocInv, VocTypes, VocLocks, VocSessions
  <1>3. VocOpen'
    BY <1>1 DEF VocInv, VocOpen
  <1>4. VocWatches' /\ VocFaultsPaid' /\ VocPhases' /\ VocRadio'
    BY <1>1 DEF VocInv, VocWatches, VocFaultsPaid, VocSpent, VocPhases, VocRadio
  <1>5. VocNews' /\ VocRecords'
    BY <1>1 DEF VocInv, VocNews, VocDone, VocRecords, VocRecorded
  <1> QED
    BY <1>2, <1>3, <1>4, <1>5 DEF VocInv

\* Only the stop's cleanup restores the radio.
LEMMA VocRestores ==
    ASSUME VocInv, Voc!SessionConstants, Voc!RestoreRadio
    PROVE  VocInv'
  <1> DEFINE target == IF want THEN "cellular" ELSE "off"
  <1>1. /\ clean = "radio" /\ clean' = "done" /\ res' = [res EXCEPT !.radio = FALSE]
        /\ UNCHANGED <<ctx, want, sends, sms, vocPc, ok, vocSeen, shown, registrar, news, vocLock, st, vocCancelled, watch,
                       outcome, open, vocDoubt, taken>>
        /\ \/ res.radio /\ rf' = target /\ UNCHANGED <<errs, vocFaults>>
           \/ res.radio /\ rf' \in {rf, target} /\ errs' = TRUE /\ vocFaults > 0 /\ vocFaults' = vocFaults - 1
           \/ ~ res.radio /\ UNCHANGED <<rf, errs, vocFaults>>
    BY DEF Voc!RestoreRadio, Voc!Fault, Voc!loop
  <1>2. VocTypes /\ vocFaults \in Nat /\ MaxFaults \in Nat /\ st.att \in Nat
    BY DEF VocInv, VocTypes, Voc!State, Voc!SessionConstants
  <1>3. /\ res' \in [att : 0 .. MaxFaults + 1, tunnel : BOOLEAN, ims : BOOLEAN, radio : BOOLEAN]
        /\ res'.att = res.att /\ res'.tunnel = res.tunnel /\ res'.ims = res.ims /\ res'.radio = FALSE
        /\ res'["tunnel"] = res["tunnel"] /\ res'["ims"] = res["ims"]
    BY <1>1, <1>2 DEF VocTypes
  <1>4. vocFaults' \in 0 .. MaxFaults /\ vocFaults' <= vocFaults /\ errs' \in BOOLEAN /\ rf' \in {"off", "cellular"}
    <2>1. vocFaults \in 0 .. MaxFaults /\ errs \in BOOLEAN /\ rf \in {"off", "cellular"}
      BY <1>2 DEF VocTypes
    <2>2. UNCHANGED vocFaults \/ (vocFaults > 0 /\ vocFaults' = vocFaults - 1)
      BY <1>1
    <2>3. vocFaults' \in 0 .. MaxFaults /\ vocFaults' <= vocFaults
      BY <1>2, <2>1, <2>2
    <2>4. (errs' = errs \/ errs' = TRUE) /\ (rf' = rf \/ rf' = target) /\ target \in {"off", "cellular"}
      BY <1>1
    <2> QED
      BY <2>1, <2>3, <2>4
  <1>5. vocPc = "stopping" /\ ~ res.tunnel /\ ~ res.ims /\ vocLock = <<"loop">>
    BY <1>1 DEF VocInv, VocLocks
  <1>6. VocTypes'
    BY <1>1, <1>2, <1>3, <1>4 DEF VocTypes
  <1>7. VocLocks'
    BY <1>1, <1>3, <1>5 DEF VocInv, VocLocks
  <1>8. VocSessions'
    BY <1>1, <1>3, <1>5 DEF VocInv, VocSessions
  <1>9. VocOpen'
    BY <1>1, <1>3, VocNames DEF VocInv, VocOpen
  <1>10. VocWatches'
    BY <1>1 DEF VocInv, VocWatches
  <1>11. VocFaultsPaid'
    BY <1>1, <1>2, <1>4 DEF VocInv, VocFaultsPaid, VocSpent
  <1>12. VocNews' /\ VocPhases'
    BY <1>1 DEF VocInv, VocNews, VocDone, VocPhases
  <1>13. VocRadio'
    <2>1. VocRadio /\ UNCHANGED <<vocPc, taken, want, outcome>>
      BY <1>1 DEF VocInv
    <2>2. taken => res.radio
      BY <1>1, <1>5, <2>1 DEF VocRadio
    <2>3. outcome # "clean"
      BY <1>5, <2>1 DEF VocRadio
    <2> QED
      BY <1>1, <1>3, <1>5, <2>1, <2>2, <2>3 DEF VocRadio
  <1>14. VocRecords'
    <2>1. errs => errs'
      BY <1>1
    <2> QED
      BY <1>1, <1>5, <2>1 DEF VocInv, VocRecords, VocRecorded
  <1> QED
    BY <1>6, <1>7, <1>8, <1>9, <1>10, <1>11, <1>12, <1>13, <1>14 DEF VocInv

\* A watcher that is done stays done, so that each publishes once.
LEMMA VocDoneStays ==
    ASSUME st'.att = st.att, NEW l \in {"tunnel", "ims"}, st.att > 0 => st.att \in Voc!Attempts,
           \A x \in Voc!Watchers : watch[x].at = "done" => watch'[x].at = "done"
    PROVE  VocDone(l) \in {0, 1} /\ VocDone(l)' \in {0, 1} /\ VocDone(l) <= VocDone(l)'
  <1>1. CASE st.att > 0
    <2>1. <<st.att, l>> \in Voc!Watchers
      BY <1>1, VocNames
    <2> QED
      BY <2>1 DEF VocDone
  <1>2. CASE ~ (st.att > 0)
    BY <1>2 DEF VocDone
  <1> QED
    BY <1>1, <1>2

\* What is published stays accounted for when nothing more is.
LEMMA VocNewsKept ==
    ASSUME VocInv, Voc!SessionConstants, UNCHANGED <<news, vocPc>>, st'.att = st.att,
           \A x \in Voc!Watchers : watch[x].at = "done" => watch'[x].at = "done"
    PROVE  VocNews'
  <1>1. Len(news) \in Nat /\ (st.att > 0 => st.att \in Voc!Attempts)
    BY DEF VocInv, VocTypes, Voc!State, Voc!SessionConstants, Voc!Attempts
  <1>2. /\ VocDone("tunnel") \in {0, 1} /\ VocDone("tunnel")' \in {0, 1} /\ VocDone("tunnel") <= VocDone("tunnel")'
        /\ VocDone("ims") \in {0, 1} /\ VocDone("ims")' \in {0, 1} /\ VocDone("ims") <= VocDone("ims")'
    BY <1>1, VocDoneStays
  <1> QED
    BY <1>1, <1>2 DEF VocInv, VocNews

\* A watcher sees its attempt cancelled, or its session fail, or waits for the lock.
LEMMA VocWatches1 ==
    ASSUME VocInv, Voc!SessionConstants, NEW x \in Voc!Watchers,
           Voc!WatcherQuits(x) \/ Voc!WatcherFails(x) \/ Voc!WatcherLocks(x)
    PROVE  VocInv'
  <1>1. /\ UNCHANGED <<ctx, want, rf, sends, sms, vocPc, ok, vocSeen, shown, registrar, news, st, res, outcome, open,
                       vocDoubt, taken>>
        /\ \/ /\ watch[x].at = "on" /\ watch' = [watch EXCEPT ![x] = Voc!Over]
              /\ UNCHANGED <<vocLock, clean, errs, vocFaults, vocCancelled>>
           \/ /\ watch[x].at = "on" /\ vocFaults > 0 /\ vocFaults' = vocFaults - 1
              /\ \E e \in Voc!Errors : watch' = [watch EXCEPT ![x] = [at |-> "waiting", why |-> e]]
              /\ vocCancelled' = vocCancelled \cup {x[1]} /\ UNCHANGED <<vocLock, clean, errs>>
           \/ /\ watch[x].at = "waiting" /\ vocLock = <<"free">> /\ res.att = x[1] /\ vocLock' = x
              /\ clean' = "ims" /\ errs' = FALSE /\ watch' = [watch EXCEPT ![x].at = "cleaning"]
              /\ UNCHANGED <<vocFaults, vocCancelled>>
           \/ /\ watch[x].at = "waiting" /\ watch' = [watch EXCEPT ![x] = Voc!Over]
              /\ UNCHANGED <<vocLock, clean, errs, vocFaults, vocCancelled>>
    BY DEF Voc!WatcherQuits, Voc!WatcherFails, Voc!WatcherLocks, Voc!Fault, Voc!MayLock, Voc!Free, Voc!world, Voc!loop,
           Voc!Errors
  <1>2. VocTypes /\ vocFaults \in Nat /\ MaxFaults \in Nat /\ st.att \in Nat
    BY DEF VocInv, VocTypes, Voc!State, Voc!SessionConstants
  <1>3. /\ watch' \in [Voc!Watchers -> [at : {"off", "on", "waiting", "cleaning", "done"}, why : Voc!Errors]]
        /\ \A y \in Voc!Watchers : y # x => watch'[y] = watch[y]
        /\ watch[x].at \in {"on", "waiting"} /\ watch'[x].at \in {"waiting", "cleaning", "done"}
        /\ watch'[x].at = "cleaning" <=> vocLock' # vocLock
        /\ vocLock' # vocLock => vocLock = <<"free">> /\ vocLock' = x /\ res.att = x[1]
                                 /\ clean' = "ims" /\ errs' = FALSE /\ watch[x].at = "waiting"
        /\ vocLock' = vocLock => UNCHANGED <<clean, errs>>
        /\ watch'[x].at = "waiting" => vocFaults > 0 /\ vocFaults' = vocFaults - 1
    <2>1. watch \in [Voc!Watchers -> [at : {"off", "on", "waiting", "cleaning", "done"}, why : Voc!Errors]]
      BY <1>2 DEF VocTypes
    <2>2. /\ Voc!Over \in [at : {"off", "on", "waiting", "cleaning", "done"}, why : Voc!Errors] /\ Voc!Over.at = "done"
          /\ x # <<"free">>
      BY VocNames DEF Voc!Over, Voc!Errors
    <2>3. CASE watch' = [watch EXCEPT ![x] = Voc!Over] /\ watch[x].at \in {"on", "waiting"}
               /\ UNCHANGED <<vocLock, clean, errs, vocFaults, vocCancelled>>
      BY <2>1, <2>2, <2>3
    <2>4. CASE /\ watch[x].at = "on" /\ vocFaults > 0 /\ vocFaults' = vocFaults - 1
               /\ \E e \in Voc!Errors : watch' = [watch EXCEPT ![x] = [at |-> "waiting", why |-> e]]
               /\ UNCHANGED <<vocLock, clean, errs>>
      BY <2>1, <2>4
    <2>5. CASE /\ watch[x].at = "waiting" /\ vocLock = <<"free">> /\ res.att = x[1] /\ vocLock' = x
               /\ clean' = "ims" /\ errs' = FALSE /\ watch' = [watch EXCEPT ![x].at = "cleaning"]
      <3>1. /\ [watch[x] EXCEPT !.at = "cleaning"] \in [at : {"off", "on", "waiting", "cleaning", "done"}, why : Voc!Errors]
            /\ watch' = [watch EXCEPT ![x] = [watch[x] EXCEPT !.at = "cleaning"]]
            /\ [watch[x] EXCEPT !.at = "cleaning"].at = "cleaning"
        BY <2>1, <2>5
      <3> QED
        BY <2>1, <2>2, <2>5, <3>1
    <2> QED
      BY <1>1, <2>3, <2>4, <2>5
  <1>4. vocFaults' \in 0 .. MaxFaults /\ vocFaults' <= vocFaults
    <2>1. vocFaults \in 0 .. MaxFaults
      BY <1>2 DEF VocTypes
    <2> QED
      BY <1>1, <1>2, <2>1
  <1>5. VocTypes'
    <2>1. /\ vocCancelled' \subseteq Voc!Attempts /\ clean' \in {"no", "ims", "tunnel", "radio", "done"} /\ errs' \in BOOLEAN
          /\ vocLock' \in {<<"free">>, <<"loop">>, <<"sms">>} \cup Voc!Watchers
      <3>1. /\ vocCancelled \subseteq Voc!Attempts /\ clean \in {"no", "ims", "tunnel", "radio", "done"} /\ errs \in BOOLEAN
            /\ vocLock \in {<<"free">>, <<"loop">>, <<"sms">>} \cup Voc!Watchers /\ x[1] \in Voc!Attempts
        BY <1>2, VocNames DEF VocTypes
      <3>2. vocCancelled' = vocCancelled \/ vocCancelled' = vocCancelled \cup {x[1]}
        BY <1>1
      <3>3. vocLock' = vocLock \/ vocLock' = x
        BY <1>3
      <3> QED
        BY <1>3, <3>1, <3>2, <3>3
    <2>2. UNCHANGED <<ctx, want, rf, sends, sms, vocPc, ok, vocSeen, shown, registrar, news, st, res, outcome, open,
                      vocDoubt, taken>>
      BY <1>1
    <2> QED
      BY <1>2, <1>3, <1>4, <2>1, <2>2 DEF VocTypes
  <1>6. UNCHANGED <<vocPc, sms, res, st, open, rf, taken, want, outcome, news, vocSeen, shown, ok>>
    BY <1>1
  <1>7. VocLocks /\ VocSessions /\ VocOpen /\ VocWatches /\ VocFaultsPaid /\ VocPhases /\ VocRadio
    BY DEF VocInv
  <1>8. VocLocks'
    <2>1. CASE vocLock' = vocLock
      BY <1>3, <1>6, <1>7, <2>1 DEF VocLocks
    <2>2. CASE vocLock' # vocLock
      <3>1. vocLock' = x /\ x \in Voc!Watchers /\ x # <<"free">> /\ x # <<"loop">> /\ x # <<"sms">>
            /\ vocLock = <<"free">> /\ clean' = "ims" /\ res.att = x[1] /\ watch'[x].at = "cleaning"
        BY <1>3, <2>2, VocNames
      <3>2. \A y \in Voc!Watchers : watch[y].at # "cleaning"
        BY <1>7, <3>1, VocNames DEF VocLocks
      <3> QED
        BY <1>3, <1>6, <1>7, <3>1, <3>2 DEF VocLocks
    <2> QED
      BY <2>1, <2>2
  <1>9. VocSessions' /\ VocOpen'
    <2>1. (clean # "no" => clean' # "no") /\ UNCHANGED vocDoubt
      BY <1>1, <1>3
    <2> QED
      BY <1>6, <1>7, <2>1 DEF VocSessions, VocOpen
  <1>10. VocWatches'
    <2>1. \A y \in Voc!Watchers : watch[y].at = "off" => watch'[y].at = "off"
      BY <1>3
    <2>2. vocPc = "ims" => <<st.att, "ims">> \in Voc!Watchers
      BY VocBringsUp, VocNames DEF VocStages
    <2> QED
      BY <1>6, <1>7, <2>1, <2>2 DEF VocWatches
  <1>11. VocFaultsPaid'
    <2>1. ASSUME NEW y \in Voc!Watchers, y[1] = st.att, watch'[y].at \in {"waiting", "cleaning"}
          PROVE  VocSpent'
      <3>1. CASE y = x /\ watch'[x].at = "waiting"
        BY <1>2, <1>3, <1>6, <1>7, <3>1 DEF VocFaultsPaid, VocSpent
      <3>2. CASE ~ (y = x /\ watch'[x].at = "waiting")
        <4>1. watch[y].at \in {"waiting", "cleaning"}
          BY <1>3, <2>1, <3>2
        <4>2. VocSpent
          BY <1>7, <2>1, <4>1 DEF VocFaultsPaid
        <4> QED
          BY <1>2, <1>4, <1>6, <4>2 DEF VocSpent
      <3> QED
        BY <3>1, <3>2
    <2>2. VocSpent => VocSpent'
      BY <1>2, <1>4, <1>6 DEF VocSpent
    <2> QED
      BY <1>2, <1>4, <1>6, <1>7, <2>1, <2>2 DEF VocFaultsPaid
  <1>12. VocNews'
    BY <1>3, <1>6, VocNewsKept
  <1>13. VocPhases'
    <2>1. vocLock' # vocLock => st.att # 0
      BY <1>3, <1>7, VocNames DEF VocSessions
    <2> QED
      BY <1>6, <1>7, <2>1 DEF VocPhases
  <1>14. VocRadio'
    <2>1. vocPc \in {"stopping"} => UNCHANGED <<clean, errs>>
      BY <1>3, <1>7 DEF VocLocks
    <2> QED
      BY <1>6, <1>7, <2>1 DEF VocRadio
  <1>15. VocRecords'
    <2>1. VocRecords /\ UNCHANGED <<ctx, vocDoubt>>
      BY <1>1 DEF VocInv
    <2>2. CASE vocLock' = vocLock
      BY <1>3, <1>6, <2>1, <2>2 DEF VocRecords, VocRecorded
    <2>3. CASE vocLock' # vocLock
      <3>1. vocLock = <<"free">> /\ vocLock \notin Voc!Watchers /\ vocPc \notin {"failing", "stopping"}
        BY <1>3, <1>7, <2>3, VocNames DEF VocLocks, VocSetup
      <3> QED
        BY <1>6, <2>1, <3>1 DEF VocRecords, VocRecorded
    <2> QED
      BY <2>2, <2>3
  <1> QED
    BY <1>5, <1>8, <1>9, <1>10, <1>11, <1>12, <1>13, <1>14, <1>15 DEF VocInv

\* A watcher has cleaned its attempt and publishes the failure.
LEMMA VocWatcherEnds ==
    ASSUME VocInv, Voc!SessionConstants, NEW x \in Voc!Watchers, Voc!WatcherEnds(x)
    PROVE  VocInv'
  <1> DEFINE cause == watch[x].why
  <1>1. /\ vocLock = x /\ clean = "done" /\ st' = Voc!Failed(cause) /\ news' = Append(news, Voc!Failed(cause)) /\ Voc!Keep
        /\ clean' = "no" /\ vocLock' = <<"free">> /\ watch' = [watch EXCEPT ![x] = Voc!Over]
        /\ vocDoubt' = Voc!Replaced
        /\ UNCHANGED <<ctx, want, rf, sends, sms, vocPc, ok, vocSeen, shown, registrar, vocCancelled, errs, outcome,
                       open, taken, vocFaults>>
    BY DEF Voc!WatcherEnds, Voc!Published, Voc!world, Voc!loop
  <1>2. /\ VocTypes /\ cause \in Voc!Errors \cup {"none", "canceled"} /\ st.att \in Nat
        /\ VocLocks /\ VocSessions /\ VocWatches /\ VocFaultsPaid /\ VocRadio /\ VocPhases
    BY DEF VocInv, VocTypes, Voc!State, Voc!SessionConstants
  <1>3. /\ Voc!Failed(cause) \in Voc!State /\ st' \in Voc!State /\ st'.att = st.att /\ st'.phase = "failed"
        /\ ~ st'.tunnel /\ ~ st'.ims /\ st'.cleanup = errs /\ Voc!Failed(cause).cleanup = errs
    BY <1>1, <1>2, VocFailedState
  <1>18. /\ vocDoubt' \in [Voc!Watchers -> Voc!Marks]
         /\ \A y \in Voc!Watchers : vocDoubt'[y] = "none" <=> vocDoubt[y] = "none"
         /\ \A y \in Voc!Watchers : vocDoubt'[y] = "final" <=> vocDoubt[y] = "final"
         /\ \A y \in Voc!Watchers : vocDoubt'[y] = "known" => errs /\ vocDoubt[y] = "known"
    <2>1. vocDoubt \in [Voc!Watchers -> Voc!Marks]
      BY <1>2 DEF VocTypes
    <2> QED
      BY <1>1, <2>1 DEF Voc!Replaced, Voc!Marks
  <1>4. /\ res' \in [att : 0 .. MaxFaults + 1, tunnel : BOOLEAN, ims : BOOLEAN, radio : BOOLEAN]
        /\ res'.att \in {0, st'.att} /\ ~ res'.tunnel /\ ~ res'.ims /\ (res.radio => res'.radio)
        /\ res'.att = 0 => ~ res'.radio
        /\ VocOpen'
    BY <1>1, <1>3, <1>18, VocKeeps
  <1>5. /\ x # <<"free">> /\ x # <<"loop">> /\ x # <<"sms">> /\ x[1] \in Voc!Attempts /\ x[1] > 0
        /\ x[2] \in {"tunnel", "ims"} /\ x = <<x[1], x[2]>>
    BY VocNames
  <1>6. /\ watch[x].at = "cleaning" /\ x[1] = st.att /\ sms # "sending" /\ vocPc \notin VocSetup \cup {"stopping"}
        /\ \A y \in Voc!Watchers : y # x => watch[y].at # "cleaning"
    <2>1. watch[x].at = "cleaning" /\ x[1] = res.att
      BY <1>1, <1>2 DEF VocLocks
    <2>2. vocLock # <<"loop">> /\ vocLock # <<"sms">>
      BY <1>1, <1>5
    <2>3. sms # "sending" /\ vocPc \notin VocSetup \cup {"stopping"}
      BY <1>2, <2>2 DEF VocLocks
    <2>4. \A y \in Voc!Watchers : y # x => watch[y].at # "cleaning"
      BY <1>1, <1>2 DEF VocLocks
    <2>5. x[1] = st.att
      BY <1>2, <1>5, <2>1 DEF VocSessions
    <2> QED
      BY <2>1, <2>3, <2>4, <2>5
  <1>7. VocSpent /\ VocSpent'
    <2>1. VocSpent
      BY <1>2, <1>6 DEF VocFaultsPaid
    <2> QED
      BY <1>1, <1>3, <2>1 DEF VocSpent
  <1>8. /\ watch' \in [Voc!Watchers -> [at : {"off", "on", "waiting", "cleaning", "done"}, why : Voc!Errors]]
        /\ watch'[x].at = "done" /\ \A y \in Voc!Watchers : y # x => watch'[y] = watch[y]
    <2>1. Voc!Over \in [at : {"off", "on", "waiting", "cleaning", "done"}, why : Voc!Errors] /\ Voc!Over.at = "done"
      BY DEF Voc!Over, Voc!Errors
    <2> QED
      BY <1>1, <1>2, <2>1 DEF VocTypes
  <1> HIDE DEF cause
  <1>9. news \in Seq(Voc!State) /\ news' \in Seq(Voc!State) /\ Len(news') = Len(news) + 1 /\ news' # <<>> /\ Len(news) \in Nat
    <2>1. news \in Seq(Voc!State)
      BY <1>2 DEF VocTypes
    <2>2. news' \in Seq(Voc!State) /\ Len(news') = Len(news) + 1 /\ Len(news) \in Nat
      BY <1>1, <1>3, <2>1
    <2> QED
      BY <2>1, <2>2
  <1>10. VocTypes'
    <2>1. UNCHANGED <<ctx, want, rf, sends, sms, vocPc, ok, vocSeen, shown, registrar, vocCancelled, errs, outcome,
                      open, taken, vocFaults>>
      BY <1>1
    <2>2. clean' = "no" /\ vocLock' = <<"free">>
      BY <1>1
    <2> QED
      BY <1>2, <1>3, <1>4, <1>8, <1>9, <1>18, <2>1, <2>2 DEF VocTypes
  <1>11. VocLocks'
    <2>1. UNCHANGED <<vocPc, sms>> /\ clean' = "no" /\ vocLock' = <<"free">>
      BY <1>1
    <2>2. \A y \in Voc!Watchers : watch'[y].at # "cleaning"
      BY <1>6, <1>8
    <2> QED
      BY <1>6, <2>1, <2>2, VocNames DEF VocLocks, VocSetup
  <1>12. VocSessions'
    BY <1>1, <1>3, <1>4, <1>6 DEF VocSessions
  <1>13. VocWatches'
    <2>1. vocPc' \notin VocStages
      BY <1>1, <1>6 DEF VocSetup
    <2>2. \A y \in Voc!Watchers : y[1] > st.att => y # x
      BY <1>2, <1>6
    <2> QED
      BY <1>2, <1>3, <1>8, <2>1, <2>2 DEF VocWatches, VocStages
  <1>14. VocFaultsPaid'
    BY <1>1, <1>2, <1>3, <1>7 DEF VocFaultsPaid, VocSpent
  <1>15. VocNews'
    <2> DEFINE other == IF x[2] = "ims" THEN "tunnel" ELSE "ims"
    <2>1. VocDone(x[2]) = 0 /\ VocDone(x[2])' = 1
      BY <1>3, <1>5, <1>6, <1>8 DEF VocDone
    <2>2. VocDone(other) \in {0, 1} /\ VocDone(other)' = VocDone(other)
      <3>1. <<st.att, other>> \in Voc!Watchers /\ <<st.att, other>> # x
        BY <1>5, <1>6, VocNames
      <3> QED
        BY <1>3, <1>8, <3>1 DEF VocDone
    <2>3. /\ VocDone("tunnel") + VocDone("ims") \in Nat
          /\ VocDone("tunnel")' + VocDone("ims")' = VocDone("tunnel") + VocDone("ims") + 1
      <3>1. CASE x[2] = "ims"
        BY <2>1, <2>2, <3>1
      <3>2. CASE x[2] = "tunnel"
        BY <2>1, <2>2, <3>2
      <3> QED
        BY <1>5, <3>1, <3>2
    <2>4. VocNews /\ vocPc' = vocPc
      BY <1>1 DEF VocInv
    <2> QED
      BY <1>9, <2>3, <2>4 DEF VocNews
  <1>16. VocPhases'
    BY <1>1, <1>2, <1>3, <1>6, <1>9 DEF VocPhases, VocSetup, VocStages
  <1>17. VocRadio'
    BY <1>1, <1>2, <1>4, <1>6 DEF VocRadio
  <1>19. VocRecords'
    <2>1. VocRecords /\ UNCHANGED <<ctx, vocPc, vocSeen, errs, outcome>>
      BY <1>1 DEF VocInv
    <2>2. vocPc \notin VocStages \cup {"failing", "stopping"}
      BY <1>6 DEF VocSetup
    <2>3. news' # <<>> /\ Head(news') = IF news = <<>> THEN Voc!Failed(cause) ELSE Head(news)
      BY <1>1, <1>3, <1>9
    <2>4. ASSUME NEW y \in Voc!Watchers, vocDoubt'[y] = "known"
          PROVE  VocRecorded'
      <3>1. errs /\ VocRecorded
        BY <1>18, <2>1, <2>4 DEF VocRecords
      <3> QED
        BY <1>3, <2>1, <2>2, <2>3, <3>1 DEF VocRecorded
    <2> QED
      BY <1>3, <1>18, <2>1, <2>2, <2>4 DEF VocRecords
  <1> QED
    BY <1>4, <1>10, <1>11, <1>12, <1>13, <1>14, <1>15, <1>16, <1>17, <1>19 DEF VocInv

\* The stop cancels the attempt and takes the lock, or leaves when it cannot.
LEMMA VocDisables ==
    ASSUME VocInv, Voc!SessionConstants, Voc!Disable
    PROVE  VocInv'
  <1>1. /\ vocPc = "stop" /\ shown' = "reconnecting" /\ vocCancelled' = Voc!Runtime
        /\ UNCHANGED <<ctx, want, rf, sends, sms, ok, vocSeen, registrar, news, res, watch, open, vocDoubt, taken, vocFaults>>
        /\ \/ vocPc' = "ended" /\ outcome' = "unconfirmed" /\ UNCHANGED <<vocLock, st, clean, errs>>
           \/ /\ res.att = 0 /\ st.phase = "idle" /\ vocPc' = "ended" /\ outcome' = "clean" /\ outcome # "unconfirmed"
              /\ UNCHANGED <<vocLock, st, clean, errs>>
           \/ /\ vocLock = <<"free">> /\ vocPc' = "stopping" /\ vocLock' = <<"loop">> /\ clean' = "ims" /\ errs' = FALSE
              /\ st' = [st EXCEPT !.phase = "stopping", !.tunnel = FALSE, !.ims = FALSE, !.sms = FALSE]
              /\ UNCHANGED outcome
    BY DEF Voc!Disable, Voc!Conclude, Voc!world, Voc!Free
  <1>2. /\ VocTypes /\ VocLocks /\ VocSessions /\ VocOpen /\ VocWatches /\ VocFaultsPaid /\ VocNews /\ VocRadio /\ VocPhases
        /\ VocRecords
    BY DEF VocInv
  <1>3. vocCancelled' \subseteq Voc!Attempts
    <2>1. res.att # 0 => res.att \in Voc!Attempts
      BY <1>2 DEF VocTypes, Voc!Attempts, Voc!SessionConstants
    <2> QED
      BY <1>1, <1>2, <2>1 DEF Voc!Runtime, VocTypes
  <1>4. CASE /\ UNCHANGED <<vocLock, st, clean, errs>> /\ vocPc' = "ended"
             /\ \/ outcome' = "unconfirmed"
                \/ outcome' = "clean" /\ outcome # "unconfirmed" /\ res.att = 0 /\ st.phase = "idle"
    <2>1. VocTypes'
      BY <1>1, <1>2, <1>3, <1>4 DEF VocTypes
    <2>2. VocLocks' /\ VocSessions' /\ VocOpen'
      BY <1>1, <1>2, <1>4 DEF VocLocks, VocSessions, VocOpen, VocSetup, VocStages
    <2>3. VocWatches' /\ VocPhases'
      BY <1>1, <1>2, <1>4 DEF VocWatches, VocPhases, VocStages
    <2>4. VocFaultsPaid'
      BY <1>1, <1>2, <1>4 DEF VocFaultsPaid, VocSpent, VocSetup, VocStages
    <2>5. VocNews'
      <3>1. VocDone("tunnel")' = VocDone("tunnel") /\ VocDone("ims")' = VocDone("ims")
        BY <1>1, <1>4 DEF VocDone
      <3> QED
        BY <1>1, <1>2, <1>4, <3>1 DEF VocNews, VocSetup, VocStages
    <2>6. VocRadio'
      <3>1. outcome' = "clean" => ~ res.ims /\ ~ res.tunnel /\ ~ taken
        BY <1>1, <1>2, <1>4 DEF VocSessions, VocPhases, VocStages
      <3>2. rf = "cellular" => ~ res.ims /\ ~ res.tunnel
        BY <1>2 DEF VocRadio
      <3> QED
        BY <1>1, <1>4, <3>1, <3>2 DEF VocRadio
    <2>7. VocRecords'
      BY <1>1, <1>2, <1>4 DEF VocRecords, VocRecorded, VocStages
    <2> QED
      BY <2>1, <2>2, <2>3, <2>4, <2>5, <2>6, <2>7 DEF VocInv
  <1>5. CASE /\ vocLock = <<"free">> /\ vocPc' = "stopping" /\ vocLock' = <<"loop">> /\ clean' = "ims" /\ errs' = FALSE
             /\ st' = [st EXCEPT !.phase = "stopping", !.tunnel = FALSE, !.ims = FALSE, !.sms = FALSE]
             /\ UNCHANGED outcome
    <2>1. /\ st' \in Voc!State /\ st'.att = st.att /\ st'.phase = "stopping" /\ st'.tunnel = FALSE /\ st'.ims = FALSE
          /\ st'.err = st.err
      <3>1. st \in Voc!State
        BY <1>2 DEF VocTypes
      <3>2. st' \in Voc!State
        BY <1>5, <3>1 DEF Voc!State
      <3> QED
        BY <1>5, <3>1, <3>2 DEF Voc!State
    <2>2. VocTypes'
      <3>1. UNCHANGED <<ctx, want, rf, sends, sms, ok, vocSeen, registrar, news, res, watch, vocDoubt, taken, vocFaults, outcome>>
        BY <1>1, <1>5
      <3>2. /\ shown' = "reconnecting" /\ vocPc' = "stopping" /\ vocLock' = <<"loop">> /\ clean' = "ims" /\ errs' = FALSE
        BY <1>1, <1>5
      <3>3. /\ shown' \in {"radio-off", "reconnecting", "connected"}
            /\ vocPc' \in VocSetup \cup {"enter", "return", "watch", "decide", "delay", "stop", "stopping", "ended"}
            /\ vocLock' \in {<<"free">>, <<"loop">>, <<"sms">>} \cup Voc!Watchers
            /\ clean' \in {"no", "ims", "tunnel", "radio", "done"} /\ errs' \in BOOLEAN /\ st' \in Voc!State
        BY <2>1, <3>2
      <3> QED
        BY <1>2, <1>3, <3>1, <3>3 DEF VocTypes
    <2>3. sms # "sending" /\ \A y \in Voc!Watchers : watch[y].at # "cleaning"
      BY <1>2, <1>5, VocNames DEF VocLocks
    <2>4. VocLocks'
      BY <1>1, <1>5, <2>3, VocNames DEF VocLocks, VocSetup, VocStages
    <2>5. VocSessions' /\ VocOpen'
      BY <1>1, <1>2, <1>5, <2>1, <2>3 DEF VocSessions, VocOpen, VocSetup, VocStages
    <2>6. VocWatches' /\ VocPhases'
      BY <1>1, <1>2, <1>5, <2>1 DEF VocWatches, VocPhases, VocStages
    <2>7. VocFaultsPaid'
      BY <1>1, <1>2, <1>5, <2>1 DEF VocFaultsPaid, VocSpent, VocSetup, VocStages
    <2>8. VocNews'
      <3>1. VocDone("tunnel")' = VocDone("tunnel") /\ VocDone("ims")' = VocDone("ims")
        BY <1>1, <2>1 DEF VocDone
      <3> QED
        BY <1>1, <1>2, <1>5, <3>1 DEF VocNews, VocSetup, VocStages
    <2>9. VocRadio'
      <3>1. outcome # "clean" /\ rf # "cellular" /\ (taken => res.radio)
        BY <1>1, <1>2 DEF VocRadio
      <3> QED
        BY <1>1, <1>5, <3>1 DEF VocRadio
    <2>10. VocRecords'
      BY <1>1, <1>2, <1>5, <2>1 DEF VocRecords, VocRecorded, VocStages
    <2> QED
      BY <2>2, <2>4, <2>5, <2>6, <2>7, <2>8, <2>9, <2>10 DEF VocInv
  <1> QED
    BY <1>1, <1>4, <1>5

\* The lease has ended.
LEMMA VocDisableEnds ==
    ASSUME VocInv, Voc!SessionConstants, Voc!DisableEnds
    PROVE  VocInv'
  <1>1. /\ vocPc = "stopping" /\ vocLock = <<"loop">> /\ clean = "done" /\ vocPc' = "ended"
        /\ outcome' = IF errs \/ outcome = "unconfirmed" THEN "unconfirmed" ELSE "clean"
        /\ st' = [Voc!Idle EXCEPT !.att = st.att, !.cleanup = errs] /\ res' = Voc!NoRes
        /\ vocLock' = <<"free">> /\ clean' = "no"
        /\ UNCHANGED <<ctx, want, rf, sends, sms, ok, vocSeen, shown, registrar, news, vocCancelled, errs, watch,
                       open, vocDoubt, taken, vocFaults>>
    BY DEF Voc!DisableEnds, Voc!Conclude, Voc!world
  <1>2. /\ VocTypes /\ VocLocks /\ VocSessions /\ VocOpen /\ VocWatches /\ VocFaultsPaid /\ VocNews /\ VocRadio /\ VocPhases
        /\ VocRecords
    BY DEF VocInv
  <1>3. /\ st' \in Voc!State /\ st'.att = st.att /\ st'.phase = "idle" /\ st'.tunnel = FALSE /\ st'.ims = FALSE
        /\ st'.err = "none"
    <2>1. Voc!Idle = [phase |-> "idle", att |-> 0, tunnel |-> FALSE, ims |-> FALSE, sms |-> FALSE, cleanup |-> FALSE, err |-> "none"]
      BY DEF Voc!Idle
    <2>2. st' = [phase |-> "idle", att |-> st.att, tunnel |-> FALSE, ims |-> FALSE, sms |-> FALSE, cleanup |-> errs, err |-> "none"]
      BY <1>1, <2>1
    <2>3. st.att \in 0 .. MaxFaults + 1 /\ errs \in BOOLEAN
      BY <1>2 DEF VocTypes, Voc!State
    <2> QED
      BY <2>2, <2>3 DEF Voc!State
  <1>4. /\ res' \in [att : 0 .. MaxFaults + 1, tunnel : BOOLEAN, ims : BOOLEAN, radio : BOOLEAN]
        /\ res'.att = 0 /\ ~ res'.tunnel /\ ~ res'.ims /\ ~ res'.radio
    BY <1>1 DEF Voc!NoRes, Voc!SessionConstants
  <1>5. sms # "sending" /\ (\A y \in Voc!Watchers : watch[y].at # "cleaning") /\ ~ res.tunnel /\ ~ res.ims
    BY <1>1, <1>2, VocNames DEF VocLocks
  <1>6. VocTypes'
    BY <1>1, <1>2, <1>3, <1>4 DEF VocTypes
  <1>7. VocLocks'
    BY <1>1, <1>5, VocNames DEF VocLocks, VocSetup, VocStages
  <1>8. VocSessions'
    BY <1>1, <1>3, <1>4, <1>5 DEF VocSessions, VocSetup, VocStages
  <1>9. VocOpen'
    BY <1>1, <1>2, <1>4, <1>5, VocNames DEF VocOpen
  <1>10. VocWatches'
    BY <1>1, <1>2, <1>3 DEF VocWatches
  <1>11. VocFaultsPaid'
    BY <1>1, <1>2, <1>3 DEF VocFaultsPaid, VocSpent, VocSetup, VocStages, VocRetries
  <1>12. VocNews'
    <2>1. VocDone("tunnel")' = VocDone("tunnel") /\ VocDone("ims")' = VocDone("ims")
      BY <1>1, <1>3 DEF VocDone
    <2> QED
      BY <1>1, <1>2, <2>1 DEF VocNews, VocSetup, VocStages
  <1>13. VocPhases'
    BY <1>1, <1>2, <1>3 DEF VocPhases, VocStages
  <1>14. VocRadio'
    BY <1>1, <1>2, <1>4, <1>5 DEF VocRadio
  <1>15. VocRecords'
    BY <1>1, <1>2, <1>3 DEF VocRecords, VocRecorded, VocStages
  <1> QED
    BY <1>6, <1>7, <1>8, <1>9, <1>10, <1>11, <1>12, <1>13, <1>14, <1>15 DEF VocInv

\* Every step of a lease keeps the invariant.
LEMMA VocStep ==
    ASSUME VocInv, Voc!SessionConstants, Voc!Next
    PROVE  VocInv'
  <1>1. CASE Voc!Stop \/ Voc!Send
    BY <1>1, VocAsked
  <1>2. CASE Voc!GivesUp \/ Voc!Drain \/ Voc!Follow \/ Voc!Decide \/ Voc!Delay
    BY <1>2, VocThought
  <1>3. CASE Voc!Enter
    BY <1>3, VocEnter
  <1>4. CASE Voc!EnableSMS
    BY <1>4, VocReturns
  <1>5. CASE Voc!FailEnds
    BY <1>5, VocFailEnds
  <1>6. CASE \E i \in DOMAIN Voc!Stages :
                Voc!StageFails(Voc!Stages[i]) \/ Voc!StagePasses(Voc!Stages[i]) \/ Voc!StartSession(Voc!Stages[i])
    <2>1. \A i \in DOMAIN Voc!Stages : Voc!Stages[i] \in VocStages
      BY DEF Voc!Stages, VocStages
    <2> QED
      BY <1>6, <2>1, VocStageFails, VocStagePasses, VocStartSession
  <1>7. CASE Voc!CloseIMS \/ Voc!CloseTunnel
    BY <1>7, VocCloses
  <1>8. CASE Voc!RestoreRadio
    BY <1>8, VocRestores
  <1>9. CASE \E x \in Voc!Watchers : Voc!Watcher(x) \/ Voc!WatcherFails(x)
    BY <1>9, VocWatches1, VocWatcherEnds DEF Voc!Watcher
  <1>10. CASE Voc!Disable
    BY <1>10, VocDisables
  <1>11. CASE Voc!DisableEnds
    BY <1>11, VocDisableEnds
  <1>12. CASE Voc!SendSMS
    BY <1>12, VocSends
  <1>13. CASE Voc!LateCloses
    BY <1>13, VocLateClose
  <1> QED
    BY <1>1, <1>2, <1>3, <1>4, <1>5, <1>6, <1>7, <1>8, <1>9, <1>10, <1>11, <1>12, <1>13
    DEF Voc!Next, Voc!Enable, Voc!Cleanup, Voc!Coordinate

\* A lease keeps its invariant whatever fails, is stopped or is sent.
THEOREM LeaseInvariant == Behaviour => [](part = "lease" => VocInv)
  <1>1. InitAll => (part = "lease" => VocInv)
    BY SessionBounds, VocInit DEF InitAll
  <1>2. (part = "lease" => VocInv) /\ [NextAll]_all => (part = "lease" => VocInv)'
    <2> SUFFICES ASSUME part = "lease" => VocInv, [NextAll]_all, part' = "lease"
                 PROVE  VocInv'
      OBVIOUS
    <2>1. CASE UNCHANGED all
      <3>1. VocInv /\ UNCHANGED varsVoc
        BY <2>1 DEF all
      <3>2. VocTypes' /\ VocLocks' /\ VocSessions' /\ VocOpen'
        BY <3>1 DEF varsVoc, VocInv, VocTypes, VocLocks, VocSessions, VocOpen
      <3>3. VocWatches' /\ VocFaultsPaid' /\ VocPhases' /\ VocRadio' /\ VocRecords'
        BY <3>1 DEF varsVoc, VocInv, VocWatches, VocFaultsPaid, VocSpent, VocPhases, VocRadio, VocRecords, VocRecorded
      <3>4. VocNews'
        <4>1. VocDone("tunnel")' = VocDone("tunnel") /\ VocDone("ims")' = VocDone("ims")
          BY <3>1 DEF varsVoc, VocDone
        <4> QED
          BY <3>1, <4>1 DEF varsVoc, VocInv, VocNews
      <3> QED
        BY <3>2, <3>3, <3>4 DEF VocInv
    <2>2. CASE NextAll
      <3>1. part = "lease"
        BY <2>2 DEF NextAll
      <3>2. Voc!Next
        BY <2>2, <3>1 DEF NextAll
      <3> QED
        BY <3>1, <3>2, VocStep, SessionBounds
    <2> QED
      BY <2>1, <2>2
  <1> QED
    BY <1>1, <1>2, PTL DEF Behaviour

\* For any number of failures, retries and messages: the radio stays off while a session
\* exists whose close was not tried, no such session is forgotten, a message is never sent
\* over one that is being closed, and a close that failed or was given up by the lease's end,
\* or that the loop has judged, is never followed by a clean end (orchestrator.go,
\* wifi_vocat.go).
THEOREM LeaseIsKept == Behaviour => []LeaseKept
  <1>1. (part = "lease" => VocInv) => LeaseKept
    BY SessionBounds, VocPromise DEF LeaseKept
  <1> QED
    BY <1>1, LeaseInvariant, PTL

-----------------------------------------------------------------------------
(* The supervisor of Wi-Fi calling.                                        *)

SupIssues == {"none", "network", "transport", "rejected", "unconfirmed"}
SupW == [want : BOOLEAN, st : {"off", "waiting", "connecting", "connected", "stopping", "failed"},
         issue : SupIssues, reg : BOOLEAN, running : BOOLEAN, cancelled : BOOLEAN,
         rebinding : BOOLEAN, gen : Sup!Gens, retry : {"none", "later", "due"}, refresh : BOOLEAN,
         fails : 0 .. Limit, allowed : BOOLEAN, used : BOOLEAN, stopping : BOOLEAN]
SupWk == [pc : {"none", "gate", "start", "setup", "up", "pause", "clean", "done"},
          kind : {"engine", "restorer"}, gen : Sup!Gens, told : {"none", "stop", "cellular"},
          code : SupIssues \cup {"canceled"}, net : Nets, fp : Sup!Fps]

SupTypes ==
    /\ supDev \in Sup!Gens /\ supUsed \in Sup!Gens /\ supSeen \in Sup!Gens /\ radio \in {"cellular", "off"}
    /\ supValue \in [gen : Sup!Gens, ok : BOOLEAN]
    /\ supHold \in BOOLEAN /\ supGate \in {"free", "wifi", "other"} /\ supWork \in BOOLEAN /\ supReady \in BOOLEAN
    /\ supCtl \in [op : {"none", "switch", "network", "release"}, on : BOOLEAN, net : Nets, gen : Sup!Gens]
    /\ net \in Nets /\ links \in [Nets -> Sup!Fps]
    /\ w \in SupW /\ wk \in SupWk
    /\ moved \in BOOLEAN /\ why \in {"none", "rejected", "unconfirmed"}
    /\ restores \in Nat /\ supBudget \in 0 .. Outages

\* A module that is there is the last one given, and another can come only below the bound.
SupDevice == IF supDev = 0 THEN supUsed < MaxGen ELSE supDev = supUsed

\* The worker of the intent w: one at a time, of its generation; a restorer never sets up.
SupWorker ==
    /\ w.running <=> wk.pc # "none"
    /\ wk.pc # "none" => wk.gen = w.gen
    /\ wk.kind = "restorer" => wk.pc \in {"gate", "start", "done"}

SupGateHeld ==
    /\ supGate = "wifi" => wk.pc \notin {"none", "gate"}
    /\ wk.pc \in {"start", "setup", "up", "pause", "clean"} => supGate = "wifi"

\* An engine nobody has cancelled works for a user who wants it, over the chosen network.
SupRoute ==
    /\ wk.pc # "none" /\ wk.kind = "engine" /\ ~ w.cancelled => w.want /\ wk.net = net /\ wk.fp = links[net]
    /\ w.reg => w.want /\ w.running /\ wk.kind = "engine" /\ wk.pc \in {"up", "done"}
                /\ wk.net = net /\ wk.fp = links[net]

\* The restore of an outage is spent as long as it counts.
SupRestores == restores <= 1 /\ (restores = 1 => w.used)

\* What follows an unconfirmed cleanup, as long as the network stays.
SupWhy ==
    why = "unconfirmed" /\ ~ moved /\ ~ w.running =>
        w.st = "failed" /\ (w.issue = "unconfirmed" \/ (w.issue = "network" /\ links[net] = 0))

SupInv == SupTypes /\ SupDevice /\ SupWorker /\ SupGateHeld /\ SupRoute /\ SupRestores /\ SupWhy
\* What a supervisor that has just started finds.
LEMMA SupInit ==
    ASSUME Sup!WifiConstants, Sup!Init
    PROVE  SupInv
  <1>1. /\ Limit \in Nat /\ Limit > 0 /\ MaxGen \in Nat /\ MaxGen > 0 /\ MaxFp \in Nat /\ MaxFp > 0 /\ Outages \in Nat
        /\ \E n \in Nets : TRUE
    BY DEF Sup!WifiConstants
  <1>2. 0 \in Sup!Gens /\ 1 \in Sup!Gens /\ 0 \in Sup!Fps /\ 1 \in Sup!Fps /\ (CHOOSE n \in Nets : TRUE) \in Nets
    BY <1>1 DEF Sup!Gens, Sup!Fps
  <1>3. Sup!NoWorker \in SupWk /\ Sup!NoWorker.pc = "none" /\ Sup!NoWorker.kind = "engine"
    BY <1>2 DEF Sup!NoWorker, SupWk, SupIssues
  <1>4. supCtl \in [op : {"none", "switch", "network", "release"}, on : BOOLEAN, net : Nets, gen : Sup!Gens]
    BY <1>2 DEF Sup!Init, Sup!NoCtl
  <1>5. w \in SupW /\ w.reg = FALSE /\ w.running = FALSE
    BY <1>1, <1>2 DEF Sup!Init, SupW, SupIssues
  <1>6. links \in [Nets -> Sup!Fps] /\ supValue \in [gen : Sup!Gens, ok : BOOLEAN] /\ supBudget \in 0 .. Outages
    BY <1>1, <1>2 DEF Sup!Init
  <1>7. SupTypes
    BY <1>2, <1>3, <1>4, <1>5, <1>6 DEF Sup!Init, SupTypes
  <1> QED
    BY <1>3, <1>5, <1>7
    DEF Sup!Init, SupInv, SupDevice, SupWorker, SupGateHeld, SupRoute, SupRestores, SupWhy

\* No worker, and no request.
LEMMA SupNoWorker ==
    ASSUME Sup!WifiConstants
    PROVE  Sup!NoWorker \in SupWk /\ Sup!NoWorker.pc = "none" /\ Sup!NoWorker.kind = "engine"
  <1>1. 0 \in Sup!Gens /\ 0 \in Sup!Fps /\ (CHOOSE n \in Nets : TRUE) \in Nets
    BY DEF Sup!Gens, Sup!Fps, Sup!WifiConstants
  <1> QED
    BY <1>1 DEF Sup!NoWorker, SupWk, SupIssues

\* An intent that is no longer registered is else as it was.
LEMMA SupUnregistered ==
    ASSUME NEW x \in SupW, NEW y, y = Sup!setRegistered(x, FALSE)
    PROVE  /\ y \in SupW /\ y.reg = FALSE
           /\ y.want = x.want /\ y.st = x.st /\ y.issue = x.issue /\ y.running = x.running
           /\ y.cancelled = x.cancelled /\ y.rebinding = x.rebinding /\ y.gen = x.gen /\ y.retry = x.retry
           /\ y.refresh = x.refresh /\ y.used = x.used /\ y.stopping = x.stopping /\ y.allowed = x.allowed
           /\ y.fails = x.fails
  BY DEF Sup!setRegistered, SupW

\* What a start may do to an intent: nothing while a worker runs; else it fails for want of
\* a network, becomes ready, or launches a worker that is wanted and not cancelled.
LEMMA SupStart ==
    ASSUME NEW x \in SupW, NEW s \in [gen : Sup!Gens, ok : BOOLEAN], NEW n \in Nets,
           NEW l \in [Nets -> Sup!Fps], NEW p \in BOOLEAN,
           NEW y, y = Sup!startWiFiLocked(x, s, n, l, p)
    PROVE  /\ y \in SupW /\ y.want = x.want /\ y.used = x.used /\ y.stopping = x.stopping
           /\ y.reg => x.reg
           /\ x.running => y = x
           /\ y.running /\ ~ x.running => ~ y.cancelled /\ y.want /\ y.gen = s.gen /\ ~ y.reg
           /\ y.running = x.running => y.gen = x.gen /\ y.cancelled = x.cancelled
           /\ ~ y.running => y = x \/ (y.st = "failed" /\ y.issue = "network" /\ l[n] = 0)
           /\ x.st = "failed" /\ (x.issue = "unconfirmed" \/ (x.issue = "network" /\ l[n] = 0))
                  /\ ~ (x.gen # 0 /\ x.gen # s.gen) =>
              /\ y.running = x.running /\ y.st = "failed"
              /\ y.issue = "unconfirmed" \/ (y.issue = "network" /\ l[n] = 0)
  <1> DEFINE z == Sup!Renewed(x, s)
             a == [x EXCEPT !.st = "failed", !.issue = "network"]
             r == Sup!setRegistered(z, FALSE)
             b == [r EXCEPT !.st = "connecting", !.issue = "none", !.running = TRUE,
                            !.cancelled = FALSE, !.gen = s.gen, !.retry = "none"]
  <1>1. /\ Sup!MayStart(x, s, p) => x.want /\ ~ x.running
        /\ y = IF ~ Sup!MayStart(x, s, p) THEN x ELSE IF l[n] = 0 THEN a ELSE IF z.st # "waiting" THEN z ELSE b
    BY DEF Sup!MayStart, Sup!startWiFiLocked
  <1>2. /\ a \in SupW /\ a.st = "failed" /\ a.issue = "network" /\ a.want = x.want /\ a.used = x.used
        /\ a.stopping = x.stopping /\ a.reg = x.reg /\ a.running = x.running /\ a.gen = x.gen /\ a.cancelled = x.cancelled
    BY DEF SupW, SupIssues
  <1>3. /\ z \in SupW /\ z.want = x.want /\ z.used = x.used /\ z.stopping = x.stopping /\ (z.reg => x.reg)
        /\ z.running = x.running /\ z.gen = x.gen /\ z.cancelled = x.cancelled
        /\ z.st # "waiting" => z = x
        /\ x.st = "failed" /\ x.issue \notin {"network", "transport"} /\ ~ (x.gen # 0 /\ x.gen # s.gen) => z = x
    <2> DEFINE c == [x EXCEPT !.st = "waiting"]
               u == Sup!setRegistered(x, FALSE)
               d == [u EXCEPT !.st = "waiting", !.issue = "none"]
    <2>1. /\ c \in SupW /\ c.st = "waiting" /\ c.want = x.want /\ c.used = x.used /\ c.stopping = x.stopping /\ c.reg = x.reg
          /\ c.running = x.running /\ c.gen = x.gen /\ c.cancelled = x.cancelled
      BY DEF SupW
    <2>2. /\ u \in SupW /\ u.want = x.want /\ u.used = x.used /\ u.stopping = x.stopping /\ ~ u.reg
          /\ u.running = x.running /\ u.gen = x.gen /\ u.cancelled = x.cancelled
      BY SupUnregistered
    <2> HIDE DEF u
    <2>3. /\ d \in SupW /\ d.st = "waiting" /\ d.want = u.want /\ d.used = u.used /\ d.stopping = u.stopping /\ d.reg = u.reg
          /\ d.running = u.running /\ d.gen = u.gen /\ d.cancelled = u.cancelled
      BY <2>2 DEF SupW, SupIssues
    <2>4. z = x \/ z = c \/ z = d
      BY DEF Sup!Renewed, Sup!resumeWiFiIntent, u
    <2>5. x.st = "failed" /\ x.issue \notin {"network", "transport"} /\ ~ (x.gen # 0 /\ x.gen # s.gen) => z = x
      BY DEF Sup!Renewed, Sup!retryWiFiFailure
    <2> HIDE DEF c, d, z
    <2> QED
      BY <2>1, <2>2, <2>3, <2>4, <2>5
  <1> HIDE DEF z
  <1>4. /\ r \in SupW /\ r.want = z.want /\ r.used = z.used /\ r.stopping = z.stopping /\ ~ r.reg
    BY <1>3, SupUnregistered
  <1> HIDE DEF r
  <1>5. /\ b \in SupW /\ b.want = r.want /\ b.used = r.used /\ b.stopping = r.stopping /\ b.reg = r.reg
        /\ b.running = TRUE /\ b.gen = s.gen /\ b.cancelled = FALSE
    BY <1>4 DEF SupW, SupIssues
  <1> HIDE DEF a, b
  <1>6. x.running \in BOOLEAN
    BY DEF SupW
  <1>7. CASE ~ Sup!MayStart(x, s, p)
    BY <1>1, <1>7
  <1>8. CASE Sup!MayStart(x, s, p) /\ l[n] = 0
    BY <1>1, <1>2, <1>6, <1>8
  <1>9. CASE Sup!MayStart(x, s, p) /\ l[n] # 0 /\ z.st # "waiting"
    BY <1>1, <1>3, <1>6, <1>9
  <1>10. CASE Sup!MayStart(x, s, p) /\ l[n] # 0 /\ z.st = "waiting"
    BY <1>1, <1>3, <1>4, <1>5, <1>6, <1>10
  <1> QED
    BY <1>7, <1>8, <1>9, <1>10

\* What the full recovery does to an intent that is due, and to no other.
LEMMA SupRecover ==
    ASSUME SupTypes, NEW x \in SupW, NEW y, y = Sup!recoverWiFiLocked(x)
    PROVE  /\ y \in SupW /\ y.want = x.want /\ y.reg = x.reg
           /\ ~ Sup!RecoveryDue(x) => y = x
           /\ Sup!RecoveryDue(x) =>
                 /\ x.want /\ ~ x.reg /\ ~ x.used /\ y.used /\ y.stopping /\ y.running /\ y.cancelled = x.running
                 /\ (x.running => y.gen = x.gen) /\ (~ x.running => y.gen = supValue.gen /\ x.issue \in {"network", "transport"})
                 /\ y.st = "stopping"
  <1>1. CASE ~ Sup!RecoveryDue(x)
    BY <1>1 DEF Sup!recoverWiFiLocked
  <1>2. CASE Sup!RecoveryDue(x)
    <2>1. /\ x.want /\ ~ x.reg /\ ~ x.used /\ (~ x.running => x.issue \in {"network", "transport"})
          /\ supValue.gen \in Sup!Gens /\ x.running \in BOOLEAN
      BY <1>2 DEF Sup!RecoveryDue, Sup!Untried, Sup!retryWiFiFailure, SupTypes, SupW
    <2>2. y = [x EXCEPT !.used = TRUE, !.stopping = TRUE, !.st = "stopping", !.running = TRUE,
                        !.cancelled = x.running, !.gen = IF x.running THEN x.gen ELSE supValue.gen]
      BY <1>2 DEF Sup!recoverWiFiLocked
    <2>3. y \in SupW
      BY <2>1, <2>2 DEF SupW
    <2>4. /\ y.used = TRUE /\ y.stopping = TRUE /\ y.st = "stopping" /\ y.running = TRUE /\ y.cancelled = x.running
          /\ y.gen = (IF x.running THEN x.gen ELSE supValue.gen) /\ y.want = x.want /\ y.reg = x.reg
      BY <2>2 DEF SupW
    <2> QED
      BY <1>2, <2>1, <2>3, <2>4
  <1> QED
    BY <1>1, <1>2

\* A step of, or beside, a worker that goes on, or while there is none.
LEMMA SupGoesOn ==
    ASSUME SupInv, SupTypes', SupDevice', SupGateHeld', UNCHANGED <<net, links>>,
           wk'.pc = "none" <=> wk.pc = "none", wk'.pc = "gate" => wk.pc = "gate",
           wk'.kind = wk.kind, wk'.gen = wk.gen, wk'.net = wk.net, wk'.fp = wk.fp,
           wk.kind = "restorer" => wk'.pc = wk.pc \/ wk'.pc \in {"start", "done"},
           w'.running = w.running, w.running => w'.gen = w.gen,
           w.running /\ (w.cancelled \/ ~ w'.want) => w'.cancelled \/ (~ w.want /\ ~ w.cancelled),
           w'.reg => w'.want /\ w.running /\ wk.kind = "engine" /\ wk'.pc \in {"up", "done"} /\ (w.reg \/ ~ w.cancelled),
           restores' <= 1 /\ (restores' = 1 => w'.used),
           why' = "unconfirmed" /\ ~ moved' /\ ~ w.running =>
               why = "unconfirmed" /\ ~ moved /\ w'.st = w.st /\ w'.issue = w.issue
    PROVE  SupInv' /\ Sup!UnconfirmedHeld
  <1>1. SupWorker'
    BY DEF SupInv, SupWorker
  <1>2. SupRoute'
    BY DEF SupInv, SupWorker, SupRoute
  <1>3. SupRestores' /\ SupWhy'
    BY DEF SupInv, SupRestores, SupWhy
  <1>4. Sup!UnconfirmedHeld
    BY DEF Sup!UnconfirmedHeld
  <1> QED
    BY <1>1, <1>2, <1>3, <1>4 DEF SupInv

\* A worker is launched where there is none.
LEMMA SupLaunched ==
    ASSUME SupInv, SupTypes', ~ w.running, w'.running, ~ w'.reg, UNCHANGED <<supDev, supUsed, supGate>>,
           wk'.pc = "gate", wk'.gen = w'.gen,
           wk'.kind = "engine" => w'.want /\ wk'.net = net' /\ wk'.fp = links'[net'],
           restores' <= 1 /\ (restores' = 1 => w'.used),
           wk'.kind = "engine" /\ why' = "unconfirmed" => moved \/ links'[net] # links[net]
    PROVE  SupInv' /\ Sup!UnconfirmedHeld
  <1>1. wk.pc = "none" /\ supGate # "wifi"
    BY DEF SupInv, SupWorker, SupGateHeld
  <1>2. SupDevice' /\ SupWorker' /\ SupGateHeld'
    BY <1>1 DEF SupInv, SupDevice, SupWorker, SupGateHeld
  <1>3. SupRoute' /\ SupRestores' /\ SupWhy'
    BY DEF SupRoute, SupRestores, SupWhy
  <1> QED
    BY <1>2, <1>3 DEF SupInv, Sup!UnconfirmedHeld

\* What the module, the clock and its other users do without the supervisor.
LEMMA SupQuiet ==
    ASSUME SupInv, Sup!WifiConstants,
           \/ Sup!Unplug \/ Sup!Plug \/ Sup!HoldEnds \/ Sup!Others
           \/ \E on \in BOOLEAN : Sup!SwitchWifi(on)
           \/ \E n \in Nets : Sup!ChangeNetwork(n)
    PROVE  SupInv' /\ Sup!UnconfirmedHeld
  <1>1. /\ UNCHANGED <<net, links, w, wk, moved, why, restores, supSeen, supValue>>
        /\ supGate' = supGate \/ (supGate = "free" /\ supGate' = "other") \/ (supGate = "other" /\ supGate' = "free")
        /\ supBudget' = supBudget \/ (supBudget > 0 /\ supBudget' = supBudget - 1)
        /\ \/ UNCHANGED <<supDev, supUsed, radio>>
           \/ supDev # 0 /\ supDev < MaxGen /\ supDev' = 0 /\ UNCHANGED <<supUsed, radio>>
           \/ supDev = 0 /\ supUsed' = supUsed + 1 /\ supDev' = supUsed' /\ radio' = "cellular"
        /\ \/ UNCHANGED supCtl
           \/ \E on \in BOOLEAN : supCtl' = [Sup!NoCtl EXCEPT !.op = "switch", !.on = on, !.gen = supSeen]
           \/ \E n \in Nets : supCtl' = [Sup!NoCtl EXCEPT !.op = "network", !.net = n]
        /\ supHold' \in {supHold, FALSE} /\ supWork' \in {supWork, TRUE, FALSE} /\ supReady' = supReady
    BY DEF Sup!Unplug, Sup!Plug, Sup!HoldEnds, Sup!Others, Sup!OtherTakes, Sup!OtherReleases, Sup!WorkBegins,
           Sup!WorkEnds, Sup!SwitchWifi, Sup!ChangeNetwork, Sup!Event, Sup!device
  <1>2. SupTypes /\ SupDevice /\ MaxGen \in Nat /\ Outages \in Nat /\ \E n \in Nets : TRUE
    BY DEF SupInv, Sup!WifiConstants
  <1>3. supDev' \in Sup!Gens /\ supUsed' \in Sup!Gens /\ SupDevice' /\ radio' \in {"cellular", "off"}
    <2>1. supDev \in 0 .. MaxGen /\ supUsed \in 0 .. MaxGen /\ radio \in {"cellular", "off"}
      BY <1>2 DEF SupTypes, Sup!Gens
    <2>2. CASE UNCHANGED <<supDev, supUsed, radio>>
      BY <1>2, <2>1, <2>2 DEF SupDevice, Sup!Gens
    <2>3. CASE supDev # 0 /\ supDev < MaxGen /\ supDev' = 0 /\ UNCHANGED <<supUsed, radio>>
      BY <1>2, <2>1, <2>3 DEF SupDevice, Sup!Gens
    <2>4. CASE supDev = 0 /\ supUsed' = supUsed + 1 /\ supDev' = supUsed' /\ radio' = "cellular"
      BY <1>2, <2>1, <2>4 DEF SupDevice, Sup!Gens
    <2> QED
      BY <1>1, <2>2, <2>3, <2>4
  <1>4. supCtl' \in [op : {"none", "switch", "network", "release"}, on : BOOLEAN, net : Nets, gen : Sup!Gens]
    <2>1. supCtl \in [op : {"none", "switch", "network", "release"}, on : BOOLEAN, net : Nets, gen : Sup!Gens]
          /\ supSeen \in Sup!Gens
      BY <1>2 DEF SupTypes
    <2>2. 0 \in Sup!Gens /\ (CHOOSE n \in Nets : TRUE) \in Nets
      BY <1>2 DEF Sup!Gens
    <2>3. Sup!NoCtl \in [op : {"none", "switch", "network", "release"}, on : BOOLEAN, net : Nets, gen : Sup!Gens]
      BY <2>2 DEF Sup!NoCtl
    <2>4. ASSUME NEW on \in BOOLEAN
          PROVE  [Sup!NoCtl EXCEPT !.op = "switch", !.on = on, !.gen = supSeen] \in
                     [op : {"none", "switch", "network", "release"}, on : BOOLEAN, net : Nets, gen : Sup!Gens]
      BY <2>1, <2>3
    <2>5. ASSUME NEW n \in Nets
          PROVE  [Sup!NoCtl EXCEPT !.op = "network", !.net = n] \in
                     [op : {"none", "switch", "network", "release"}, on : BOOLEAN, net : Nets, gen : Sup!Gens]
      BY <2>3
    <2> QED
      BY <1>1, <2>1, <2>4, <2>5
  <1>5. supBudget' \in 0 .. Outages
    <2>1. supBudget \in 0 .. Outages
      BY <1>2 DEF SupTypes
    <2>2. supBudget' = supBudget \/ (supBudget > 0 /\ supBudget' = supBudget - 1)
      BY <1>1
    <2> QED
      BY <1>2, <2>1, <2>2
  <1>6. SupTypes'
    BY <1>1, <1>2, <1>3, <1>4, <1>5 DEF SupTypes
  <1>7. SupGateHeld'
    BY <1>1 DEF SupInv, SupGateHeld
  <1> QED
    BY <1>1, <1>3, <1>6, <1>7, SupGoesOn DEF SupInv, SupRoute, SupRestores

\* A scan cancels the worker of a generation that is gone; a back-off or a refresh is over.
LEMMA SupTimes ==
    ASSUME SupInv, Sup!WifiConstants, Sup!scan \/ Sup!RetryDue \/ Sup!RefreshEnds
    PROVE  SupInv' /\ Sup!UnconfirmedHeld
  <1>1. /\ UNCHANGED <<supDev, supUsed, radio, supValue, supHold, supGate, supWork, supReady, supCtl, net, links, wk,
                       moved, why, restores, supBudget>>
        /\ supSeen' \in {supSeen, supDev}
        /\ \/ w' = w \/ (w.running /\ w' = [w EXCEPT !.cancelled = TRUE])
           \/ w' = [w EXCEPT !.retry = "due"] \/ w' = [w EXCEPT !.refresh = FALSE]
    BY DEF Sup!scan, Sup!RetryDue, Sup!RefreshEnds, Sup!device
  <1>2. SupTypes /\ w \in SupW
    BY DEF SupInv, SupTypes
  <1>3. w' \in SupW
    BY <1>1, <1>2 DEF SupW
  <1>4. /\ w'.want = w.want /\ w'.running = w.running /\ w'.gen = w.gen /\ w'.reg = w.reg /\ w'.used = w.used
        /\ w'.st = w.st /\ w'.issue = w.issue /\ (w.cancelled => w'.cancelled)
    BY <1>1, <1>2 DEF SupW
  <1>5. SupTypes'
    BY <1>1, <1>2, <1>3 DEF SupTypes
  <1>6. SupDevice' /\ SupGateHeld'
    BY <1>1 DEF SupInv, SupDevice, SupGateHeld
  <1> QED
    BY <1>1, <1>4, <1>5, <1>6, SupGoesOn DEF SupInv, SupRoute, SupRestores

\* A new intent is no worker's, and one the worker does not know is not registered.
LEMMA SupLaunch ==
    ASSUME SupTypes, Sup!WifiConstants, NEW x \in SupW, x = w', Sup!Launch(x, net, links)
    PROVE  /\ wk' \in SupWk /\ moved' \in BOOLEAN
           /\ w.running \/ ~ w'.running => wk' = wk /\ moved' = moved
           /\ ~ w.running /\ w'.running => wk'.pc = "gate" /\ wk'.kind = "engine" /\ wk'.gen = w'.gen /\ wk'.net = net
                                           /\ wk'.fp = links[net]
  <1>1. wk \in SupWk /\ moved \in BOOLEAN /\ net \in Nets /\ links[net] \in Sup!Fps /\ x.gen \in Sup!Gens
    BY DEF SupTypes, SupW
  <1>2. wk' = IF Sup!Began(x) THEN [Sup!NoWorker EXCEPT !.pc = "gate", !.gen = x.gen, !.net = net, !.fp = links[net]] ELSE wk
    BY DEF Sup!Launch
  <1>3. moved' = IF Sup!Began(x) THEN FALSE ELSE moved
    BY DEF Sup!Launch
  <1> DEFINE k == [Sup!NoWorker EXCEPT !.pc = "gate", !.gen = x.gen, !.net = net, !.fp = links[net]]
  <1>4. k \in SupWk /\ k.pc = "gate" /\ k.kind = "engine" /\ k.gen = x.gen /\ k.net = net /\ k.fp = links[net]
    BY <1>1, SupNoWorker DEF SupWk
  <1>5. Sup!Began(x) <=> ~ w.running /\ w'.running
    BY DEF Sup!Began
  <1>6. wk' = IF Sup!Began(x) THEN k ELSE wk
    BY <1>2
  <1> HIDE DEF k
  <1> QED
    BY <1>1, <1>3, <1>4, <1>5, <1>6

\* A poll stores its sample and takes up the intent.
LEMMA SupAccepts ==
    ASSUME SupInv, Sup!WifiConstants, Sup!accept
    PROVE  SupInv' /\ Sup!UnconfirmedHeld
  <1>1. PICK on \in BOOLEAN, resumed \in BOOLEAN :
            LET s == [gen |-> supSeen, ok |-> on]
                x == IF resumed THEN Sup!resumeWiFiIntent(w, s) ELSE w
                y == Sup!startWiFiLocked(x, s, net, links, supCtl.op # "none")
            IN /\ supValue' = s /\ Sup!Launch(y, net, links)
               /\ why' = IF x # w \/ Sup!NewReason(s) THEN "none" ELSE why
               /\ supBudget' = supBudget \/ (supBudget > 0 /\ supBudget' = supBudget - 1)
    BY DEF Sup!accept, Sup!Calm, Sup!Event
  <1> DEFINE s == [gen |-> supSeen, ok |-> on]
             x == IF resumed THEN Sup!resumeWiFiIntent(w, s) ELSE w
             busy == supCtl.op # "none"
             y == Sup!startWiFiLocked(x, s, net, links, busy)
  <1>2. /\ supValue' = s /\ Sup!Launch(y, net, links) /\ w' = y
        /\ why' = IF x # w \/ Sup!NewReason(s) THEN "none" ELSE why
        /\ supBudget' = supBudget \/ (supBudget > 0 /\ supBudget' = supBudget - 1)
        /\ UNCHANGED <<supDev, supUsed, radio, supSeen, supHold, supGate, supWork, supReady, supCtl, net, links, restores>>
    BY <1>1 DEF Sup!accept, Sup!Launch
  <1>3. SupTypes /\ w \in SupW /\ net \in Nets /\ links \in [Nets -> Sup!Fps] /\ w.running \in BOOLEAN
    BY DEF SupInv, SupTypes, SupW
  <1>4. s \in [gen : Sup!Gens, ok : BOOLEAN] /\ s.gen = supSeen /\ busy \in BOOLEAN
    BY <1>3 DEF SupTypes
  <1>5. /\ x \in SupW /\ x.want = w.want /\ x.used = w.used /\ x.running = w.running /\ (x.reg => w.reg)
        /\ x.gen = w.gen /\ x.cancelled = w.cancelled
        /\ (w.running => x = w)
    <2>1. CASE x = w
      BY <1>3, <2>1
    <2>2. CASE x # w
      <3> DEFINE u == Sup!setRegistered(w, FALSE)
      <3>1. /\ u \in SupW /\ u.want = w.want /\ u.used = w.used /\ u.running = w.running /\ ~ u.reg
            /\ u.gen = w.gen /\ u.cancelled = w.cancelled
        BY <1>3, SupUnregistered
      <3>2. x = [u EXCEPT !.st = "waiting", !.issue = "none"] /\ ~ w.running
        BY <2>2 DEF Sup!resumeWiFiIntent
      <3> HIDE DEF u, x
      <3> QED
        BY <3>1, <3>2 DEF SupW, SupIssues
    <2> QED
      BY <2>1, <2>2
  <1> HIDE DEF x, s, busy
  <1>6. /\ y \in SupW /\ y.running \in BOOLEAN /\ y.want = x.want /\ y.used = x.used
        /\ y.reg => x.reg
        /\ x.running => y = x
        /\ y.running /\ ~ x.running => ~ y.cancelled /\ y.want /\ y.gen = s.gen /\ ~ y.reg
        /\ y.running = x.running => y.gen = x.gen /\ y.cancelled = x.cancelled
        /\ x.st = "failed" /\ (x.issue = "unconfirmed" \/ (x.issue = "network" /\ links[net] = 0))
                  /\ ~ (x.gen # 0 /\ x.gen # s.gen) =>
              /\ y.running = x.running /\ y.st = "failed"
              /\ y.issue = "unconfirmed" \/ (y.issue = "network" /\ links[net] = 0)
    <2>1. y \in SupW => y.running \in BOOLEAN
      BY DEF SupW
    <2> HIDE DEF y
    <2>2. y = Sup!startWiFiLocked(x, s, net, links, busy)
      BY DEF y
    <2> QED
      BY <1>3, <1>4, <1>5, <2>1, <2>2, SupStart
  <1> HIDE DEF y
  <1>7. /\ wk' \in SupWk /\ moved' \in BOOLEAN
        /\ w.running \/ ~ w'.running => wk' = wk /\ moved' = moved
        /\ ~ w.running /\ w'.running => wk'.pc = "gate" /\ wk'.kind = "engine" /\ wk'.gen = w'.gen /\ wk'.net = net
                                           /\ wk'.fp = links[net]
    BY <1>2, <1>3, <1>6, SupLaunch
  <1>8. SupTypes'
    <2>1. why' \in {"none", "rejected", "unconfirmed"}
      BY <1>2, <1>3 DEF SupTypes
    <2>2. supBudget' \in 0 .. Outages
      <3>1. supBudget \in 0 .. Outages /\ Outages \in Nat
        BY <1>3 DEF SupTypes, Sup!WifiConstants
      <3> QED
        BY <1>2, <3>1
    <2> QED
      BY <1>2, <1>3, <1>4, <1>6, <1>7, <2>1, <2>2 DEF SupTypes
  <1>9. SupDevice' /\ SupGateHeld'
    BY <1>2, <1>6, <1>7, <1>5 DEF SupInv, SupDevice, SupGateHeld, SupWorker
  <1>10. why' = "unconfirmed" => why = "unconfirmed" /\ x = w /\ ~ (w.gen # 0 /\ w.gen # s.gen)
    BY <1>2 DEF Sup!NewReason
  <1>11. SupWhy /\ SupRestores /\ SupWorker /\ SupRoute
    BY DEF SupInv
  <1>12. CASE ~ w.running /\ w'.running
    <2>1. why' = "unconfirmed" => moved
      BY <1>2, <1>6, <1>10, <1>11, <1>12 DEF SupWhy
    <2> QED
      BY <1>2, <1>5, <1>6, <1>7, <1>8, <1>11, <1>12, <2>1, SupLaunched DEF SupRestores
  <1>13. CASE w.running \/ ~ w'.running
    <2>1. wk' = wk /\ moved' = moved /\ w'.running = w.running /\ w'.gen = w.gen /\ w'.want = w.want
          /\ w'.cancelled = w.cancelled /\ (w'.reg => w.reg) /\ w'.used = w.used
      <3>1. w'.running = w.running
        BY <1>2, <1>3, <1>5, <1>6, <1>13
      <3>2. w'.gen = w.gen /\ w'.cancelled = w.cancelled
        BY <1>2, <1>5, <1>6, <3>1
      <3>3. w'.want = w.want /\ (w'.reg => w.reg) /\ w'.used = w.used
        BY <1>2, <1>5, <1>6
      <3> QED
        BY <1>7, <1>13, <3>1, <3>2, <3>3
    <2>2. SupWorker' /\ SupRoute' /\ SupRestores'
      BY <1>2, <1>11, <2>1 DEF SupWorker, SupRoute, SupRestores
    <2>3. SupWhy'
      BY <1>2, <1>6, <1>10, <1>11, <2>1 DEF SupWhy
    <2>4. Sup!UnconfirmedHeld
      BY <2>1 DEF Sup!UnconfirmedHeld
    <2> QED
      BY <1>8, <1>9, <2>2, <2>3, <2>4 DEF SupInv
  <1> QED
    BY <1>12, <1>13

\* The worker that only restores the radio.
LEMMA SupRestorer ==
    ASSUME Sup!WifiConstants, NEW x \in SupW
    PROVE  /\ Sup!Restorer(x) \in SupWk /\ Sup!Restorer(x).pc = "gate" /\ Sup!Restorer(x).kind = "restorer"
           /\ Sup!Restorer(x).gen = x.gen
  <1>1. x.gen \in Sup!Gens
    BY DEF SupW
  <1> QED
    BY <1>1, SupNoWorker DEF Sup!Restorer, SupWk

\* No request is one.
LEMMA SupNoCtl ==
    ASSUME Sup!WifiConstants
    PROVE  Sup!NoCtl \in [op : {"none", "switch", "network", "release"}, on : BOOLEAN, net : Nets, gen : Sup!Gens]
  <1>1. 0 \in Sup!Gens /\ (CHOOSE n \in Nets : TRUE) \in Nets
    BY DEF Sup!Gens, Sup!WifiConstants
  <1> QED
    BY <1>1 DEF Sup!NoCtl

\* The network's reservation ends, and the intent may start over the new network.
LEMMA SupReleases ==
    ASSUME SupInv, Sup!WifiConstants, Sup!ReleaseNetwork
    PROVE  SupInv' /\ Sup!UnconfirmedHeld
  <1> DEFINE y == Sup!resumeNetworkLocked(w, FALSE)
  <1>1. /\ supCtl' = Sup!NoCtl /\ Sup!Launch(y, net, links) /\ w' = y
        /\ why' = IF Sup!NewReason(supValue) THEN "none" ELSE why
        /\ UNCHANGED <<supDev, supUsed, radio, supSeen, supValue, supHold, supGate, supWork, supReady, net, links,
                       restores, supBudget>>
    BY DEF Sup!ReleaseNetwork, Sup!Launch, Sup!device
  <1>2. SupTypes /\ w \in SupW /\ net \in Nets /\ links \in [Nets -> Sup!Fps] /\ w.running \in BOOLEAN
        /\ supValue \in [gen : Sup!Gens, ok : BOOLEAN]
    BY DEF SupInv, SupTypes, SupW
  <1>3. /\ y \in SupW /\ y.running \in BOOLEAN /\ y.want = w.want /\ y.used = w.used
        /\ y.reg => w.reg
        /\ w.running => y = w
        /\ y.running /\ ~ w.running => ~ y.cancelled /\ y.want /\ y.gen = supValue.gen /\ ~ y.reg
        /\ y.running = w.running => y.gen = w.gen /\ y.cancelled = w.cancelled
        /\ w.st = "failed" /\ (w.issue = "unconfirmed" \/ (w.issue = "network" /\ links[net] = 0))
                  /\ ~ (w.gen # 0 /\ w.gen # supValue.gen) =>
              /\ y.running = w.running /\ y.st = "failed"
              /\ y.issue = "unconfirmed" \/ (y.issue = "network" /\ links[net] = 0)
    <2>1. y \in SupW => y.running \in BOOLEAN
      BY DEF SupW
    <2>2. CASE y = w
      BY <1>2, <2>1, <2>2
    <2>3. CASE y = Sup!startWiFiLocked(w, supValue, net, links, FALSE)
      <3> DEFINE no == FALSE
      <3>1. no \in BOOLEAN /\ y = Sup!startWiFiLocked(w, supValue, net, links, no)
        BY <2>3
      <3> HIDE DEF y, no
      <3> QED
        BY <1>2, <2>1, <3>1, SupStart
    <2> QED
      BY <2>2, <2>3 DEF Sup!resumeNetworkLocked
  <1> HIDE DEF y
  <1>4. /\ wk' \in SupWk /\ moved' \in BOOLEAN
        /\ w.running \/ ~ w'.running => wk' = wk /\ moved' = moved
        /\ ~ w.running /\ w'.running => wk'.pc = "gate" /\ wk'.kind = "engine" /\ wk'.gen = w'.gen /\ wk'.net = net
                                           /\ wk'.fp = links[net]
    BY <1>1, <1>2, <1>3, SupLaunch
  <1>5. SupTypes'
    <2>1. why' \in {"none", "rejected", "unconfirmed"}
      BY <1>1, <1>2 DEF SupTypes
    <2> QED
      BY <1>1, <1>2, <1>3, <1>4, <2>1, SupNoCtl DEF SupTypes
  <1>6. SupWhy /\ SupRestores /\ SupWorker /\ SupRoute /\ SupGateHeld /\ SupDevice
    BY DEF SupInv
  <1>7. why' = "unconfirmed" => why = "unconfirmed" /\ ~ (w.gen # 0 /\ w.gen # supValue.gen)
    BY <1>1 DEF Sup!NewReason
  <1>8. CASE ~ w.running /\ w'.running
    <2>1. why' = "unconfirmed" => moved
      BY <1>1, <1>3, <1>6, <1>7, <1>8 DEF SupWhy
    <2> QED
      BY <1>1, <1>3, <1>4, <1>5, <1>6, <1>8, <2>1, SupLaunched DEF SupRestores
  <1>9. CASE w.running \/ ~ w'.running
    <2>1. w'.running = w.running
      BY <1>1, <1>2, <1>3, <1>9
    <2>2. w'.gen = w.gen /\ w'.cancelled = w.cancelled
      BY <1>1, <1>3, <2>1
    <2>3. w'.want = w.want /\ (w'.reg => w.reg) /\ w'.used = w.used /\ wk' = wk /\ moved' = moved
      BY <1>1, <1>3, <1>4, <1>9
    <2>4. SupWorker' /\ SupRoute' /\ SupRestores' /\ SupDevice' /\ SupGateHeld'
      BY <1>1, <1>6, <2>1, <2>2, <2>3 DEF SupWorker, SupRoute, SupRestores, SupDevice, SupGateHeld
    <2>5. SupWhy'
      BY <1>1, <1>3, <1>6, <1>7, <2>1, <2>3 DEF SupWhy
    <2>6. Sup!UnconfirmedHeld
      BY <2>3 DEF Sup!UnconfirmedHeld
    <2> QED
      BY <1>5, <2>4, <2>5, <2>6 DEF SupInv
  <1> QED
    BY <1>8, <1>9

\* The full recovery of an outage.
LEMMA SupRecovers ==
    ASSUME SupInv, Sup!WifiConstants, Sup!recoverWiFi
    PROVE  SupInv' /\ Sup!UnconfirmedHeld
  <1>1. /\ Sup!RecoveryDue(w) /\ w' = Sup!recoverWiFiLocked(w) /\ restores' = restores + 1
        /\ IF w.running THEN UNCHANGED <<wk, moved, why>> ELSE wk' = Sup!Restorer(w') /\ moved' = FALSE /\ why' = "none"
        /\ UNCHANGED <<supDev, supUsed, radio, supSeen, supValue, supHold, supGate, supWork, supReady, supCtl, net, links,
                       supBudget>>
    BY DEF Sup!recoverWiFi, Sup!Restored, Sup!device
  <1>2. SupTypes /\ w \in SupW /\ w.running \in BOOLEAN
    BY DEF SupInv, SupTypes, SupW
  <1>3. /\ w' \in SupW /\ w'.want = w.want /\ w'.reg = w.reg
        /\ w.want /\ ~ w.reg /\ ~ w.used /\ w'.used /\ w'.stopping /\ w'.running /\ w'.cancelled = w.running
        /\ w.running => w'.gen = w.gen
    BY <1>1, <1>2, SupRecover
  <1>4. restores = 0 /\ restores' = 1
    BY <1>1, <1>2, <1>3 DEF SupInv, SupRestores, SupTypes
  <1>5. CASE w.running
    <2>1. UNCHANGED <<wk, moved, why>> /\ w'.cancelled = TRUE /\ w'.running = w.running
      BY <1>1, <1>2, <1>3, <1>5 DEF SupW
    <2>2. SupTypes'
      <3>1. UNCHANGED <<supDev, supUsed, radio, supSeen, supValue, supHold, supGate, supWork, supReady, supCtl, net, links,
                        supBudget>>
        BY <1>1
      <3>2. restores' \in Nat
        BY <1>4
      <3> QED
        BY <1>2, <1>3, <2>1, <3>1, <3>2 DEF SupTypes
    <2>3. SupDevice' /\ SupGateHeld'
      BY <1>1, <2>1 DEF SupInv, SupDevice, SupGateHeld
    <2> QED
      BY <1>1, <1>3, <1>4, <1>5, <2>1, <2>2, <2>3, SupGoesOn
  <1>6. CASE ~ w.running
    <2>1. /\ wk' \in SupWk /\ wk'.pc = "gate" /\ wk'.kind = "restorer" /\ wk'.gen = w'.gen
          /\ moved' = FALSE /\ why' = "none"
      BY <1>1, <1>3, <1>6, SupRestorer
    <2>2. SupTypes'
      <3>1. UNCHANGED <<supDev, supUsed, radio, supSeen, supValue, supHold, supGate, supWork, supReady, supCtl, net, links,
                        supBudget>>
        BY <1>1
      <3>2. restores' \in Nat
        BY <1>4
      <3> QED
        BY <1>2, <1>3, <2>1, <3>1, <3>2 DEF SupTypes
    <2> QED
      BY <1>1, <1>3, <1>4, <1>6, <2>1, <2>2, SupLaunched
  <1> QED
    BY <1>5, <1>6

\* The user's switch.
LEMMA SupSwitches ==
    ASSUME SupInv, Sup!WifiConstants, Sup!ApplySwitch
    PROVE  SupInv' /\ Sup!UnconfirmedHeld
  <1> DEFINE f == Sup!ForgetRecovery(w)
             g == Sup!setRegistered(f, FALSE)
             off == Sup!SwitchedOff
  <1>1. /\ supCtl' = Sup!NoCtl
        /\ UNCHANGED <<supDev, supUsed, radio, supSeen, supValue, supHold, supGate, supWork, supReady, net, links, supBudget>>
        /\ \/ UNCHANGED <<w, wk, moved, why, restores>>
           \/ /\ restores' = IF supCtl.on /\ w.want THEN restores ELSE 0
              /\ \/ supCtl.on /\ w.running /\ w' = Sup!SwitchedOn /\ UNCHANGED <<why, wk, moved>>
                 \/ /\ supCtl.on /\ ~ w.running /\ w' = [Sup!SwitchedOn EXCEPT !.st = "waiting", !.issue = "none"]
                    /\ why' = "none" /\ UNCHANGED <<wk, moved>>
                 \/ /\ ~ supCtl.on /\ w.running /\ w' = [off EXCEPT !.st = "stopping", !.cancelled = TRUE]
                    /\ why' = "none" /\ UNCHANGED <<wk, moved>>
                 \/ /\ ~ supCtl.on /\ ~ w.running /\ why' = "none" /\ moved' = FALSE /\ wk' = Sup!Restorer(w')
                    /\ w' = [off EXCEPT !.st = "stopping", !.issue = "none", !.running = TRUE,
                                        !.cancelled = FALSE, !.gen = supCtl.gen]
    BY DEF Sup!ApplySwitch, Sup!device
  <1>2. SupTypes /\ w \in SupW /\ w.running \in BOOLEAN /\ supCtl.gen \in Sup!Gens /\ 0 \in 0 .. Limit
    BY DEF SupInv, SupTypes, SupW, Sup!WifiConstants
  <1>3. f \in SupW /\ f.want = w.want /\ f.running = w.running /\ f.reg = w.reg /\ f.gen = w.gen /\ f.cancelled = w.cancelled
        /\ f.st = w.st /\ f.issue = w.issue
    BY <1>2 DEF Sup!ForgetRecovery, SupW
  <1>4. g \in SupW /\ g.reg = FALSE /\ g.running = w.running /\ g.gen = w.gen /\ g.cancelled = w.cancelled
    <2> HIDE DEF f
    <2> QED
      BY <1>3, SupUnregistered
  <1>5. off = [g EXCEPT !.want = FALSE]
    BY DEF Sup!SwitchedOff
  <1> HIDE DEF g, off
  <1>6. off \in SupW /\ off.reg = FALSE /\ off.running = w.running /\ off.gen = w.gen
    BY <1>4, <1>5 DEF SupW
  <1>7. /\ Sup!SwitchedOn \in SupW /\ Sup!SwitchedOn.want /\ Sup!SwitchedOn.running = w.running
        /\ Sup!SwitchedOn.reg = w.reg /\ Sup!SwitchedOn.gen = w.gen /\ Sup!SwitchedOn.cancelled = w.cancelled
        /\ Sup!SwitchedOn.st = w.st /\ Sup!SwitchedOn.issue = w.issue
        /\ w.want => Sup!SwitchedOn = w
    <2>1. CASE w.want
      BY <1>2, <2>1 DEF Sup!SwitchedOn
    <2>2. CASE ~ w.want
      <3>1. Sup!SwitchedOn = [f EXCEPT !.want = TRUE]
        BY <2>2 DEF Sup!SwitchedOn
      <3> HIDE DEF f
      <3> QED
        BY <1>3, <2>2, <3>1 DEF SupW
    <2> QED
      BY <2>1, <2>2
  <1> HIDE DEF f
  <1>8. SupDevice' /\ SupRestores /\ SupRoute /\ SupWorker /\ SupGateHeld
    BY <1>1 DEF SupInv, SupDevice
  <1>9. supCtl' \in [op : {"none", "switch", "network", "release"}, on : BOOLEAN, net : Nets, gen : Sup!Gens]
    BY <1>1, SupNoCtl
  <1>10. CASE UNCHANGED <<w, wk, moved, why, restores>>
    <2>1. SupTypes' /\ SupGateHeld'
      BY <1>1, <1>2, <1>8, <1>9, <1>10 DEF SupTypes, SupGateHeld
    <2> QED
      BY <1>1, <1>8, <1>10, <2>1, SupGoesOn DEF SupRestores, SupRoute
  <1>11. CASE /\ restores' = IF supCtl.on /\ w.want THEN restores ELSE 0
              /\ supCtl.on /\ w.running /\ w' = Sup!SwitchedOn /\ UNCHANGED <<why, wk, moved>>
    <2>1. SupTypes' /\ SupGateHeld'
      BY <1>1, <1>2, <1>7, <1>8, <1>9, <1>11 DEF SupTypes, SupGateHeld
    <2>2. restores' <= 1 /\ (restores' = 1 => w'.used)
      BY <1>7, <1>8, <1>11 DEF SupRestores
    <2> QED
      BY <1>1, <1>7, <1>8, <1>11, <2>1, <2>2, SupGoesOn DEF SupRoute
  <1>12. CASE /\ restores' = IF supCtl.on /\ w.want THEN restores ELSE 0
              /\ supCtl.on /\ ~ w.running /\ w' = [Sup!SwitchedOn EXCEPT !.st = "waiting", !.issue = "none"]
              /\ why' = "none" /\ UNCHANGED <<wk, moved>>
    <2>1. /\ w' \in SupW /\ w'.want = Sup!SwitchedOn.want /\ w'.running = w.running /\ w'.reg = w.reg /\ w'.gen = w.gen
          /\ w'.used = Sup!SwitchedOn.used
      BY <1>7, <1>12 DEF SupW, SupIssues
    <2>2. SupTypes' /\ SupGateHeld'
      BY <1>1, <1>2, <1>8, <1>9, <1>12, <2>1 DEF SupTypes, SupGateHeld
    <2>3. restores' <= 1 /\ (restores' = 1 => w'.used)
      BY <1>7, <1>8, <1>12, <2>1 DEF SupRestores
    <2> QED
      BY <1>1, <1>7, <1>8, <1>12, <2>1, <2>2, <2>3, SupGoesOn DEF SupRoute
  <1>13. CASE /\ restores' = IF supCtl.on /\ w.want THEN restores ELSE 0
              /\ ~ supCtl.on /\ w.running /\ w' = [off EXCEPT !.st = "stopping", !.cancelled = TRUE]
              /\ why' = "none" /\ UNCHANGED <<wk, moved>>
    <2>1. /\ w' \in SupW /\ w'.running = w.running /\ w'.reg = FALSE /\ w'.gen = w.gen /\ w'.cancelled = TRUE
      BY <1>6, <1>13 DEF SupW
    <2>2. SupTypes' /\ SupGateHeld'
      BY <1>1, <1>2, <1>8, <1>9, <1>13, <2>1 DEF SupTypes, SupGateHeld
    <2> QED
      BY <1>1, <1>8, <1>13, <2>1, <2>2, SupGoesOn DEF SupRoute
  <1>14. CASE /\ restores' = IF supCtl.on /\ w.want THEN restores ELSE 0
              /\ ~ supCtl.on /\ ~ w.running /\ why' = "none" /\ moved' = FALSE /\ wk' = Sup!Restorer(w')
              /\ w' = [off EXCEPT !.st = "stopping", !.issue = "none", !.running = TRUE,
                                  !.cancelled = FALSE, !.gen = supCtl.gen]
    <2>1. /\ w' \in SupW /\ w'.running = TRUE /\ w'.reg = FALSE
      BY <1>2, <1>6, <1>14 DEF SupW, SupIssues
    <2>2. wk' \in SupWk /\ wk'.pc = "gate" /\ wk'.kind = "restorer" /\ wk'.gen = w'.gen
      BY <1>14, <2>1, SupRestorer
    <2>3. SupTypes' /\ restores' = 0
      BY <1>1, <1>2, <1>8, <1>9, <1>14, <2>1, <2>2 DEF SupTypes
    <2> QED
      BY <1>1, <1>14, <2>1, <2>2, <2>3, SupLaunched
  <1> QED
    BY <1>1, <1>10, <1>11, <1>12, <1>13, <1>14

\* The network of the module changes, or may have.
LEMMA SupCommits ==
    ASSUME SupInv, Sup!WifiConstants, Sup!CommitNetwork
    PROVE  SupInv' /\ Sup!UnconfirmedHeld
  <1>1. /\ UNCHANGED <<supDev, supUsed, radio, supSeen, supValue, supHold, supGate, supWork, links, wk, restores, supBudget>>
        /\ \/ supCtl' = Sup!NoCtl /\ UNCHANGED <<supReady, net, w, moved, why>>
           \/ /\ supReady' = FALSE /\ supCtl' = Sup!NoCtl /\ UNCHANGED <<net, moved, why>>
              /\ w' = IF w.running THEN [w EXCEPT !.reg = FALSE, !.cancelled = TRUE] ELSE w
           \/ /\ net' = supCtl.net /\ supCtl' = [Sup!NoCtl EXCEPT !.op = "release"] /\ w' = Sup!applyNetworkLocked(w)
              /\ moved' = TRUE /\ why' = (IF w.running THEN why ELSE "none") /\ UNCHANGED supReady
    BY DEF Sup!CommitNetwork, Sup!device
  <1>2. SupTypes /\ w \in SupW /\ w.running \in BOOLEAN /\ supCtl.net \in Nets
    BY DEF SupInv, SupTypes, SupW
  <1>3. supCtl' \in [op : {"none", "switch", "network", "release"}, on : BOOLEAN, net : Nets, gen : Sup!Gens]
    BY <1>1, SupNoCtl
  <1>4. SupDevice' /\ SupRestores /\ SupRoute /\ SupWorker /\ SupGateHeld'
    BY <1>1 DEF SupInv, SupDevice, SupGateHeld
  <1>5. CASE UNCHANGED <<supReady, net, w, moved, why>>
    <2>1. SupTypes'
      BY <1>1, <1>2, <1>3, <1>5 DEF SupTypes
    <2> QED
      BY <1>1, <1>4, <1>5, <2>1, SupGoesOn DEF SupRoute, SupRestores
  <1>6. CASE /\ supReady' = FALSE /\ UNCHANGED <<net, moved, why>>
             /\ w' = IF w.running THEN [w EXCEPT !.reg = FALSE, !.cancelled = TRUE] ELSE w
    <2>1. /\ w' \in SupW /\ w'.want = w.want /\ w'.running = w.running /\ w'.gen = w.gen /\ w'.used = w.used
          /\ w'.reg => w.reg /\ ~ w.running
          /\ w.running => w'.cancelled
          /\ w'.st = w.st /\ w'.issue = w.issue
      BY <1>2, <1>6 DEF SupW
    <2>2. SupTypes'
      BY <1>1, <1>2, <1>3, <1>6, <2>1 DEF SupTypes
    <2>3. ~ w'.reg
      BY <1>4, <2>1 DEF SupRoute
    <2>4. restores' <= 1 /\ (restores' = 1 => w'.used)
      BY <1>1, <1>4, <2>1 DEF SupRestores
    <2> QED
      BY <1>1, <1>4, <1>6, <2>1, <2>2, <2>3, <2>4, SupGoesOn
  <1>7. CASE /\ net' = supCtl.net /\ w' = Sup!applyNetworkLocked(w)
             /\ moved' = TRUE /\ why' = (IF w.running THEN why ELSE "none") /\ UNCHANGED supReady
    <2> DEFINE a == [w EXCEPT !.reg = FALSE, !.rebinding = TRUE, !.st = "stopping", !.cancelled = TRUE]
               b == [w EXCEPT !.reg = FALSE, !.st = "waiting", !.issue = IF supHold THEN @ ELSE "none"]
    <2>1. w' = IF ~ w.want THEN w ELSE IF w.running THEN a ELSE b
      BY <1>7 DEF Sup!applyNetworkLocked
    <2>2. a \in SupW /\ a.want = w.want /\ a.running = w.running /\ a.gen = w.gen /\ a.used = w.used /\ ~ a.reg /\ a.cancelled = TRUE
      BY <1>2 DEF SupW
    <2>3. b \in SupW /\ b.want = w.want /\ b.running = w.running /\ b.gen = w.gen /\ b.used = w.used /\ ~ b.reg
          /\ b.cancelled = w.cancelled
      BY <1>2 DEF SupW, SupIssues
    <2> HIDE DEF a, b
    <2>4. /\ w' \in SupW /\ w'.want = w.want /\ w'.running = w.running /\ w'.gen = w.gen /\ w'.used = w.used
          /\ w.want => ~ w'.reg
          /\ w.want /\ w.running => w'.cancelled
          /\ ~ w.want => w' = w
      BY <1>2, <2>1, <2>2, <2>3
    <2>5. why' \in {"none", "rejected", "unconfirmed"}
      BY <1>2, <1>7 DEF SupTypes
    <2>6. SupTypes'
      BY <1>1, <1>2, <1>3, <1>7, <2>4, <2>5 DEF SupTypes
    <2>7. SupWorker' /\ SupRoute'
      BY <1>1, <1>4, <2>4 DEF SupWorker, SupRoute
    <2>8. SupRestores' /\ SupWhy'
      BY <1>1, <1>4, <1>7, <2>4 DEF SupRestores, SupWhy
    <2>9. Sup!UnconfirmedHeld
      BY <1>1 DEF Sup!UnconfirmedHeld
    <2> QED
      BY <1>4, <2>6, <2>7, <2>8, <2>9 DEF SupInv
  <1> QED
    BY <1>1, <1>5, <1>6, <1>7

\* The links of the networks change, or are looked at again.
LEMMA SupReroutes ==
    ASSUME SupInv, Sup!WifiConstants, Sup!watchNetworks
    PROVE  SupInv' /\ Sup!UnconfirmedHeld
  <1> DEFINE busy == supCtl.op # "none"
  <1>1. PICK n \in Nets, fp \in Sup!Fps :
            LET l == [links EXCEPT ![n] = fp]
                x == Sup!Rerouted(w, l)
                y == IF x.want THEN Sup!startWiFiLocked(x, supValue, net, l, busy) ELSE x
            IN /\ links' = l /\ w' = y
               /\ IF Sup!Began(y) THEN wk' = [Sup!NoWorker EXCEPT !.pc = "gate", !.gen = y.gen, !.net = net, !.fp = l[net]]
                  ELSE UNCHANGED wk
               /\ moved' = IF Sup!Began(y) THEN FALSE ELSE moved \/ l[net] # links[net]
               /\ why' = IF Sup!Began(y) /\ Sup!NewReason(supValue) THEN "none" ELSE why
               /\ supBudget' = supBudget \/ (supBudget > 0 /\ supBudget' = supBudget - 1)
    BY DEF Sup!watchNetworks, Sup!Calm, Sup!Event
  <1> DEFINE l == [links EXCEPT ![n] = fp]
             x == Sup!Rerouted(w, l)
             y == IF x.want THEN Sup!startWiFiLocked(x, supValue, net, l, busy) ELSE x
             k == [Sup!NoWorker EXCEPT !.pc = "gate", !.gen = y.gen, !.net = net, !.fp = l[net]]
  <1>2. /\ UNCHANGED <<supDev, supUsed, radio, supSeen, supValue, supHold, supGate, supWork, supReady, supCtl, net, restores>>
        /\ links' = l /\ w' = y
        /\ wk' = (IF ~ w.running /\ y.running THEN k ELSE wk)
        /\ moved' = (IF ~ w.running /\ y.running THEN FALSE ELSE moved \/ l[net] # links[net])
        /\ why' = (IF (~ w.running /\ y.running) /\ (w.gen # 0 /\ w.gen # supValue.gen) THEN "none" ELSE why)
        /\ supBudget' = supBudget \/ (supBudget > 0 /\ supBudget' = supBudget - 1)
    BY <1>1 DEF Sup!watchNetworks, Sup!Began, Sup!NewReason, Sup!device
  <1>3. SupTypes /\ w \in SupW /\ w.running \in BOOLEAN /\ w.want \in BOOLEAN /\ net \in Nets /\ busy \in BOOLEAN
        /\ links \in [Nets -> Sup!Fps] /\ supValue \in [gen : Sup!Gens, ok : BOOLEAN]
    BY DEF SupInv, SupTypes, SupW
  <1>4. l \in [Nets -> Sup!Fps] /\ l[net] \in Sup!Fps
    BY <1>3
  <1> HIDE DEF l, busy
  <1>5. /\ x \in SupW /\ x.want = w.want /\ x.running = w.running /\ x.gen = w.gen /\ x.used = w.used
        /\ ~ w.want \/ links[net] = l[net] => x = w
        /\ w.want /\ links[net] # l[net] /\ w.running => x.cancelled /\ ~ x.reg
        /\ ~ w.running => x.cancelled = w.cancelled
        /\ x.reg => w.reg
    <2> DEFINE a == [w EXCEPT !.reg = FALSE, !.rebinding = TRUE, !.cancelled = TRUE]
               b == [w EXCEPT !.st = "waiting", !.issue = "none"]
    <2>1. x = IF ~ w.want \/ links[net] = l[net] THEN w ELSE IF w.running THEN a
              ELSE IF l[net] # 0 /\ w.issue = "network" THEN b ELSE w
      BY DEF Sup!Rerouted
    <2>2. a \in SupW /\ a.want = w.want /\ a.running = w.running /\ a.gen = w.gen /\ a.used = w.used /\ ~ a.reg /\ a.cancelled = TRUE
      BY <1>3 DEF SupW
    <2>3. b \in SupW /\ b.want = w.want /\ b.running = w.running /\ b.gen = w.gen /\ b.used = w.used /\ b.reg = w.reg
          /\ b.cancelled = w.cancelled
      BY <1>3 DEF SupW, SupIssues
    <2> HIDE DEF a, b, x
    <2> QED
      BY <1>3, <2>1, <2>2, <2>3
  <1> HIDE DEF x
  <1>6. /\ y \in SupW /\ y.running \in BOOLEAN /\ y.want = x.want /\ y.used = x.used
        /\ y.reg => x.reg
        /\ x.running => y = x
        /\ y.running /\ ~ x.running => ~ y.cancelled /\ y.want /\ y.gen = supValue.gen /\ ~ y.reg
        /\ y.running = x.running => y.gen = x.gen /\ y.cancelled = x.cancelled
        /\ ~ y.running => y = x \/ (y.st = "failed" /\ y.issue = "network" /\ l[net] = 0)
        /\ x.st = "failed" /\ (x.issue = "unconfirmed" \/ (x.issue = "network" /\ l[net] = 0))
                  /\ ~ (x.gen # 0 /\ x.gen # supValue.gen) =>
              /\ y.running = x.running /\ y.st = "failed"
              /\ y.issue = "unconfirmed" \/ (y.issue = "network" /\ l[net] = 0)
    <2>1. y \in SupW => y.running \in BOOLEAN
      BY DEF SupW
    <2>2. CASE y = x
      <3> HIDE DEF y
      <3> QED
        BY <1>5, <2>1, <2>2
    <2>3. CASE y = Sup!startWiFiLocked(x, supValue, net, l, busy)
      <3>1. /\ x \in SupW /\ supValue \in [gen : Sup!Gens, ok : BOOLEAN] /\ net \in Nets /\ l \in [Nets -> Sup!Fps]
            /\ busy \in BOOLEAN
        BY <1>3, <1>4, <1>5
      <3> HIDE DEF y
      <3> QED
        BY <2>1, <2>3, <3>1, SupStart
    <2> QED
      BY <2>2, <2>3
  <1> HIDE DEF y
  <1>7. k \in SupWk /\ k.pc = "gate" /\ k.kind = "engine" /\ k.gen = y.gen /\ k.net = net /\ k.fp = l[net]
    <2>1. y.gen \in Sup!Gens
      BY <1>6 DEF SupW
    <2> QED
      BY <1>3, <1>4, <2>1, SupNoWorker DEF SupWk
  <1> HIDE DEF k
  <1>8. SupTypes'
    <2>1. why' \in {"none", "rejected", "unconfirmed"} /\ moved' \in BOOLEAN /\ wk' \in SupWk
      BY <1>2, <1>3, <1>7 DEF SupTypes
    <2>2. supBudget' \in 0 .. Outages
      <3>1. supBudget \in 0 .. Outages /\ Outages \in Nat
        BY <1>3 DEF SupTypes, Sup!WifiConstants
      <3> QED
        BY <1>2, <3>1
    <2> QED
      BY <1>2, <1>3, <1>4, <1>6, <2>1, <2>2 DEF SupTypes
  <1>9. SupWhy /\ SupRestores /\ SupWorker /\ SupRoute /\ SupGateHeld /\ SupDevice
    BY DEF SupInv
  <1>10. restores' <= 1 /\ (restores' = 1 => w'.used)
    BY <1>2, <1>5, <1>6, <1>9 DEF SupRestores
  <1>11. CASE ~ w.running /\ y.running
    <2>1. why' = "unconfirmed" => moved \/ links'[net] # links[net]
      <3>1. SUFFICES ASSUME why' = "unconfirmed", ~ moved, l[net] = links[net] PROVE FALSE
        BY <1>2
      <3>2. why = "unconfirmed" /\ x = w /\ ~ (w.gen # 0 /\ w.gen # supValue.gen)
        BY <1>2, <1>5, <1>11, <3>1
      <3>3. w.st = "failed" /\ (w.issue = "unconfirmed" \/ (w.issue = "network" /\ links[net] = 0))
        BY <1>9, <1>11, <3>1, <3>2 DEF SupWhy
      <3> QED
        BY <1>6, <1>11, <3>1, <3>2, <3>3
    <2>2. /\ w'.running /\ ~ w'.reg /\ wk'.pc = "gate" /\ wk'.gen = w'.gen /\ w'.want
          /\ wk'.net = net' /\ wk'.fp = links'[net']
      BY <1>2, <1>5, <1>6, <1>7, <1>11
    <2> QED
      BY <1>2, <1>8, <1>10, <1>11, <2>1, <2>2, SupLaunched
  <1>12. CASE ~ (~ w.running /\ y.running)
    <2>1. y.running = w.running /\ y.gen = w.gen /\ y.want = w.want /\ (y.reg => w.reg) /\ y.cancelled = x.cancelled
      BY <1>3, <1>5, <1>6, <1>12
    <2>2. wk' = wk /\ moved' = (moved \/ l[net] # links[net]) /\ why' = why
      BY <1>2, <1>12
    <2>3. w.want /\ links[net] # l[net] /\ w.running => y.cancelled /\ ~ y.reg
      BY <1>5, <1>6, <2>1
    <2>4. ~ w.want \/ links[net] = l[net] => y.cancelled = w.cancelled
      BY <1>5, <2>1
    <2>5. SupWorker' /\ SupGateHeld' /\ SupDevice'
      BY <1>2, <1>9, <2>1, <2>2 DEF SupWorker, SupGateHeld, SupDevice
    <2>6. SupRoute'
      BY <1>2, <1>9, <2>1, <2>2, <2>3, <2>4 DEF SupRoute, SupWorker
    <2>7. SupRestores'
      BY <1>10 DEF SupRestores
    <2>8. SupWhy'
      <3>1. SUFFICES ASSUME why' = "unconfirmed", ~ moved', ~ w'.running
                     PROVE  w'.st = "failed" /\ (w'.issue = "unconfirmed" \/ (w'.issue = "network" /\ links'[net'] = 0))
        BY DEF SupWhy
      <3>2. why = "unconfirmed" /\ ~ moved /\ l[net] = links[net] /\ x = w /\ ~ w.running
        BY <1>2, <1>5, <2>1, <2>2, <3>1
      <3>3. w.st = "failed" /\ (w.issue = "unconfirmed" \/ (w.issue = "network" /\ links[net] = 0))
        BY <1>9, <3>2 DEF SupWhy
      <3>4. CASE y = w
        BY <1>2, <3>2, <3>3, <3>4
      <3>5. CASE y # w
        BY <1>2, <1>6, <2>1, <3>2, <3>5
      <3> QED
        BY <3>4, <3>5
    <2>9. Sup!UnconfirmedHeld
      BY <2>2 DEF Sup!UnconfirmedHeld
    <2> QED
      BY <1>8, <2>5, <2>6, <2>7, <2>8, <2>9 DEF SupInv
  <1> QED
    BY <1>11, <1>12

SupPcs == {"none", "gate", "start", "setup", "up", "pause", "clean", "done"}
SupCodes == SupIssues \cup {"canceled"}

\* A step of the worker changes where it is and what it brings, and keeps the rest.
LEMMA SupTo ==
    ASSUME SupTypes, NEW pc \in SupPcs, NEW code \in SupCodes, wk' = [wk EXCEPT !.pc = pc, !.code = code]
    PROVE  /\ wk' \in SupWk /\ wk'.pc = pc /\ wk'.code = code /\ wk'.kind = wk.kind /\ wk'.gen = wk.gen
           /\ wk'.net = wk.net /\ wk'.fp = wk.fp
  BY DEF SupTypes, SupWk, SupPcs, SupCodes, SupIssues

\* The steps of the worker that the module's state does not hear of.
LEMMA SupWorks ==
    ASSUME SupInv, Sup!WifiConstants,
           Sup!GateTaken \/ Sup!GivenUp \/ Sup!Dial \/ Sup!Begin \/ Sup!Dies \/ Sup!Tell
    PROVE  SupInv' /\ Sup!UnconfirmedHeld
  <1>1. /\ UNCHANGED <<supDev, supUsed, supSeen, supValue, supHold, supWork, supReady, supCtl, net, links, w, moved,
                       why, restores>>
        /\ supBudget' = supBudget \/ (supBudget > 0 /\ supBudget' = supBudget - 1)
        /\ radio' \in {radio, "off", "cellular"}
    BY DEF Sup!GateTaken, Sup!GivenUp, Sup!Dial, Sup!Begin, Sup!Dies, Sup!Tell, Sup!WorkerStep, Sup!Calm, Sup!Event,
           Sup!device
  <1>2. SupTypes /\ wk \in SupWk /\ SupGateHeld /\ SupWorker /\ SupRoute
    BY DEF SupInv, SupTypes
  <1>3. supBudget' \in 0 .. Outages
    <2>1. supBudget \in 0 .. Outages /\ Outages \in Nat
      BY <1>2 DEF SupTypes, Sup!WifiConstants
    <2> QED
      BY <1>1, <2>1
  <1>4. /\ wk' \in SupWk /\ wk'.kind = wk.kind /\ wk'.gen = wk.gen /\ wk'.net = wk.net /\ wk'.fp = wk.fp
        /\ \/ wk.pc = "gate" /\ wk'.pc = "start" /\ supGate' = "wifi"
           \/ wk.pc # "none" /\ wk'.pc = "done" /\ supGate' = supGate /\ (wk.pc = "gate" => supGate # "wifi")
           \/ wk.pc = "start" /\ wk'.pc = "setup" /\ supGate' = supGate /\ wk.kind = "engine"
           \/ wk'.pc = wk.pc /\ supGate' = supGate
    <2>1. CASE Sup!GateTaken
      <3>1. wk' = [wk EXCEPT !.pc = "start", !.code = "none"] /\ wk.pc = "gate" /\ supGate' = "wifi"
        BY <2>1 DEF Sup!GateTaken, Sup!WorkerStep, Sup!To
      <3> QED
        BY <1>2, <3>1 DEF SupWk, SupIssues
    <2>2. CASE Sup!Tell
      <3>1. /\ wk' = [wk EXCEPT !.told = "cellular"] \/ wk' = [wk EXCEPT !.told = "stop"]
            /\ supGate' = supGate
        BY <2>2 DEF Sup!Tell
      <3> QED
        BY <1>2, <3>1 DEF SupWk
    <2>3. CASE Sup!GivenUp \/ Sup!Dial \/ Sup!Dies
      <3>1. /\ \E code \in SupCodes : wk' = [wk EXCEPT !.pc = "done", !.code = code]
            /\ supGate' = supGate /\ wk.pc # "none"
        BY <2>3 DEF Sup!GivenUp, Sup!Dial, Sup!Dies, Sup!WorkerStep, Sup!To, Sup!Working, SupCodes, SupIssues
      <3> QED
        BY <1>2, <3>1 DEF SupWk, SupCodes, SupGateHeld
    <2>4. CASE Sup!Begin
      <3>1. /\ wk.pc = "start" /\ supGate' = supGate
            /\ \/ wk.kind = "engine" /\ wk' = [wk EXCEPT !.pc = "setup", !.code = "none"]
               \/ \E code \in SupCodes : wk' = [wk EXCEPT !.pc = "done", !.code = code]
        BY <2>4 DEF Sup!Begin, Sup!To, SupCodes, SupIssues
      <3> QED
        BY <1>2, <3>1 DEF SupWk, SupCodes, SupIssues
    <2> QED
      BY <2>1, <2>2, <2>3, <2>4
  <1>5. supGate' \in {"free", "wifi", "other"} /\ radio' \in {"cellular", "off"}
    BY <1>1, <1>2, <1>4 DEF SupTypes
  <1>6. SupTypes'
    BY <1>1, <1>2, <1>3, <1>4, <1>5 DEF SupTypes
  <1>7. SupDevice'
    BY <1>1 DEF SupInv, SupDevice
  <1>8. SupGateHeld'
    BY <1>2, <1>4 DEF SupGateHeld
  <1>9. wk'.pc = "none" <=> wk.pc = "none"
    BY <1>4
  <1>10. w'.reg => w'.want /\ w.running /\ wk.kind = "engine" /\ wk'.pc \in {"up", "done"} /\ (w.reg \/ ~ w.cancelled)
    BY <1>1, <1>2, <1>4 DEF SupRoute
  <1>11. restores' <= 1 /\ (restores' = 1 => w'.used)
    BY <1>1 DEF SupInv, SupRestores
  <1>12. /\ wk'.pc = "gate" => wk.pc = "gate"
         /\ wk.kind = "restorer" => wk'.pc = wk.pc \/ wk'.pc \in {"start", "done"}
    BY <1>4
  <1>13. /\ wk'.kind = wk.kind /\ wk'.gen = wk.gen /\ wk'.net = wk.net /\ wk'.fp = wk.fp
         /\ UNCHANGED <<net, links, w, moved, why>>
    BY <1>1, <1>4
  <1> QED
    BY <1>6, <1>7, <1>8, <1>9, <1>10, <1>11, <1>12, <1>13, SupGoesOn

\* What a worker that goes on reports to the module's state.
LEMMA SupReported ==
    ASSUME SupInv, Sup!WifiConstants, wk.pc \in {"setup", "up", "pause", "clean"},
           NEW pc \in {"setup", "up", "pause", "clean", "done"}, NEW code \in SupCodes,
           wk' = [wk EXCEPT !.pc = pc, !.code = code],
           UNCHANGED <<supDev, supUsed, supSeen, supValue, supHold, supGate, supWork, supReady, supCtl, net, links,
                       moved, why>>,
           radio' \in {radio, "off", "cellular"},
           supBudget' = supBudget \/ (supBudget > 0 /\ supBudget' = supBudget - 1),
           w' \in SupW, w'.running = w.running, w'.gen = w.gen, w'.want = w.want, w.cancelled => w'.cancelled,
           w'.reg => pc = "up" /\ w.want /\ (w.reg \/ ~ w.cancelled),
           restores' \in Nat, restores' <= 1, restores' = 1 => w'.used
    PROVE  SupInv' /\ Sup!UnconfirmedHeld
  <1>1. SupTypes /\ wk \in SupWk /\ SupGateHeld /\ SupWorker
    BY DEF SupInv, SupTypes
  <1>2. supBudget' \in 0 .. Outages
    <2>1. supBudget \in 0 .. Outages /\ Outages \in Nat
      BY <1>1 DEF SupTypes, Sup!WifiConstants
    <2> QED
      BY <2>1
  <1>3. /\ wk' \in SupWk /\ wk'.pc = pc /\ wk'.kind = wk.kind /\ wk'.gen = wk.gen
        /\ wk'.net = wk.net /\ wk'.fp = wk.fp
    BY <1>1, SupTo DEF SupPcs
  <1>4. radio' \in {"cellular", "off"}
    BY <1>1 DEF SupTypes
  <1>5. SupTypes'
    BY <1>1, <1>2, <1>3, <1>4 DEF SupTypes
  <1>6. SupDevice' /\ SupGateHeld'
    BY <1>1, <1>3 DEF SupInv, SupDevice, SupGateHeld
  <1>7. wk.kind = "engine" /\ w.running
    BY <1>1 DEF SupWorker, SupWk
  <1> QED
    BY <1>3, <1>5, <1>6, <1>7, SupGoesOn

\* The worker connects, loses its sessions, pauses, is told to stop and cleans.
LEMMA SupReports ==
    ASSUME SupInv, Sup!WifiConstants,
           Sup!Connected \/ Sup!Breaks \/ Sup!RetryFailed \/ Sup!LeaseLost \/ Sup!Stop \/ Sup!Clean
    PROVE  SupInv' /\ Sup!UnconfirmedHeld
  <1> DEFINE t == Sup!setRegistered(w, TRUE)
             u == Sup!setRegistered(w, FALSE)
             up == [t EXCEPT !.st = "connected", !.issue = "none"]
             cut == [u EXCEPT !.st = "connecting", !.allowed = FALSE]
  <1>1. SupTypes /\ w \in SupW /\ SupRestores /\ SupRoute /\ SupWorker /\ restores \in Nat
    BY DEF SupInv, SupTypes
  <1>2. t \in SupW /\ t.running = w.running /\ t.gen = w.gen /\ t.want = w.want /\ t.cancelled = w.cancelled
    <2>1. 0 \in 0 .. Limit
      BY DEF Sup!WifiConstants
    <2>2. t = [w EXCEPT !.reg = TRUE, !.fails = 0, !.allowed = FALSE, !.used = FALSE, !.stopping = FALSE]
      BY DEF Sup!setRegistered
    <2>3. t \in SupW
      BY <1>1, <2>1, <2>2 DEF SupW
    <2> QED
      BY <1>1, <2>2, <2>3 DEF SupW
  <1>3. u \in SupW /\ u.running = w.running /\ u.gen = w.gen /\ u.want = w.want /\ u.cancelled = w.cancelled
        /\ u.reg = FALSE /\ u.used = w.used
    BY <1>1, SupUnregistered
  <1> HIDE DEF t, u
  <1>4. up \in SupW /\ up.running = w.running /\ up.gen = w.gen /\ up.want = w.want /\ up.cancelled = w.cancelled
    BY <1>2 DEF SupW, SupIssues
  <1>5. cut \in SupW /\ cut.running = w.running /\ cut.gen = w.gen /\ cut.want = w.want /\ cut.cancelled = w.cancelled
        /\ cut.reg = FALSE /\ cut.used = w.used
    BY <1>3 DEF SupW
  <1>6. Sup!Reconnecting = cut
    BY DEF Sup!Reconnecting, u
  <1> HIDE DEF up, cut
  <1>7. CASE Sup!Connected
    <2>1. /\ wk.pc = "setup" /\ wk' = [wk EXCEPT !.pc = "up", !.code = "none"]
          /\ UNCHANGED <<supDev, supUsed, supSeen, supValue, supHold, supGate, supWork, supReady, supCtl, net, links,
                         moved, why, radio, supBudget>>
          /\ \/ w.want /\ ~ w.cancelled /\ w' = up /\ restores' = 0
             \/ w' = w /\ restores' = restores
      BY <1>7 DEF Sup!Connected, Sup!WorkerStep, Sup!To, Sup!device, Sup!Listens, up, t
    <2>2. w.reg => wk.pc # "setup"
      BY <1>1 DEF SupRoute
    <2>3. /\ w' \in SupW /\ w'.running = w.running /\ w'.gen = w.gen /\ w'.want = w.want /\ w'.cancelled = w.cancelled
          /\ w'.reg => w.want /\ ~ w.cancelled
          /\ restores' \in Nat /\ restores' <= 1 /\ (restores' = 1 => w'.used)
      BY <1>1, <1>4, <2>1, <2>2 DEF SupRestores
    <2>4. "none" \in SupCodes
      BY DEF SupCodes, SupIssues
    <2> QED
      BY <2>1, <2>3, <2>4, SupReported
  <1>8. CASE Sup!Breaks \/ Sup!LeaseLost \/ Sup!Stop
    <2>1. /\ wk.pc \in {"setup", "up", "pause", "clean"}
          /\ \E pc \in {"pause", "clean"}, code \in SupCodes : wk' = [wk EXCEPT !.pc = pc, !.code = code]
          /\ UNCHANGED <<supDev, supUsed, supSeen, supValue, supHold, supGate, supWork, supReady, supCtl, net, links,
                         moved, why, radio, restores>>
          /\ supBudget' = supBudget \/ (supBudget > 0 /\ supBudget' = supBudget - 1)
          /\ w' = cut
      <3>1. CASE Sup!Breaks
        <4>1. PICK n \in {<<"pause", "none">>, <<"clean", "rejected">>, <<"clean", "transport">>} :
                  wk' = [wk EXCEPT !.pc = n[1], !.code = n[2]]
          BY <3>1 DEF Sup!Breaks, Sup!To
        <4>2. \/ wk' = [wk EXCEPT !.pc = "pause", !.code = "none"]
              \/ wk' = [wk EXCEPT !.pc = "clean", !.code = "rejected"]
              \/ wk' = [wk EXCEPT !.pc = "clean", !.code = "transport"]
          <5>1. \/ n[1] = "pause" /\ n[2] = "none"
                \/ n[1] = "clean" /\ n[2] = "rejected"
                \/ n[1] = "clean" /\ n[2] = "transport"
            <6>1. n = <<"pause", "none">> \/ n = <<"clean", "rejected">> \/ n = <<"clean", "transport">>
              OBVIOUS
            <6> QED
              BY <6>1
          <5>2. \A a, b : n[1] = a /\ n[2] = b => wk' = [wk EXCEPT !.pc = a, !.code = b]
            BY <4>1
          <5> QED
            BY <5>1, <5>2
        <4>3. "none" \in SupCodes /\ "rejected" \in SupCodes /\ "transport" \in SupCodes
          BY DEF SupCodes, SupIssues
        <4>4. \E pc \in {"pause", "clean"}, code \in SupCodes : wk' = [wk EXCEPT !.pc = pc, !.code = code]
          BY <4>2, <4>3
        <4> QED
          BY <1>6, <3>1, <4>4 DEF Sup!Breaks, Sup!WorkerStep, Sup!device, Sup!Event
      <3>2. CASE Sup!LeaseLost
        BY <1>6, <3>2 DEF Sup!LeaseLost, Sup!Working, Sup!WorkerStep, Sup!To, Sup!device, Sup!Event, SupCodes, SupIssues
      <3>3. CASE Sup!Stop
        BY <1>6, <3>3 DEF Sup!Stop, Sup!Working, Sup!WorkerStep, Sup!To, Sup!device, SupCodes, SupIssues
      <3> QED
        BY <1>8, <3>1, <3>2, <3>3
    <2>2. restores' \in Nat /\ restores' <= 1 /\ (restores' = 1 => w'.used)
      BY <1>1, <1>5, <2>1 DEF SupRestores
    <2>3. PICK pc \in {"pause", "clean"}, code \in SupCodes : wk' = [wk EXCEPT !.pc = pc, !.code = code]
      BY <2>1
    <2> QED
      BY <1>5, <2>1, <2>2, <2>3, SupReported
  <1>9. CASE Sup!Clean
    <2> DEFINE a == [u EXCEPT !.refresh = TRUE]
               b == [u EXCEPT !.allowed = FALSE]
    <2>1. /\ wk.pc = "clean"
          /\ wk' = [wk EXCEPT !.pc = "done", !.code = wk.code] \/ wk' = [wk EXCEPT !.pc = "done", !.code = "unconfirmed"]
          /\ UNCHANGED <<supDev, supUsed, supSeen, supValue, supHold, supGate, supWork, supReady, supCtl, net, links,
                         moved, why, restores>>
          /\ radio' \in {radio, "off", "cellular"}
          /\ supBudget' = supBudget \/ (supBudget > 0 /\ supBudget' = supBudget - 1)
          /\ w' = a \/ w' = b
      BY <1>9 DEF Sup!Clean, Sup!To, Sup!Calm, Sup!Event, u
    <2>2. a \in SupW /\ a.running = w.running /\ a.gen = w.gen /\ a.want = w.want /\ a.cancelled = w.cancelled
          /\ a.reg = FALSE /\ a.used = w.used
      BY <1>3 DEF SupW
    <2>3. b \in SupW /\ b.running = w.running /\ b.gen = w.gen /\ b.want = w.want /\ b.cancelled = w.cancelled
          /\ b.reg = FALSE /\ b.used = w.used
      BY <1>3 DEF SupW
    <2> HIDE DEF a, b
    <2>4. /\ w' \in SupW /\ w'.running = w.running /\ w'.gen = w.gen /\ w'.want = w.want /\ w'.cancelled = w.cancelled
          /\ w'.reg = FALSE /\ w'.used = w.used
      BY <2>1, <2>2, <2>3
    <2>5. restores' \in Nat /\ restores' <= 1 /\ (restores' = 1 => w'.used)
      BY <1>1, <2>1, <2>4 DEF SupRestores
    <2>6. wk.code \in SupCodes /\ "unconfirmed" \in SupCodes
      BY <1>1 DEF SupTypes, SupWk, SupCodes, SupIssues
    <2>7. PICK code \in SupCodes : wk' = [wk EXCEPT !.pc = "done", !.code = code]
      BY <2>1, <2>6
    <2> QED
      BY <2>1, <2>4, <2>5, <2>7, SupReported
  <1>10. CASE Sup!RetryFailed
    <2> DEFINE x == Sup!wifiAttemptFailedLocked(w)
    <2>1. /\ wk.pc = "pause" /\ wk' = [wk EXCEPT !.pc = "setup", !.code = "none"]
          /\ UNCHANGED <<supDev, supUsed, supSeen, supValue, supHold, supGate, supWork, supReady, supCtl, net, links,
                         moved, why, radio, supBudget>>
          /\ \/ w' = Sup!recoverWiFiLocked(x) /\ restores' = (IF Sup!RecoveryDue(x) THEN restores + 1 ELSE restores)
             \/ w' = w /\ restores' = restores
      BY <1>10 DEF Sup!RetryFailed, Sup!Restored, Sup!WorkerStep, Sup!To, Sup!device
    <2>2. x \in SupW /\ x.running = w.running /\ x.gen = w.gen /\ x.want = w.want /\ x.cancelled = w.cancelled
          /\ x.reg = w.reg /\ x.used = w.used
      <3>1. w.fails \in 0 .. Limit /\ Limit \in Nat
        BY <1>1 DEF SupW, Sup!WifiConstants
      <3>2. (IF w.fails < Limit THEN w.fails + 1 ELSE w.fails) \in 0 .. Limit
        BY <3>1
      <3> QED
        BY <1>1, <3>2 DEF Sup!wifiAttemptFailedLocked, SupW
    <2> HIDE DEF x
    <2>3. ~ w.reg /\ w.running /\ w.running \in BOOLEAN /\ w.cancelled \in BOOLEAN
      BY <1>1, <2>1 DEF SupRoute, SupWorker, SupW
    <2>4. CASE w' = w /\ restores' = restores
      <3>1. restores' \in Nat /\ restores' <= 1 /\ (restores' = 1 => w'.used)
        BY <1>1, <2>4 DEF SupRestores
      <3>2. "none" \in SupCodes
        BY DEF SupCodes, SupIssues
      <3> QED
        BY <1>1, <2>1, <2>3, <2>4, <3>1, <3>2, SupReported
    <2>5. CASE w' = Sup!recoverWiFiLocked(x) /\ restores' = (IF Sup!RecoveryDue(x) THEN restores + 1 ELSE restores)
      <3>1. /\ w' \in SupW /\ w'.want = x.want /\ w'.reg = x.reg
            /\ ~ Sup!RecoveryDue(x) => w' = x
            /\ Sup!RecoveryDue(x) => ~ x.used /\ w'.used /\ w'.running /\ w'.cancelled = x.running
                                     /\ (x.running => w'.gen = x.gen)
        BY <1>1, <2>2, <2>5, SupRecover
      <3>2. w'.running = w.running /\ w'.gen = w.gen /\ w'.want = w.want /\ (w.cancelled => w'.cancelled) /\ ~ w'.reg
        <4>1. w'.running \in BOOLEAN
          BY <3>1 DEF SupW
        <4> QED
          BY <2>2, <2>3, <3>1, <4>1
      <3>3. restores' \in Nat /\ restores' <= 1 /\ (restores' = 1 => w'.used)
        BY <1>1, <2>2, <2>5, <3>1 DEF SupRestores
      <3>4. "none" \in SupCodes
        BY DEF SupCodes, SupIssues
      <3> QED
        BY <2>1, <3>1, <3>2, <3>3, <3>4, SupReported
    <2> QED
      BY <2>1, <2>4, <2>5
  <1> QED
    BY <1>7, <1>8, <1>9, <1>10

\* What becomes of the intent whose worker has ended.
LEMMA SupEnded ==
    ASSUME SupTypes, NEW x, x = Sup!Ended(wk.code)
    PROVE  /\ x \in SupW /\ x.running = FALSE /\ x.stopping = FALSE /\ x.cancelled = FALSE /\ x.reg = FALSE
           /\ x.want = w.want /\ x.used = w.used
           /\ wk.code = "unconfirmed" => x.st = "failed" /\ x.issue = "unconfirmed"
  <1> DEFINE u == Sup!setRegistered(w, FALSE)
             state == IF wk.code \in SupIssues \ {"none"} THEN "failed" ELSE "off"
             issue == IF wk.code \in SupIssues THEN wk.code ELSE "none"
  <1>1. u \in SupW /\ u.reg = FALSE /\ u.want = w.want /\ u.used = w.used
    BY SupUnregistered DEF SupTypes
  <1>2. x = [u EXCEPT !.running = FALSE, !.cancelled = FALSE, !.stopping = FALSE, !.st = state, !.issue = issue]
    BY DEF Sup!Ended, Sup!Issues, SupIssues
  <1>3. state \in {"failed", "off"} /\ issue \in SupIssues
        /\ (wk.code = "unconfirmed" => state = "failed" /\ issue = "unconfirmed")
    BY DEF SupIssues
  <1> HIDE DEF u, state, issue
  <1>4. x \in SupW
    BY <1>1, <1>2, <1>3 DEF SupW
  <1>5. /\ x.running = FALSE /\ x.stopping = FALSE /\ x.cancelled = FALSE /\ x.reg = u.reg /\ x.want = u.want
        /\ x.used = u.used /\ x.st = state /\ x.issue = issue
    BY <1>1, <1>2 DEF SupW
  <1> QED
    BY <1>1, <1>3, <1>4, <1>5

\* A failure that nobody confirmed is left as it is; else the intent stands still, a worker
\* starts over the chosen network, or the one restore of the outage begins.
LEMMA SupAfterRun ==
    ASSUME SupTypes, Sup!WifiConstants, NEW x \in SupW, x.running = FALSE, x.stopping = FALSE, x.cancelled = FALSE,
           x.reg = FALSE, NEW changed \in BOOLEAN, NEW a, a = Sup!AfterRun(x, changed)
    PROVE  /\ a \in SupW /\ a.want = x.want /\ ~ a.reg
           /\ a.running /\ a.stopping => ~ x.used /\ a.used
           /\ ~ (a.running /\ a.stopping) => a.used = x.used
           /\ a.running /\ ~ a.stopping => a.want /\ ~ a.cancelled
           /\ x.st = "failed" /\ x.issue = "unconfirmed" => ~ a.running /\ a.st = "failed" /\ a.issue = "unconfirmed"
  <1> DEFINE y == Sup!BackOff(x)
             again == y.want /\ (changed \/ y.rebinding) /\ y.issue # "unconfirmed"
             state == IF again THEN "waiting" ELSE y.st
             issue == IF again THEN "none" ELSE y.issue
             z == [y EXCEPT !.st = state, !.issue = issue, !.rebinding = FALSE]
             f == Sup!wifiAttemptFailedLocked(z)
             busy == supCtl.op # "none"
  <1>1. /\ y \in SupW /\ y.running = FALSE /\ y.stopping = FALSE /\ y.cancelled = FALSE /\ y.reg = FALSE
        /\ y.want = x.want /\ y.used = x.used /\ y.st = x.st /\ y.issue = x.issue
    <2>1. y = x \/ y = [x EXCEPT !.retry = "later"]
      BY DEF Sup!BackOff
    <2> HIDE DEF y
    <2> QED
      BY <2>1 DEF SupW
  <1>2. \/ a = Sup!resumeNetworkLocked(z, busy) /\ y.issue # "unconfirmed"
        \/ a = Sup!recoverWiFiLocked(f) /\ y.issue \in {"network", "transport"}
        \/ a = z
    BY DEF Sup!AfterRun, Sup!retryWiFiFailure
  <1> HIDE DEF y
  <1>3. state \in {"off", "waiting", "connecting", "connected", "stopping", "failed"} /\ issue \in SupIssues
        /\ (y.issue = "unconfirmed" => state = y.st /\ issue = y.issue)
    BY <1>1 DEF SupW, SupIssues
  <1> HIDE DEF again, state, issue
  <1>4. z \in SupW
    BY <1>1, <1>3 DEF SupW
  <1>5. /\ z.running = FALSE /\ z.stopping = FALSE /\ z.cancelled = FALSE /\ z.reg = FALSE
        /\ z.want = x.want /\ z.used = x.used /\ z.st = state /\ z.issue = issue
    BY <1>1 DEF SupW
  <1> HIDE DEF z
  <1>6. f \in SupW /\ f.running = FALSE /\ f.stopping = FALSE /\ f.cancelled = FALSE /\ f.reg = FALSE
        /\ f.want = x.want /\ f.used = x.used
    <2>1. z.fails \in 0 .. Limit /\ Limit \in Nat
      BY <1>4 DEF SupW, Sup!WifiConstants
    <2>2. (IF z.fails < Limit THEN z.fails + 1 ELSE z.fails) \in 0 .. Limit
      BY <2>1
    <2>3. f \in SupW
      BY <1>4, <2>2 DEF Sup!wifiAttemptFailedLocked, SupW
    <2> QED
      BY <1>4, <1>5, <2>3 DEF Sup!wifiAttemptFailedLocked, SupW
  <1> HIDE DEF f
  <1>7. CASE a = z
    BY <1>1, <1>3, <1>4, <1>5, <1>7
  <1>8. CASE a = Sup!recoverWiFiLocked(f) /\ y.issue \in {"network", "transport"}
    <2>1. /\ a \in SupW /\ a.want = f.want /\ a.reg = f.reg
          /\ ~ Sup!RecoveryDue(f) => a = f
          /\ Sup!RecoveryDue(f) => ~ f.used /\ a.used /\ a.stopping /\ a.running
      BY <1>6, <1>8, SupRecover
    <2>2. x.issue # "unconfirmed"
      BY <1>1, <1>8
    <2> QED
      BY <1>6, <2>1, <2>2
  <1>9. CASE a = Sup!resumeNetworkLocked(z, busy) /\ y.issue # "unconfirmed"
    <2>1. CASE a = z
      BY <1>1, <1>4, <1>5, <1>9, <2>1
    <2>2. CASE a = Sup!startWiFiLocked(z, supValue, net, links, busy)
      <3>1. busy \in BOOLEAN /\ supValue \in [gen : Sup!Gens, ok : BOOLEAN] /\ net \in Nets /\ links \in [Nets -> Sup!Fps]
        BY DEF SupTypes
      <3> HIDE DEF busy
      <3>2. /\ a \in SupW /\ a.want = z.want /\ a.used = z.used /\ a.stopping = z.stopping
            /\ a.reg => z.reg
            /\ a.running /\ ~ z.running => ~ a.cancelled /\ a.want
        BY <1>4, <2>2, <3>1, SupStart
      <3>3. x.issue # "unconfirmed"
        BY <1>1, <1>9
      <3> QED
        BY <1>5, <3>2, <3>3
    <2> QED
      BY <1>9, <2>1, <2>2 DEF Sup!resumeNetworkLocked
  <1> QED
    BY <1>2, <1>7, <1>8, <1>9

\* The worker has ended: the gate is free, and whoever follows is one.
LEMMA SupEnds ==
    ASSUME SupInv, Sup!WifiConstants, Sup!End
    PROVE  SupInv' /\ Sup!UnconfirmedHeld
  <1> DEFINE changed == supSeen # wk.gen
             x == Sup!Ended(wk.code)
             y == IF w.stopping THEN Sup!AfterReset(x, changed) ELSE Sup!AfterRun(x, changed)
             engine == [Sup!NoWorker EXCEPT !.pc = "gate", !.gen = y.gen, !.net = net, !.fp = links[net]]
  <1>1. /\ wk.pc = "done" /\ w' = y
        /\ supHold' = (supHold \/ wk.code = "unconfirmed")
        /\ wk' = (IF y.running /\ y.stopping THEN Sup!Restorer(y) ELSE IF y.running THEN engine ELSE Sup!NoWorker)
        /\ moved' = (moved /\ ~ y.running)
        /\ restores' = (IF y.running /\ y.stopping THEN restores + 1 ELSE restores)
        /\ why' \in {"none", "rejected", "unconfirmed"} /\ (why' = "unconfirmed" => wk.code = "unconfirmed")
        /\ supGate' = (IF supGate = "wifi" THEN "free" ELSE supGate)
        /\ UNCHANGED <<supDev, supUsed, radio, supSeen, supValue, supWork, supReady, supCtl, net, links, supBudget>>
    BY DEF Sup!End, Sup!device
  <1> HIDE DEF engine
  <1>2. SupTypes /\ w \in SupW /\ SupRestores /\ SupDevice /\ restores \in Nat
    BY DEF SupInv, SupTypes
  <1>3. /\ x \in SupW /\ x.running = FALSE /\ x.stopping = FALSE /\ x.cancelled = FALSE /\ x.reg = FALSE
        /\ x.want = w.want /\ x.used = w.used
        /\ wk.code = "unconfirmed" => x.st = "failed" /\ x.issue = "unconfirmed"
    BY <1>2, SupEnded
  <1> HIDE DEF x
  <1>4. changed \in BOOLEAN
    OBVIOUS
  <1> HIDE DEF changed
  <1>5. /\ y \in SupW /\ ~ y.reg
        /\ y.running /\ y.stopping => ~ w.used /\ y.used
        /\ ~ (y.running /\ y.stopping) => y.used = w.used
        /\ y.running /\ ~ y.stopping => y.want /\ ~ y.cancelled
        /\ wk.code = "unconfirmed" => ~ y.running /\ y.st = "failed" /\ y.issue = "unconfirmed"
    <2>1. CASE w.stopping
      <3>1. /\ y = x \/ (x.st = "off" /\ y = [x EXCEPT !.st = "waiting", !.issue = "none", !.refresh = TRUE, !.retry = "none"])
        BY <2>1 DEF Sup!AfterReset
      <3> HIDE DEF y
      <3>2. y \in SupW
        BY <1>3, <3>1 DEF SupW, SupIssues
      <3>3. y.running = FALSE /\ y.reg = FALSE /\ y.used = w.used /\ (x.st # "off" => y = x)
        BY <1>3, <3>1 DEF SupW
      <3> QED
        BY <1>3, <3>2, <3>3
    <2>2. CASE ~ w.stopping
      <3>1. y = Sup!AfterRun(x, changed)
        BY <2>2
      <3> HIDE DEF y
      <3>2. /\ y \in SupW /\ y.want = x.want /\ ~ y.reg
            /\ y.running /\ y.stopping => ~ x.used /\ y.used
            /\ ~ (y.running /\ y.stopping) => y.used = x.used
            /\ y.running /\ ~ y.stopping => y.want /\ ~ y.cancelled
            /\ x.st = "failed" /\ x.issue = "unconfirmed" => ~ y.running /\ y.st = "failed" /\ y.issue = "unconfirmed"
        <4>1. x \in SupW /\ x.running = FALSE /\ x.stopping = FALSE /\ x.cancelled = FALSE /\ x.reg = FALSE
          BY <1>3
        <4>2. \A a : a = Sup!AfterRun(x, changed) =>
            /\ a \in SupW /\ a.want = x.want /\ ~ a.reg
            /\ a.running /\ a.stopping => ~ x.used /\ a.used
            /\ ~ (a.running /\ a.stopping) => a.used = x.used
            /\ a.running /\ ~ a.stopping => a.want /\ ~ a.cancelled
            /\ x.st = "failed" /\ x.issue = "unconfirmed" => ~ a.running /\ a.st = "failed" /\ a.issue = "unconfirmed"
          BY <1>2, <1>4, <4>1, SupAfterRun
        <4> QED
          BY <3>1, <4>2
      <3> QED
        BY <1>3, <3>2
    <2> QED
      BY <2>1, <2>2
  <1> HIDE DEF y
  <1>6. w' = y /\ y.running \in BOOLEAN /\ y.stopping \in BOOLEAN
    BY <1>1, <1>5 DEF SupW
  <1>7. engine \in SupWk /\ engine.pc = "gate" /\ engine.kind = "engine" /\ engine.gen = y.gen /\ engine.net = net
        /\ engine.fp = links[net]
    <2>1. y.gen \in Sup!Gens /\ net \in Nets /\ links[net] \in Sup!Fps
      BY <1>2, <1>5 DEF SupTypes, SupW
    <2> QED
      BY <2>1, SupNoWorker DEF SupWk, engine
  <1>8. /\ wk' \in SupWk /\ (wk'.pc = "none" <=> ~ w'.running) /\ wk'.pc \in {"none", "gate"}
        /\ (wk'.pc # "none" => wk'.gen = w'.gen) /\ (wk'.kind = "restorer" => wk'.pc = "gate")
        /\ (wk'.pc # "none" /\ wk'.kind = "engine" => w'.want /\ wk'.net = net' /\ wk'.fp = links'[net'])
    <2>1. CASE y.running /\ y.stopping
      BY <1>1, <1>5, <1>6, <2>1, SupRestorer
    <2>2. CASE y.running /\ ~ y.stopping
      BY <1>1, <1>5, <1>6, <1>7, <2>2
    <2>3. CASE ~ y.running
      BY <1>1, <1>6, <2>3, SupNoWorker
    <2> QED
      BY <2>1, <2>2, <2>3
  <1>9. restores' \in Nat /\ restores' <= 1 /\ (restores' = 1 => w'.used)
    <2>1. CASE y.running /\ y.stopping
      <3>1. restores = 0
        BY <1>2, <1>5, <2>1 DEF SupRestores
      <3> QED
        BY <1>1, <1>5, <1>6, <2>1, <3>1
    <2>2. CASE ~ (y.running /\ y.stopping)
      BY <1>1, <1>2, <1>5, <1>6, <2>2 DEF SupRestores
    <2> QED
      BY <2>1, <2>2
  <1>10. SupTypes'
    <2>1. supHold' \in BOOLEAN /\ moved' \in BOOLEAN /\ supGate' \in {"free", "wifi", "other"}
      BY <1>1, <1>2, <1>6 DEF SupTypes
    <2>2. why' \in {"none", "rejected", "unconfirmed"}
      BY <1>1
    <2>3. UNCHANGED <<supDev, supUsed, radio, supSeen, supValue, supWork, supReady, supCtl, net, links, supBudget>>
      BY <1>1
    <2>4. w' \in SupW
      BY <1>5, <1>6
    <2> QED
      BY <1>2, <1>8, <1>9, <2>1, <2>2, <2>3, <2>4 DEF SupTypes
  <1>11. SupDevice' /\ SupWorker' /\ SupGateHeld' /\ SupRestores'
    <2>1. supGate' # "wifi" /\ UNCHANGED <<supDev, supUsed>>
      BY <1>1
    <2>2. SupDevice'
      BY <1>2, <2>1 DEF SupDevice
    <2>3. SupWorker'
      BY <1>8 DEF SupWorker
    <2>4. SupGateHeld'
      BY <1>8, <2>1 DEF SupGateHeld
    <2>5. SupRestores'
      BY <1>9 DEF SupRestores
    <2> QED
      BY <2>2, <2>3, <2>4, <2>5
  <1>12. SupRoute'
    BY <1>5, <1>6, <1>8 DEF SupRoute
  <1>13. why' = "unconfirmed" => ~ w'.running /\ w'.st = "failed" /\ w'.issue = "unconfirmed"
    BY <1>1, <1>5, <1>6
  <1>14. SupWhy' /\ Sup!UnconfirmedHeld
    BY <1>8, <1>13 DEF SupWhy, Sup!UnconfirmedHeld
  <1> QED
    BY <1>10, <1>11, <1>12, <1>14 DEF SupInv

\* Every step of the supervisor keeps the invariant, and starts no attempt of its own accord
\* after an unconfirmed cleanup.
LEMMA SupStep ==
    ASSUME SupInv, Sup!WifiConstants, Sup!Next
    PROVE  SupInv' /\ Sup!UnconfirmedHeld
  <1>1. CASE Sup!Unplug \/ Sup!Plug \/ Sup!HoldEnds \/ Sup!Others \/ (\E on \in BOOLEAN : Sup!SwitchWifi(on))
             \/ (\E n \in Nets : Sup!ChangeNetwork(n))
    BY <1>1, SupQuiet
  <1>2. CASE Sup!scan \/ Sup!RetryDue \/ Sup!RefreshEnds
    BY <1>2, SupTimes
  <1>3. CASE Sup!accept
    BY <1>3, SupAccepts
  <1>4. CASE Sup!User
    BY <1>4, SupSwitches, SupCommits, SupReleases DEF Sup!User
  <1>5. CASE Sup!GateTaken \/ Sup!GivenUp \/ Sup!Dial \/ Sup!Begin \/ Sup!Dies \/ Sup!Tell
    BY <1>5, SupWorks
  <1>6. CASE Sup!Connected \/ Sup!Breaks \/ Sup!RetryFailed \/ Sup!LeaseLost \/ Sup!Stop \/ Sup!Clean
    BY <1>6, SupReports
  <1>7. CASE Sup!End
    BY <1>7, SupEnds
  <1>8. CASE Sup!recoverWiFi \/ Sup!watchNetworks
    BY <1>8, SupRecovers, SupReroutes
  <1>9. /\ Sup!Module => Sup!Unplug \/ Sup!Plug \/ Sup!scan \/ Sup!accept
        /\ Sup!Time => Sup!HoldEnds \/ Sup!RetryDue \/ Sup!RefreshEnds
        /\ Sup!Worker => \/ Sup!GateTaken \/ Sup!GivenUp \/ Sup!Dial \/ Sup!Begin \/ Sup!Connected
                         \/ Sup!RetryFailed \/ Sup!Tell \/ Sup!Stop \/ Sup!Clean \/ Sup!End
    BY DEF Sup!Module, Sup!Time, Sup!Worker
  <1> QED
    BY <1>1, <1>2, <1>3, <1>4, <1>5, <1>6, <1>7, <1>8, <1>9 DEF Sup!Next

\* What the invariant promises of registrations, workers and restores.
LEMMA SupPromise ==
    ASSUME SupInv, Sup!WifiConstants
    PROVE  Sup!Supervised
  <1>1. SupTypes /\ restores <= 1 /\ restores \in Nat /\ wk \in SupWk
    BY DEF SupInv, SupTypes, SupRestores
  <1>2. Sup!TypeOK
    <2>1. restores \in 0 .. 2
      BY <1>1
    <2>2. w \in SupW /\ wk \in SupWk
      BY <1>1 DEF SupTypes
    <2>3. Sup!Issues = SupIssues
      BY DEF Sup!Issues, SupIssues
    <2> QED
      BY <1>1, <2>1, <2>2, <2>3 DEF Sup!TypeOK, SupTypes, SupW, SupWk
  <1>3. Sup!OwnRoute
    BY DEF SupInv, SupRoute, SupWorker, Sup!OwnRoute
  <1>4. Sup!OneWorker
    BY DEF SupInv, SupWorker, SupGateHeld, Sup!OneWorker, Sup!Working
  <1>5. Sup!OneRestore
    BY <1>1 DEF Sup!OneRestore
  <1> QED
    BY <1>2, <1>3, <1>4, <1>5 DEF Sup!Supervised

\* The invariant of the supervisor: one worker of the intent's generation that holds the gate,
\* registrations over the chosen network only, the restore of an outage spent once, and an
\* unconfirmed cleanup remembered in the state the intent is left in.
THEOREM SupervisorInvariant == Behaviour => [](part = "supervisor" => SupInv)
  <1>1. InitAll => (part = "supervisor" => SupInv)
    BY SupervisorBounds, SupInit DEF InitAll
  <1>2. (part = "supervisor" => SupInv) /\ [NextAll]_all => (part = "supervisor" => SupInv)'
    <2> SUFFICES ASSUME part = "supervisor" => SupInv, [NextAll]_all, part' = "supervisor"
                 PROVE  SupInv'
      OBVIOUS
    <2>1. CASE UNCHANGED all
      <3>1. SupInv /\ UNCHANGED varsSup
        BY <2>1 DEF all
      <3>2. SupTypes'
        BY <3>1 DEF varsSup, SupInv, SupTypes
      <3>3. SupDevice' /\ SupWorker' /\ SupGateHeld' /\ SupRoute' /\ SupRestores' /\ SupWhy'
        BY <3>1 DEF varsSup, SupInv, SupDevice, SupWorker, SupGateHeld, SupRoute, SupRestores, SupWhy
      <3> QED
        BY <3>2, <3>3 DEF SupInv
    <2>2. CASE NextAll
      <3>1. part = "supervisor"
        BY <2>2 DEF NextAll
      <3>2. Sup!Next
        BY <2>2, <3>1 DEF NextAll
      <3> QED
        BY <3>1, <3>2, SupStep, SupervisorBounds
    <2> QED
      BY <2>1, <2>2
  <1> QED
    BY <1>1, <1>2, PTL DEF Behaviour

\* For any number of networks, outages and requests: a module is registered only over the
\* chosen network and only while Wi-Fi calling is wanted, one worker at a time holds its gate,
\* and an outage costs one full restore (modules_wifi.go, modules_wifi_recovery.go).
THEOREM SupervisorSound == Behaviour => []Supervised
  <1>1. (part = "supervisor" => SupInv) => Supervised
    BY SupervisorBounds, SupPromise DEF Supervised
  <1> QED
    BY <1>1, SupervisorInvariant, PTL

\* After an unconfirmed cleanup no poll, retry or scan starts another attempt while the module
\* keeps its network and that network's link stays as it was (runWiFi and startWiFiLocked).  A
\* link that goes and returns does start one: NoBlindRetry is violated.
THEOREM UnconfirmedIsHeld == Behaviour => UnconfirmedStays
  <1>1. (part = "supervisor" => SupInv) /\ [NextAll]_all => [part = "supervisor" => Sup!UnconfirmedHeld]_varsSup
    <2> SUFFICES ASSUME part = "supervisor" => SupInv, [NextAll]_all, part = "supervisor", varsSup' # varsSup
                 PROVE  Sup!UnconfirmedHeld
      OBVIOUS
    <2>1. ~ UNCHANGED all
      BY DEF all
    <2>2. Sup!Next
      BY <2>1 DEF NextAll
    <2> QED
      BY <2>2, SupStep, SupervisorBounds
  <1> QED
    BY <1>1, SupervisorInvariant, PTL DEF Behaviour, UnconfirmedStays
=============================================================================
