----------------------------- MODULE UplinkLease -----------------------------
(***************************************************************************)
(* The routes of a module's uplink (internal/uplink).  Each Wi-Fi worker is *)
(* a process of its own that leases a routing table: marked sockets look up *)
(* that table only, and an unreachable route in it keeps their traffic off  *)
(* any other uplink.  Workers open under a lock on a file, leave a record   *)
(* of their table for the sweep of the next one in case they die, watch     *)
(* their routes, and close without the lock.                                *)
(*                                                                          *)
(* The routing policy of the host changes under them.  A worker reads it    *)
(* twice, once to find its link and once to remember what to compare with;  *)
(* the module manager samples it on its own (module_networks.go).           *)
(***************************************************************************)
EXTENDS Integers, Sequences, FiniteSets, SequencesExt

CONSTANTS Worker,       \* the workers' slots
          Table,        \* the routing tables they may draw
          Families,     \* the address families, in the order of the code
          MaxTroubles,  \* bound: crashes, changes of policy, tables disturbed
                        \* by others and tables on which commands fail
          RouteErrors   \* reads of the routes that may fail in a row

LeaseConstants ==
    /\ MaxTroubles \in Nat /\ RouteErrors \in Nat \ {0}
    /\ {"none", "empty"} \cap Worker = {} /\ "none" \notin Table

VARIABLES pc,        \* what each worker does
          life,      \* the worker's process: a new one has another start time
          lock,      \* who holds uplink.lock
          table,     \* the table drawn
          todo,      \* the commands Open has still to run
          rules,     \* l.rules: the rules Close will delete
          record,    \* the record file of each table
          kernel,    \* the rules and routes of each table
          unsure,    \* tables on which a command failed
          disturbed, \* tables that somebody else has changed
          policy,    \* the host's policy for the network
          link,      \* the policy the lease's link was found under
          signature, \* the policy the lease compares with
          errors,    \* reads of the routes that failed in a row
          cancelled, \* the worker's session was cancelled
          sampled    \* the manager's last sample

vars == <<pc, life, lock, table, todo, rules, record, kernel, unsure, disturbed, policy,
          link, signature, errors, cancelled, sampled>>

hostVars  == <<disturbed, policy, sampled>>
leaseVars == <<link, signature, errors, cancelled>>

Nobody == "none"

\* A record file names a process by its number and start time; one that was
\* created but not written names nobody.
File == [by : Worker \cup {Nobody, "empty"}, life : Nat]
NoFile == [by |-> Nobody, life |-> 0]
Empty == [by |-> "empty", life |-> 0]

Entry == <<"unreachable", "routes", "rule">>

\* What a complete lease has in the kernel, in the order of the commands.
Plan == [i \in 1 .. 3 * Len(Families) |-> <<Entry[1 + ((i - 1) % 3)], Families[1 + ((i - 1) \div 3)]>>]

Rules == {<<"rule", f>> : f \in ToSet(Families)}

Init == /\ pc = [w \in Worker |-> "idle"]
        /\ life = [w \in Worker |-> 0]
        /\ lock = Nobody
        /\ table = [w \in Worker |-> Nobody]
        /\ todo = [w \in Worker |-> <<>>]
        /\ rules = [w \in Worker |-> {}]
        /\ record = [t \in Table |-> NoFile]
        /\ kernel = [t \in Table |-> {}]
        /\ unsure = {} /\ disturbed = {}
        /\ policy = 0 /\ sampled = 0
        /\ link = [w \in Worker |-> 0]
        /\ signature = [w \in Worker |-> 0]
        /\ errors = [w \in Worker |-> 0]
        /\ cancelled = [w \in Worker |-> FALSE]

Goto(w, there) == pc' = [pc EXCEPT ![w] = there]

Troubles == policy + Cardinality(disturbed) + Cardinality(unsure) + SumFunction(life)

\* A command on this table may fail.
MayFail(t) == t \in unsure \/ Troubles < MaxTroubles

\* The worker ends and keeps nothing; a lock it held is free.
Ends(w) ==
    /\ Goto(w, "idle")
    /\ lock' = IF lock = w THEN Nobody ELSE lock
    /\ table' = [table EXCEPT ![w] = Nobody]
    /\ todo' = [todo EXCEPT ![w] = <<>>]
    /\ rules' = [rules EXCEPT ![w] = {}]
    /\ link' = [link EXCEPT ![w] = 0]
    /\ signature' = [signature EXCEPT ![w] = 0]
    /\ errors' = [errors EXCEPT ![w] = 0]
    /\ cancelled' = [cancelled EXCEPT ![w] = FALSE]

------------------------------------------------------------------------------
(* Open                                                                    *)

\* Find: the link is the host's, or the policy's tunnel.
Find(w) ==
    /\ pc[w] = "idle"
    /\ link' = [link EXCEPT ![w] = policy]
    /\ Goto(w, "locking")
    /\ UNCHANGED <<life, lock, table, todo, rules, record, kernel, unsure, hostVars,
                   signature, errors, cancelled>>

\* Variant: any record of another process is taken for abandoned.
NotMine(t) == record[t].by \in Worker

\* A record whose process does not run any more; the start time tells a new
\* process with the same number from the old one.
Abandoned(t) == record[t].by \in Worker /\ life[record[t].by] # record[t].life

\* uplink.lock is taken, and cleanupAbandoned run under it: a record goes
\* whether or not the commands on its table worked.
Sweep(w) ==
    /\ pc[w] = "locking" /\ lock = Nobody
    /\ lock' = w
    /\ LET dead == {t \in Table : Abandoned(t)} IN
       \E failed \in SUBSET {t \in dead : MayFail(t)} :
           /\ record' = [t \in Table |-> IF t \in dead THEN NoFile ELSE record[t]]
           /\ kernel' = [t \in Table |-> IF t \in dead \ failed THEN {} ELSE kernel[t]]
           /\ unsure' = unsure \cup failed
    /\ Goto(w, "drawing")
    /\ UNCHANGED <<life, table, todo, rules, hostVars, leaseVars>>

\* A table without rules or routes; after ten that are taken, Open fails.
Draw(w) ==
    /\ pc[w] = "drawing"
    /\ \/ /\ \E t \in Table : /\ kernel[t] = {}
                              /\ table' = [table EXCEPT ![w] = t]
          /\ Goto(w, "recording")
          /\ UNCHANGED <<lock, todo, rules, leaseVars>>
       \/ Ends(w)
    /\ UNCHANGED <<life, record, kernel, unsure, hostVars>>

\* The record is created exclusively.  One that is there belongs to another
\* lease, whose table is left alone.
Record(w) ==
    /\ pc[w] = "recording"
    /\ \/ /\ record[table[w]] = NoFile
          /\ record' = [record EXCEPT ![table[w]] = Empty]
          /\ Goto(w, "writing")
          /\ UNCHANGED <<lock, table, todo, rules, leaseVars>>
       \/ /\ record[table[w]] # NoFile
          /\ Ends(w)
          /\ UNCHANGED record
    /\ UNCHANGED <<life, kernel, unsure, hostVars>>

Write(w) ==
    /\ pc[w] = "writing"
    /\ \/ /\ record' = [record EXCEPT ![table[w]] = [by |-> w, life |-> life[w]]]
          /\ Goto(w, "routing")
       \/ Goto(w, "rules-off") /\ UNCHANGED record
    /\ todo' = [todo EXCEPT ![w] = Plan]
    /\ UNCHANGED <<life, lock, table, rules, kernel, unsure, hostVars, leaseVars>>

\* One `ip` command of Open: done, refused, or killed with its work done.
Route(w) ==
    /\ pc[w] = "routing"
    /\ todo[w] # <<>>
    /\ LET t == table[w]
           e == Head(todo[w]) IN
       \/ /\ kernel' = [kernel EXCEPT ![t] = @ \cup {e}]
          /\ rules' = IF e \in Rules THEN [rules EXCEPT ![w] = @ \cup {e}] ELSE rules
          /\ todo' = [todo EXCEPT ![w] = Tail(@)]
          /\ UNCHANGED <<pc, unsure>>
       \/ /\ MayFail(t)
          /\ kernel' \in {kernel, [kernel EXCEPT ![t] = @ \cup {e}]}
          /\ unsure' = unsure \cup {t}
          /\ Goto(w, "rules-off")
          /\ UNCHANGED <<rules, todo>>
    /\ UNCHANGED <<life, lock, table, record, hostVars, leaseVars>>

Complete(t) == kernel[t] = ToSet(Plan)

\* The table is read back before it is used; then the lock is released.
Verify(w) ==
    /\ pc[w] = "routing"
    /\ todo[w] = <<>>
    /\ \/ Complete(table[w]) /\ Goto(w, "signing") /\ lock' = Nobody
       \/ Goto(w, "rules-off") /\ UNCHANGED lock
    /\ UNCHANGED <<life, table, todo, rules, record, kernel, unsure, hostVars, leaseVars>>

\* Open reads the policy again for Watch to compare with.
Sign(w) ==
    /\ pc[w] = "signing"
    /\ signature' = [signature EXCEPT ![w] = policy]
    /\ Goto(w, "open")
    /\ UNCHANGED <<life, lock, table, todo, rules, record, kernel, unsure, hostVars,
                   link, errors, cancelled>>

------------------------------------------------------------------------------
(* Watch and Close                                                         *)

Cancel(w) == cancelled' = [cancelled EXCEPT ![w] = TRUE]

\* Every three seconds: the policy, then (less often) the routes.
Watch(w) ==
    /\ pc[w] = "open" /\ ~cancelled[w]
    /\ \/ policy # signature[w] /\ Cancel(w) /\ UNCHANGED errors
       \/ /\ policy = signature[w] \* the routes cannot be read
          /\ errors' = [errors EXCEPT ![w] = @ + 1]
          /\ IF errors'[w] < RouteErrors THEN UNCHANGED cancelled ELSE Cancel(w)
       \/ /\ policy = signature[w]
          /\ errors' = [errors EXCEPT ![w] = 0]
          /\ IF Complete(table[w]) THEN UNCHANGED cancelled ELSE Cancel(w)
    /\ UNCHANGED <<pc, life, lock, table, todo, rules, record, kernel, unsure, hostVars,
                   link, signature>>

\* The session ends, by itself or because it was cancelled.
Close(w) ==
    /\ pc[w] = "open"
    /\ Goto(w, "rules-off")
    /\ UNCHANGED <<life, lock, table, todo, rules, record, kernel, unsure, hostVars, leaseVars>>

\* Close deletes its rules, then its routes, then its record; the results
\* are not looked at.
RulesOff(w) ==
    /\ pc[w] = "rules-off"
    /\ \E failed \in SUBSET rules[w] :
           /\ failed # {} => MayFail(table[w])
           /\ kernel' = [kernel EXCEPT ![table[w]] = @ \ (rules[w] \ failed)]
           /\ unsure' = IF failed = {} THEN unsure ELSE unsure \cup {table[w]}
    /\ Goto(w, "routes-off")
    /\ UNCHANGED <<life, lock, table, todo, rules, record, hostVars, leaseVars>>

RoutesOff(w) ==
    /\ pc[w] = "routes-off"
    /\ \/ /\ kernel' = [kernel EXCEPT ![table[w]] = @ \cap Rules]
          /\ UNCHANGED unsure
       \/ /\ MayFail(table[w])
          /\ unsure' = unsure \cup {table[w]}
          /\ UNCHANGED kernel
    /\ Goto(w, "record-off")
    /\ UNCHANGED <<life, lock, table, todo, rules, record, hostVars, leaseVars>>

RecordOff(w) ==
    /\ pc[w] = "record-off"
    /\ record' = [record EXCEPT ![table[w]] = NoFile]
    /\ Ends(w)
    /\ UNCHANGED <<life, kernel, unsure, hostVars>>

------------------------------------------------------------------------------
(* The host                                                                *)

\* The worker is killed: its routes and its record stay, its lock does not.
Crash(w) ==
    /\ pc[w] # "idle"
    /\ Troubles < MaxTroubles
    /\ life' = [life EXCEPT ![w] = @ + 1]
    /\ Ends(w)
    /\ UNCHANGED <<record, kernel, unsure, hostVars>>

\* A VPN is turned on or off, or becomes ready, for this network.
PolicyChanges ==
    /\ Troubles < MaxTroubles
    /\ policy' = policy + 1
    /\ UNCHANGED <<pc, life, lock, table, todo, rules, record, kernel, unsure, disturbed,
                   sampled, leaseVars>>

\* A network manager removes an entry it does not know.
Disturb(t, e) ==
    /\ Troubles < MaxTroubles
    /\ disturbed' = disturbed \cup {t}
    /\ kernel' = [kernel EXCEPT ![t] = @ \ {e}]
    /\ UNCHANGED <<pc, life, lock, table, todo, rules, record, unsure, policy, sampled,
                   leaseVars>>

\* watchNetworks: a fingerprint that is not the last one cancels the workers
\* that run on the network.
Sample ==
    /\ sampled # policy
    /\ sampled' = policy
    /\ cancelled' = [w \in Worker |-> cancelled[w] \/ pc[w] # "idle"]
    /\ UNCHANGED <<pc, life, lock, table, todo, rules, record, kernel, unsure, disturbed,
                   policy, link, signature, errors>>

Opening(w) == \/ Find(w) \/ Sweep(w) \/ Draw(w) \/ Record(w) \/ Write(w)
              \/ Route(w) \/ Verify(w) \/ Sign(w)

Closing(w) == RulesOff(w) \/ RoutesOff(w) \/ RecordOff(w)

Next == \/ \E w \in Worker : Opening(w) \/ Watch(w) \/ Close(w) \/ Closing(w) \/ Crash(w)
        \/ PolicyChanges
        \/ \E t \in Table : \E e \in kernel[t] : Disturb(t, e)
        \/ Sample

\* The tickers of the worker and of the manager run.
Fairness == WF_vars(Sample) /\ \A w \in Worker : WF_vars(Watch(w))

Spec == Init /\ [][Next]_vars /\ Fairness

------------------------------------------------------------------------------
(* Properties                                                              *)

Holding(w) == pc[w] \in {"writing", "routing", "signing", "open", "rules-off", "routes-off",
                         "record-off"}

TypeOK ==
    /\ lock \in Worker \cup {Nobody}
    /\ table \in [Worker -> Table \cup {Nobody}]
    /\ \A w \in Worker : Holding(w) => table[w] # Nobody
    /\ \A t \in Table : kernel[t] \subseteq ToSet(Plan)
    /\ record \in [Table -> File]
    /\ unsure \subseteq Table /\ disturbed \subseteq Table

\* Two workers never hold the same table, although tables are drawn at
\* random and closed without the lock.
OwnTable == \A v, w \in Worker : Holding(v) /\ Holding(w) /\ v # w => table[v] # table[w]

\* A lease in use has all its rules and routes: no sweep, and no Close of
\* another worker, takes them.
Intact == \A w \in Worker : pc[w] \in {"signing", "open"} =>
              Complete(table[w]) \/ table[w] \in disturbed

\* A marked socket can only look up a table whose unreachable route is there,
\* from the first rule to the start of Close ("A terminal route prevents
\* fall-through to a different uplink on link loss").
FailClosed ==
    \A w \in Worker : pc[w] \in {"routing", "signing", "open"} =>
        \A f \in ToSet(Families) : <<"rule", f>> \in kernel[table[w]] =>
            <<"unreachable", f>> \in kernel[table[w]] \/ table[w] \in disturbed

\* Rules and routes without a record, which no sweep will find, are left only
\* where a command has failed.
Accounted == \A t \in Table : kernel[t] # {} => record[t].by \in Worker \/ t \in unsure

UplinkSound == TypeOK /\ OwnTable /\ Intact /\ FailClosed /\ Accounted

Overtaken(w) == pc[w] = "open" /\ (link[w] # policy \/ ~Complete(table[w]))

\* A session does not go on over a link the policy has replaced, nor without
\* its routes, although its own two readings of the policy may hide the
\* change (lease_linux.go 48-57, module_networks.go 141-160).
OvertakenEnds == \A w \in Worker : Overtaken(w) ~> pc[w] # "open" \/ cancelled[w]

==============================================================================
