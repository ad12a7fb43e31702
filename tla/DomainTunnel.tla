----------------------------- MODULE DomainTunnel -----------------------------
(***************************************************************************)
(* The Cloudflare tunnel of the host's domain (tunnel.go, tunnel_process.go *)
(* tunnel_cleanup.go, cloudflare.go): one binding, kept in memory and in a  *)
(* row of the database; a worker that makes the tunnel and its DNS record   *)
(* and runs the connector; and a cleanup that removes exactly what is ours. *)
(*                                                                          *)
(* A request to Cloudflare works, fails, or works with its answer lost; one *)
(* that is abandoned may take effect later.  A row that is written may be   *)
(* reported unwritten.  The program may end at any step.  Somebody may      *)
(* delete the tunnel or rename it, change or delete our DNS record, or have *)
(* one of their own.                                                        *)
(***************************************************************************)
EXTENDS Naturals, FiniteSets

CONSTANTS MaxNames,    \* bound: bindings that are made
          MaxTroubles  \* bound: what fails, ends or is changed by others

DomainConstants == MaxNames \in Nat \ {0} /\ MaxTroubles \in Nat

VARIABLES mem,      \* t.binding
          row,      \* tunnel_settings
          files,    \* the certificate; the tunnel's secret and configuration
          cloud,    \* the tunnels and the DNS record of the domain
          worker,   \* connectFlow
          cleaner,  \* the cleanup
          late,     \* requests that were abandoned on their way
          strays,   \* names whose resources such requests made, or others deleted
          made,     \* tunnels made so far
          names,    \* names drawn so far
          troubles

vars == <<mem, row, files, cloud, worker, cleaner, late, strays, made, names, troubles>>
bindings == <<mem, row>>
cloudVars == <<cloud, late, strays, made>>

\* A tunnel's number is never used again; 0 is none, and a name 0 is nobody's.
Number == 0 .. MaxNames + MaxTroubles
Name == 0 .. MaxNames

Unbound == [status |-> "disconnected", name |-> 0, tunnel |-> 0, dns |-> FALSE,
            resume |-> FALSE, provisioned |-> FALSE, removing |-> FALSE, cleared |-> FALSE]
\* The domain's record has a number of its own, which says that a record listed before is
\* still there, whatever it holds now; "by" is who made it (auxiliary).
NoDns == [id |-> 0, name |-> 0, tunnel |-> 0, by |-> "nobody"]
Foreign(id) == [id |-> id, name |-> 0, tunnel |-> 1, by |-> "others"]
Off == [at |-> "off", tunnel |-> 0, cancelled |-> FALSE]
Still == [at |-> "off", tunnel |-> 0, exists |-> FALSE, dns |-> 0]

Init == /\ mem = Unbound /\ row = Unbound
        /\ files = {}
        /\ cloud \in [tunnels : {{}}, dns : {NoDns, Foreign(1)}]
        /\ worker = Off /\ cleaner = Still
        /\ late = {} /\ strays = {}
        /\ made = 0 /\ names = 0 /\ troubles = 0

Quiet == UNCHANGED troubles
Trouble == troubles < MaxTroubles /\ troubles' = troubles + 1

\* saveLocked: the binding in memory is what the row holds, or the change is
\* taken back; its write may have worked nevertheless.
Saved(b) == mem' = b /\ row' = b /\ Quiet
Unsaved(b) == mem' = mem /\ row' \in {row, b} /\ Trouble

------------------------------------------------------------------------------
(* What the user asks for                                                  *)

Connect ==
    /\ ~mem.removing /\ worker.at = "off"
    /\ names < MaxNames \/ mem.name # 0
    /\ names' = IF mem.name = 0 THEN names + 1 ELSE names
    /\ LET b == IF mem.name = 0 THEN [Unbound EXCEPT !.name = names', !.status = "connecting"]
                ELSE [mem EXCEPT !.status = "connecting"] IN
       \/ Saved(b) /\ worker' = [Off EXCEPT !.at = "certificate"]
       \/ Unsaved(b) /\ UNCHANGED worker
    /\ UNCHANGED <<files, cleaner, cloudVars>>

\* Variant: the worker is not told.
NotTold == UNCHANGED worker

\* startCleanupLocked stops the worker and lets the cleanup wait for it.
Cancelled == worker' = [worker EXCEPT !.cancelled = @ \/ worker.at # "off"]

Disconnect ==
    /\ mem.status \notin {"disconnected", "disconnecting"}
    /\ LET b == [mem EXCEPT !.status = "disconnecting", !.resume = FALSE, !.removing = TRUE] IN
       \/ Saved(b) /\ Cancelled /\ cleaner' = [Still EXCEPT !.at = "wait"]
       \/ Unsaved(b) /\ UNCHANGED <<worker, cleaner>>
    /\ UNCHANGED <<files, cloudVars, names>>

------------------------------------------------------------------------------
(* The worker                                                              *)

Works(there) == worker' = [worker EXCEPT !.at = there]
WorkerAt(here) == worker.at = here /\ ~worker.cancelled

\* It fails; a failure of Cloudflare's is tried again when the binding is one
\* that is resumed.
Fails == \/ Works("failed")
         \/ mem.resume /\ ~mem.removing /\ Works("certificate")

\* Without a certificate the user has five minutes to authorise one; one that
\* is lost after the tunnel may have been made cannot be replaced.
Certificate ==
    /\ WorkerAt("certificate")
    /\ \/ "certificate" \in files /\ Works("zone") /\ UNCHANGED <<mem, files>> /\ Quiet
       \/ /\ "certificate" \notin files /\ ~mem.provisioned
          /\ \/ /\ files' = files \cup {"certificate"} /\ Works("zone") /\ UNCHANGED mem /\ Quiet
             \/ /\ mem' = IF mem.status = "disconnecting" THEN mem
                          ELSE [mem EXCEPT !.status = "authorizing"]
                /\ mem' # mem /\ UNCHANGED <<files, worker>> /\ Quiet
             \/ Works("failed") /\ UNCHANGED <<mem, files>> /\ Trouble
       \/ /\ "certificate" \notin files /\ mem.provisioned
          /\ Works("failed") /\ UNCHANGED <<mem, files>> /\ Quiet
    /\ UNCHANGED <<row, cleaner, cloudVars, names>>

Asks(here, there) ==
    /\ WorkerAt(here)
    /\ \/ Works(there) /\ Quiet
       \/ Fails /\ Trouble
    /\ UNCHANGED <<bindings, files, cleaner, cloudVars, names>>

\* A row is written even when the worker has been cancelled meanwhile.
Writes(here, b, there) ==
    /\ worker.at = here
    /\ \/ Saved(b) /\ Works(there)
       \/ Unsaved(b) /\ Works("failed")
    /\ UNCHANGED <<files, cleaner, cloudVars, names>>

\* The zone is checked; from now on the connection is taken up again.
Resume == Writes("resume", IF mem.removing THEN mem
                           ELSE [mem EXCEPT !.resume = TRUE, !.status = "connecting"], "secret")

Secret ==
    /\ WorkerAt("secret")
    /\ files' = files \cup {"secret"}
    /\ Works("provision")
    /\ UNCHANGED <<bindings, cleaner, cloudVars, names>> /\ Quiet

\* Before the first resource is made, the row says that there may be some.
Provision == Writes("provision", [mem EXCEPT !.provisioned = TRUE], "find")

Ours(name) == {t \in cloud.tunnels : t.name = name}
Id(name) == IF Ours(name) = {} THEN 0 ELSE (CHOOSE t \in Ours(name) : TRUE).number

\* ensureTunnel: the tunnel with the binding's name, or a new one.
FindTunnel ==
    /\ WorkerAt("find")
    /\ \/ /\ worker' = [worker EXCEPT !.tunnel = Id(mem.name),
                                      !.at = IF Ours(mem.name) = {} THEN "make" ELSE "found"]
          /\ Quiet
       \/ Fails /\ Trouble
    /\ UNCHANGED <<bindings, files, cleaner, cloudVars, names>>

Tunnel(number, name) == [number |-> number, name |-> name]

MakeTunnel ==
    /\ WorkerAt("make") /\ made + 1 \in Number
    /\ \/ /\ made' = made + 1
          /\ cloud' = [cloud EXCEPT !.tunnels = @ \cup {Tunnel(made', mem.name)}]
          /\ \/ worker' = [worker EXCEPT !.at = "found", !.tunnel = made'] /\ Quiet
             \/ Fails /\ Trouble
       \/ Fails /\ Trouble /\ UNCHANGED <<made, cloud>>
    /\ UNCHANGED <<bindings, files, cleaner, late, strays, names>>

Found == Writes("found", [mem EXCEPT !.tunnel = worker.tunnel], "dns")

\* A new record's number is none that the cleanup still holds.
NewId == IF cleaner.dns = 1 THEN 2 ELSE 1
Record(name, tunnel) == [id |-> NewId, name |-> name, tunnel |-> tunnel, by |-> "us"]
Mine(d) == d.name = mem.name /\ d.tunnel = mem.tunnel

\* ensureDNS: a record of the domain is ours by name and tunnel, or a conflict.
EnsureDns ==
    /\ WorkerAt("dns")
    /\ \/ cloud.dns # NoDns /\ Mine(cloud.dns) /\ Works("named") /\ UNCHANGED cloud /\ Quiet
       \/ cloud.dns # NoDns /\ ~Mine(cloud.dns) /\ Works("failed") /\ UNCHANGED cloud /\ Quiet
       \/ cloud.dns = NoDns /\ Works("record") /\ UNCHANGED cloud /\ Quiet
       \/ Fails /\ UNCHANGED cloud /\ Trouble
    /\ UNCHANGED <<bindings, files, cleaner, late, strays, made, names>>

MakeDns ==
    /\ WorkerAt("record")
    /\ \/ /\ cloud' = [cloud EXCEPT !.dns = IF @ = NoDns THEN Record(mem.name, mem.tunnel) ELSE @]
          /\ IF cloud.dns = NoDns THEN Works("named") /\ Quiet ELSE Works("failed") /\ Quiet
       \/ /\ cloud' = [cloud EXCEPT !.dns = IF @ = NoDns THEN Record(mem.name, mem.tunnel) ELSE @]
          /\ Fails /\ Trouble
       \/ Fails /\ UNCHANGED cloud /\ Trouble
    /\ UNCHANGED <<bindings, files, cleaner, late, strays, made, names>>

Named == Writes("named", [mem EXCEPT !.dns = TRUE], "run")

\* runConnector: cloudflared is started again whenever it ends.
RunConnector ==
    /\ WorkerAt("run")
    /\ \/ /\ mem.status # "disconnecting"
          /\ mem' = [mem EXCEPT !.status = IF @ = "connected" THEN "connecting" ELSE "connected"]
          /\ UNCHANGED worker /\ Quiet
       \/ Works("failed") /\ UNCHANGED mem /\ Trouble
    /\ UNCHANGED <<row, files, cleaner, cloudVars, names>>

\* A cancelled worker ends at its next step, once it has written what
\* Cloudflare has answered; a request on its way is not called back.
Abandons ==
    /\ worker.cancelled /\ worker.at \notin {"failed", "found", "named"}
    /\ late' = IF worker.at \in {"make", "record"}
               THEN late \cup {[what |-> worker.at, name |-> mem.name, tunnel |-> mem.tunnel]}
               ELSE late
    /\ Works("failed")
    /\ UNCHANGED <<bindings, files, cleaner, cloud, strays, made, names>> /\ Quiet

\* The end of the worker is written unless the user disconnects.
WorkerEnds ==
    /\ worker.at = "failed"
    /\ worker' = Off
    /\ IF mem.status = "disconnecting" THEN UNCHANGED bindings /\ Quiet
       ELSE LET b == [mem EXCEPT !.status = "failed"] IN
            \/ Saved(b)
            \/ mem' = b /\ row' \in {row, b} /\ Trouble
    /\ UNCHANGED <<files, cleaner, cloudVars, names>>

Worker == \/ Certificate \/ Asks("zone", "resume") \/ Resume \/ Secret \/ Provision
          \/ FindTunnel \/ MakeTunnel \/ Found \/ EnsureDns \/ MakeDns \/ Named
          \/ RunConnector \/ Abandons \/ WorkerEnds

------------------------------------------------------------------------------
(* The cleanup                                                             *)

Cleans(there) == cleaner' = [cleaner EXCEPT !.at = there]

\* cleanupStep: a step that fails is tried again, or ends the cleanup.
StepFails == Trouble /\ (UNCHANGED cleaner \/ Cleans("failed"))

\* It waits for the worker, two minutes at most.
Wait ==
    /\ cleaner.at = "wait"
    /\ \/ /\ worker.at = "off"
          /\ Cleans(IF mem.cleared THEN "files"
                    ELSE IF ~mem.provisioned THEN "cleared"
                    ELSE IF "certificate" \notin files THEN "failed"
                    ELSE "find")
          /\ Quiet
       \/ worker.at # "off" /\ Cleans("failed") /\ Trouble
    /\ UNCHANGED <<bindings, files, worker, cloudVars, names>>

\* removeOwned: without a tunnel of this name there is nothing to remove.
FindOwned ==
    /\ cleaner.at = "find"
    /\ LET id == IF mem.tunnel # 0 THEN mem.tunnel ELSE Id(mem.name) IN
       \/ cleaner' = [cleaner EXCEPT !.tunnel = id, !.at = IF id = 0 THEN "cleared" ELSE "check"]
          /\ Quiet
       \/ StepFails
    /\ UNCHANGED <<bindings, files, worker, cloudVars, names>>

\* check_tunnel: one that has another name now is somebody else's.
Check ==
    /\ cleaner.at = "check"
    /\ LET found == {t \in cloud.tunnels : t.number = cleaner.tunnel} IN
       \/ /\ \A t \in found : t.name = mem.name
          /\ cleaner' = [cleaner EXCEPT !.exists = found # {}, !.at = "list"] /\ Quiet
       \/ (\E t \in found : t.name # mem.name) /\ Cleans("failed") /\ Quiet
       \/ StepFails
    /\ UNCHANGED <<bindings, files, worker, cloudVars, names>>

\* Variant: any record of the domain is removed.
OfDomain(d) == d # NoDns

\* Only a record with the binding's mark, to the binding's tunnel.
Owned(d) == d # NoDns /\ d.name = mem.name /\ d.tunnel = cleaner.tunnel

AfterDns == IF cleaner.exists THEN "delete" ELSE "cleared"

\* list_dns: what is ours now will be deleted by its number.
List ==
    /\ cleaner.at = "list"
    /\ \/ Owned(cloud.dns) /\ cleaner' = [cleaner EXCEPT !.dns = cloud.dns.id, !.at = "unname"] /\ Quiet
       \/ ~Owned(cloud.dns) /\ Cleans(AfterDns) /\ Quiet
       \/ StepFails
    /\ UNCHANGED <<bindings, files, worker, cloudVars, names>>

\* delete_dns: by its number and no other look at it, however often it is tried; a missing
\* one is fine.
Unname ==
    /\ cleaner.at = "unname"
    /\ \/ /\ cloud' = [cloud EXCEPT !.dns = IF @.id = cleaner.dns THEN NoDns ELSE @]
          /\ \/ cleaner' = [cleaner EXCEPT !.dns = 0, !.at = AfterDns] /\ Quiet
             \/ StepFails
       \/ UNCHANGED cloud /\ StepFails
    /\ UNCHANGED <<bindings, files, worker, late, strays, made, names>>

\* Its connections are cleared and the tunnel deleted; a missing one is fine.
Delete ==
    /\ cleaner.at = "delete"
    /\ \/ /\ cloud' = [cloud EXCEPT !.tunnels = {t \in @ : t.number # cleaner.tunnel}]
          /\ \/ Cleans("cleared") /\ Quiet
             \/ StepFails
       \/ UNCHANGED cloud /\ StepFails
    /\ UNCHANGED <<bindings, files, worker, late, strays, made, names>>

CleanupSave(here, b, there) ==
    /\ cleaner.at = here
    /\ \/ Saved(b) /\ Cleans(there)
       \/ Unsaved(b) /\ (UNCHANGED cleaner \/ Cleans("failed"))
    /\ UNCHANGED <<files, worker, cloudVars, names>>

Cleared == CleanupSave("cleared", [mem EXCEPT !.cleared = TRUE], "files")

RemoveFiles ==
    /\ cleaner.at = "files"
    /\ \/ files' = {} /\ Cleans("complete") /\ Quiet
       \/ files' \in SUBSET files /\ StepFails
    /\ UNCHANGED <<bindings, worker, cloudVars, names>>

Complete == CleanupSave("complete", Unbound, "off")

CleanupFails ==
    /\ cleaner.at = "failed"
    /\ cleaner' = Still
    /\ LET b == [mem EXCEPT !.status = "failed"] IN
       \/ Saved(b)
       \/ mem' = b /\ row' \in {row, b} /\ Trouble
    /\ UNCHANGED <<files, worker, cloudVars, names>>

Cleanup == \/ Wait \/ FindOwned \/ Check \/ List \/ Unname \/ Delete \/ Cleared \/ RemoveFiles \/ Complete
           \/ CleanupFails

------------------------------------------------------------------------------
(* Program, Cloudflare, others                                             *)

\* The program ends and reads its row again (newTunnelManager).
Restart ==
    /\ Trouble
    /\ late' = IF worker.at \in {"make", "record"}
               THEN late \cup {[what |-> worker.at, name |-> mem.name, tunnel |-> mem.tunnel]}
               ELSE late
    /\ LET cleans == row.name # 0 /\ row.removing /\ row.status = "disconnecting"
           connects == row.name # 0 /\ ~cleans /\ row.resume /\ ~row.removing IN
       /\ mem' = IF row.name = 0 \/ cleans THEN row
                 ELSE [row EXCEPT !.status = IF connects THEN "connecting" ELSE "failed"]
       /\ worker' = IF connects THEN [Off EXCEPT !.at = "certificate"] ELSE Off
       /\ cleaner' = IF cleans THEN [Still EXCEPT !.at = "wait"] ELSE Still
    /\ UNCHANGED <<row, files, cloud, strays, made, names>>

\* A request that was abandoned takes effect.
Late == \E r \in late :
    /\ late' = late \ {r}
    /\ IF r.what = "make"
       THEN /\ made + 1 \in Number /\ made' = made + 1
            /\ cloud' = [cloud EXCEPT !.tunnels = @ \cup {Tunnel(made', r.name)}]
            /\ strays' = strays \cup {r.name}
       ELSE /\ cloud' = [cloud EXCEPT !.dns = IF @ = NoDns THEN Record(r.name, r.tunnel) ELSE @]
            /\ strays' = strays \cup {r.name} /\ UNCHANGED made
    /\ UNCHANGED <<bindings, files, worker, cleaner, names>> /\ Quiet

\* The owner of the account deletes the tunnel or renames it; makes a record of the domain,
\* deletes ours, or makes it their own.
Others ==
    /\ Trouble
    /\ \/ \E t \in cloud.tunnels :
              /\ cloud' \in {[cloud EXCEPT !.tunnels = @ \ {t}],
                             [cloud EXCEPT !.tunnels = (@ \ {t}) \cup {Tunnel(t.number, 0)}]}
              /\ strays' = strays \cup {t.name}
       \/ cloud.dns = NoDns /\ cloud' = [cloud EXCEPT !.dns = Foreign(NewId)] /\ UNCHANGED strays
       \/ /\ cloud.dns.name # 0 /\ UNCHANGED strays
          /\ cloud' \in {[cloud EXCEPT !.dns = NoDns], [cloud EXCEPT !.dns = [cloud.dns EXCEPT !.name = 0]]}
    /\ UNCHANGED <<bindings, files, worker, cleaner, late, made, names>>

Next == Connect \/ Disconnect \/ Worker \/ Cleanup \/ Restart \/ Late \/ Others

\* The cleanup and a worker that is cancelled go on.
Ending == (worker.cancelled \/ worker.at = "failed") /\ Worker
Fairness == WF_vars(Cleanup) /\ WF_vars(Ending)

Spec == Init /\ [][Next]_vars /\ Fairness

------------------------------------------------------------------------------
(* Properties                                                              *)

Binding == [status : {"disconnected", "connecting", "authorizing", "connected",
                      "disconnecting", "failed"},
            name : Name, tunnel : Number, dns : BOOLEAN, resume : BOOLEAN,
            provisioned : BOOLEAN, removing : BOOLEAN, cleared : BOOLEAN]

\* The types of the state.
TypeOK ==
    /\ mem \in Binding /\ row \in Binding
    /\ files \subseteq {"certificate", "secret"}
    /\ cloud.tunnels \subseteq [number : Number, name : Name]
    /\ cloud.dns \in [id : 0 .. 2, name : Name, tunnel : Number, by : {"nobody", "us", "others"}]
    /\ worker \in [tunnel : Number, cancelled : BOOLEAN,
                   at : {"off", "certificate", "zone", "resume", "secret", "provision", "find",
                         "make", "found", "dns", "record", "named", "run", "failed"}]
    /\ cleaner \in [tunnel : Number, exists : BOOLEAN, dns : 0 .. 2,
                    at : {"off", "wait", "find", "check", "list", "unname", "delete", "cleared",
                          "files", "complete", "failed"}]
    /\ strays \subseteq Name /\ made \in Number /\ names \in Name
    /\ troubles \in 0 .. MaxTroubles

\* The row knows every tunnel of ours, and the certificate that can remove it
\* is there - unless a request that was abandoned has made it, or somebody has
\* deleted or renamed the tunnel that the row still names.
Known == \A t \in cloud.tunnels :
    t.name \notin strays \cup {0} =>
        /\ row.name = t.name /\ row.provisioned /\ ~row.cleared
        /\ "certificate" \in files

\* A DNS record of ours is not left behind: the row still names its binding.
NoDangling == cloud.dns.name \in {0, row.name} \cup strays

\* A tunnel that the binding names is there until the cleanup removes it, unless somebody else
\* has deleted or renamed it.
Held == ~mem.removing /\ mem.name \notin strays =>
    \A n \in {mem.tunnel, row.tunnel} \ {0} : Tunnel(n, mem.name) \in cloud.tunnels

\* The cleanup works alone.
Alone == cleaner.at \notin {"off", "wait", "failed"} => worker.at = "off"

TunnelSound == TypeOK /\ Known /\ NoDangling /\ Held /\ Alone

\* A record of the domain that is not ours is never changed: one that others have made, be
\* it in the place of one that the cleanup has listed, or ours that they have made their own -
\* unless the cleanup had listed it before (cloudflare.go:280-298).
Theirs(d) == d # NoDns /\ d.name = 0 /\ (d.by = "us" => d.id # cleaner.dns)
ForeignSpared == [][Theirs(cloud.dns) => cloud'.dns = cloud.dns]_vars

\* Disconnecting ends, in a clean state or in a failure the user can retry.
DisconnectEnds == mem.status = "disconnecting" ~> mem.status # "disconnecting"
==============================================================================
