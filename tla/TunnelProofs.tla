---------------------------- MODULE TunnelProofs ----------------------------
(* What runs underneath, for any number of calls, names, endpoints, packets   *)
(* and failures.  The row of the SIP domain knows every tunnel and record     *)
(* that was made for it, a tunnel that it names is there until it is removed, *)
(* but for what others or abandoned requests have done, and records of others *)
(* are spared (DomainTunnel); a call over the modem has its file, and the     *)
(* user's settings are in it (CellularVoice); a hang-up over Wi-Fi that       *)
(* reports success is true (WifiVoice); a call has its media route, what the  *)
(* kernel holds is owned or in doubt, and a clean close has left nothing      *)
(* (TunnelPlane); the ESP bitmap is exact, and the receiver is the filter     *)
(* that remembers every packet (EspWindow).                                   *)
EXTENDS MCTunnels, FiniteSets, TLAPS, FiniteSetTheorems, SequenceTheorems

-----------------------------------------------------------------------------
(* The tunnel of the SIP domain                                              *)

\* A tunnel of a binding that nobody else has touched, and a record like that.
Fresh(t) == t.name \notin strays \cup {0}
OurRecord == cloud.dns.name # 0 /\ cloud.dns.name \notin strays

\* The domain's record.
DomRecords == [id : 0 .. 2, name : Dom!Name, tunnel : Dom!Number, by : {"nobody", "us", "others"}]

DomTypes ==
    /\ Dom!TypeOK
    /\ cloud \in [tunnels : SUBSET [number : Dom!Number, name : Dom!Name], dns : DomRecords]
    /\ late \subseteq [what : {"make", "record"}, name : Dom!Name, tunnel : Dom!Number]

\* What memory and row say of each other.
DomRows ==
    /\ mem.name = 0 => mem = Dom!Unbound
    /\ row.name = 0 => row = Dom!Unbound
    /\ mem.cleared => mem.removing
    /\ row.cleared => row.removing
    /\ row.name # mem.name =>
          \/ row = Dom!Unbound /\ mem.removing
          \/ mem = Dom!Unbound /\ row.tunnel = 0 /\ ~ row.provisioned /\ ~ row.removing
    /\ mem.removing => row.removing \/ row = Dom!Unbound

\* Both bindings know a fresh tunnel, the only one of its name.
DomOurs == \A t \in cloud.tunnels :
    /\ t.number # 0
    /\ Fresh(t) =>
          /\ mem.name = t.name /\ mem.provisioned /\ ~ mem.cleared /\ mem.tunnel \in {0, t.number}
          /\ row.name = t.name /\ row.provisioned /\ ~ row.cleared /\ row.tunnel \in {0, t.number}
          /\ "certificate" \in files
          /\ \A u \in cloud.tunnels : u.name = t.name => u = t

\* Both bindings know a record of ours.
DomRecord == OurRecord =>
    /\ mem.name = cloud.dns.name /\ mem.tunnel = cloud.dns.tunnel /\ mem.provisioned /\ ~ mem.cleared
    /\ row.name = cloud.dns.name /\ row.tunnel = cloud.dns.tunnel /\ row.provisioned /\ ~ row.cleared
    /\ cloud.dns.tunnel # 0

\* The record that the cleanup holds was ours when it was listed.
DomDns ==
    /\ cloud.dns.id = 0 => cloud.dns = Dom!NoDns
    /\ cloud.dns.name # 0 => cloud.dns.by = "us"
    /\ cleaner.at = "unname" => cleaner.dns # 0
    /\ cleaner.dns # 0 /\ cloud.dns.id = cleaner.dns => cloud.dns.by = "us"

\* Until it is removed, the tunnel that a binding names exists.
DomHeld == ~ mem.removing /\ mem.name \notin strays =>
    \A n \in {mem.tunnel, row.tunnel} \ {0} : \E t \in cloud.tunnels : t.name = mem.name /\ t.number = n

\* What the worker has reached.
DomWorks ==
    /\ domWorker.at # "off" =>
          mem.name # 0 /\ row.name = mem.name /\ ~ mem.cleared /\ ~ row.cleared
    /\ mem.removing => domWorker.at = "off" \/ domWorker.cancelled
    /\ domWorker.cancelled => domWorker.at # "off"
    /\ domWorker.at \notin {"off", "certificate", "failed"} => "certificate" \in files
    /\ domWorker.at \in {"find", "make", "found", "dns", "record", "named", "run"} =>
          mem.provisioned /\ row.provisioned
    /\ domWorker.at = "make" /\ mem.name \notin strays =>
          /\ mem.tunnel = 0 /\ row.tunnel = 0
          /\ \A t \in cloud.tunnels : t.name # mem.name
    /\ domWorker.at = "found" =>
          /\ domWorker.tunnel # 0
          /\ mem.name \notin strays =>
                \E t \in cloud.tunnels : t.name = mem.name /\ t.number = domWorker.tunnel
    /\ domWorker.at \in {"dns", "record", "named", "run"} =>
          mem.tunnel # 0 /\ row.tunnel = mem.tunnel

\* What the cleanup has reached.
DomCleans ==
    /\ Dom!Alone
    /\ cleaner.at # "off" => mem.name # 0 /\ mem.removing /\ mem.status = "disconnecting"
    /\ cleaner.at \in {"check", "list", "unname", "delete"} =>
          /\ cleaner.tunnel # 0 /\ mem.tunnel \in {0, cleaner.tunnel}
          /\ \A t \in cloud.tunnels : Fresh(t) => t.number = cleaner.tunnel
    /\ cleaner.at \in {"list", "unname"} /\ ~ cleaner.exists => \A t \in cloud.tunnels : ~ Fresh(t)
    /\ cleaner.at = "unname" /\ OurRecord => cloud.dns.id = cleaner.dns
    /\ cleaner.at \in {"delete", "cleared", "files", "complete"} => ~ OurRecord
    /\ cleaner.at \in {"cleared", "files", "complete"} => \A t \in cloud.tunnels : ~ Fresh(t)

DomInv ==
    /\ DomTypes /\ DomRows /\ DomOurs /\ DomRecord /\ DomDns /\ DomHeld /\ DomWorks /\ DomCleans

\* The states of the worker and of the cleanup.
DomWorkers == [tunnel : Dom!Number, cancelled : BOOLEAN,
               at : {"off", "certificate", "zone", "resume", "secret", "provision", "find",
                     "make", "found", "dns", "record", "named", "run", "failed"}]
DomCleaners == [tunnel : Dom!Number, exists : BOOLEAN, dns : 0 .. 2,
                at : {"off", "wait", "find", "check", "list", "unname", "delete", "cleared", "files", "complete",
                      "failed"}]

\* None is a number and a name.
LEMMA DomZero ==
    ASSUME Dom!DomainConstants
    PROVE  0 \in Dom!Name /\ 0 \in Dom!Number /\ Dom!Unbound \in Dom!Binding
  <1>1. 0 \in Dom!Name /\ 0 \in Dom!Number
    BY DEF Dom!Name, Dom!Number, Dom!DomainConstants
  <1> QED
    BY <1>1 DEF Dom!Binding, Dom!Unbound

\* A worker that begins.
LEMMA DomBegins ==
    ASSUME Dom!DomainConstants, NEW here,
           NEW w, w = [Dom!Off EXCEPT !.at = here]
    PROVE  /\ w.at = here /\ w.tunnel = 0 /\ w.cancelled = FALSE
           /\ here \in {"off", "certificate"} => w \in DomWorkers
  BY DomZero DEF Dom!Off, DomWorkers

\* A cleanup that begins.
LEMMA DomWaits ==
    ASSUME Dom!DomainConstants, NEW here,
           NEW c, c = [Dom!Still EXCEPT !.at = here]
    PROVE  /\ c.at = here /\ c.dns = 0
           /\ here \in {"off", "wait"} => c \in DomCleaners
  <1>1. c.at = here /\ c.dns = 0
    BY DEF Dom!Still
  <1>2. 0 \in 0 .. 2
    OBVIOUS
  <1>3. Dom!Still \in DomCleaners
    BY <1>2, DomZero DEF Dom!Still, DomCleaners
  <1>4. ASSUME here \in {"off", "wait"}
        PROVE  c \in DomCleaners
    BY <1>3, <1>4 DEF DomCleaners
  <1> QED
    BY <1>1, <1>4

\* A worker or a cleanup that ends.
LEMMA DomStops ==
    ASSUME Dom!DomainConstants
    PROVE  /\ Dom!Off.at = "off" /\ Dom!Off.tunnel = 0 /\ Dom!Off.cancelled = FALSE /\ Dom!Off \in DomWorkers
           /\ Dom!Still.at = "off" /\ Dom!Still.dns = 0 /\ Dom!Still \in DomCleaners
  BY DomZero DEF Dom!Off, Dom!Still, DomWorkers, DomCleaners

\* The types, part by part, of a state and of the next one.
DomParts ==
    /\ mem \in Dom!Binding /\ row \in Dom!Binding /\ domWorker \in DomWorkers /\ cleaner \in DomCleaners
    /\ files \subseteq {"certificate", "secret"} /\ strays \subseteq Dom!Name /\ made \in Dom!Number
    /\ names \in Dom!Name /\ domTroubles \in 0 .. DomainTroubles
    /\ cloud \in [tunnels : SUBSET [number : Dom!Number, name : Dom!Name],
                  dns : DomRecords]
    /\ late \subseteq [what : {"make", "record"}, name : Dom!Name, tunnel : Dom!Number]

\* The type invariant is its parts, in a state and in the next one.
LEMMA DomTyped ==
    /\ DomTypes <=> DomParts
    /\ DomTypes' <=> DomParts'
  <1>1. DomTypes <=> DomParts
    BY DEF DomTypes, Dom!TypeOK, DomRecords, DomWorkers, DomCleaners, DomParts
  <1>2. DomTypes' <=> DomParts'
    BY DEF DomTypes, Dom!TypeOK, DomRecords, DomWorkers, DomCleaners, DomParts
  <1> QED
    BY <1>1, <1>2

\* The number of the tunnel with a name.
LEMMA DomId ==
    ASSUME NEW name
    PROVE  /\ Dom!Ours(name) = {} => Dom!Id(name) = 0
           /\ Dom!Ours(name) # {} => \E t \in cloud.tunnels : t.name = name /\ t.number = Dom!Id(name)
           /\ DomParts /\ Dom!DomainConstants => Dom!Id(name) \in Dom!Number
  <1>1. Dom!Ours(name) # {} => \E t \in cloud.tunnels : t.name = name /\ t.number = Dom!Id(name)
    <2>1. ASSUME Dom!Ours(name) # {}
          PROVE  (CHOOSE t \in Dom!Ours(name) : TRUE) \in Dom!Ours(name)
      BY <2>1
    <2> QED
      BY <2>1 DEF Dom!Ours, Dom!Id
  <1>2. Dom!Ours(name) = {} => Dom!Id(name) = 0
    BY DEF Dom!Id
  <1> QED
    BY <1>1, <1>2, DomZero DEF DomParts

\* The user connects.
LEMMA DomConnect ==
    ASSUME DomInv, Dom!DomainConstants, Dom!Connect
    PROVE  DomInv'
  <1> DEFINE b == IF mem.name = 0 THEN [Dom!Unbound EXCEPT !.name = names', !.status = "connecting"]
                  ELSE [mem EXCEPT !.status = "connecting"]
  <1>1. /\ ~ mem.removing /\ domWorker.at = "off" /\ names' \in Dom!Name
        /\ \/ mem' = b /\ row' = b /\ domWorker' = [Dom!Off EXCEPT !.at = "certificate"] /\ UNCHANGED domTroubles
           \/ mem' = mem /\ row' \in {row, b} /\ UNCHANGED domWorker /\ domTroubles' \in 0 .. DomainTroubles
        /\ UNCHANGED <<files, cleaner, cloud, late, strays, made>>
    BY DEF DomInv, DomTypes, Dom!TypeOK, Dom!Connect, Dom!Saved, Dom!Unsaved, Dom!Quiet, Dom!Trouble, Dom!cloudVars, Dom!Name,
           Dom!DomainConstants
  <1>2. /\ b \in Dom!Binding /\ b.name # 0 /\ b.status = "connecting" /\ ~ b.removing
        /\ ~ b.cleared /\ b.tunnel = mem.tunnel /\ b.provisioned = mem.provisioned
        /\ mem.name # 0 => b.name = mem.name
        /\ mem.name = 0 => mem = Dom!Unbound /\ b.tunnel = 0 /\ ~ b.provisioned
    <2>1. CASE mem.name = 0
      <3>1. names' \in Dom!Name /\ names' # 0 /\ mem = Dom!Unbound
        BY <1>1, <2>1 DEF DomInv, DomTypes, DomRows, Dom!TypeOK, Dom!Name, Dom!DomainConstants, Dom!Connect
      <3>2. b = [Dom!Unbound EXCEPT !.name = names', !.status = "connecting"]
        BY <2>1
      <3> QED
        BY <2>1, <3>1, <3>2, DomZero DEF Dom!Binding, Dom!Unbound
    <2>2. CASE mem.name # 0
      BY <1>1, <2>2 DEF DomInv, DomTypes, DomRows, Dom!TypeOK, Dom!Binding
    <2> QED
      BY <2>1, <2>2
  <1> HIDE DEF b
  <1>3. /\ [Dom!Off EXCEPT !.at = "certificate"] \in DomWorkers /\ [Dom!Off EXCEPT !.at = "certificate"].at = "certificate"
        /\ DomTypes
    BY DomBegins DEF DomInv
  <1>4. DomTypes'
    BY <1>1, <1>2, <1>3, DomTyped DEF DomParts
  <1>5. cleaner.at = "off"
    BY <1>1 DEF DomInv, DomCleans
  <1>6. DomRows'
    BY <1>1, <1>2 DEF DomInv, DomTypes, Dom!TypeOK, DomRows, Dom!Unbound
  <1>7. DomOurs'
    BY <1>1, <1>2 DEF DomInv, DomOurs, DomRows, Fresh, Dom!Unbound
  <1>8. DomRecord'
    BY <1>1, <1>2 DEF DomInv, DomRecord, DomRows, OurRecord, Dom!Unbound
  <1>9. DomHeld'
    <2>1. CASE mem.name = 0
      <3>1. mem'.tunnel = 0 /\ row'.tunnel = 0
        BY <1>1, <1>2, <2>1 DEF DomInv, DomRows, Dom!Unbound
      <3> QED
        BY <3>1 DEF DomHeld
    <2>2. CASE mem.name # 0
      <3>1. mem'.name = mem.name /\ mem'.tunnel = mem.tunnel /\ row'.tunnel \in {row.tunnel, mem.tunnel}
        BY <1>1, <1>2, <2>2
      <3> QED
        BY <1>1, <3>1 DEF DomInv, DomHeld
    <2> QED
      BY <2>1, <2>2
  <1>10. DomWorks'
    BY <1>1, <1>2, <1>3 DEF DomInv, DomWorks
  <1>11. DomCleans'
    BY <1>1, <1>2, <1>5 DEF DomInv, DomCleans, Dom!Alone
  <1>12. DomDns'
    BY <1>1 DEF DomInv, DomDns
  <1> QED
    BY <1>4, <1>6, <1>7, <1>8, <1>9, <1>10, <1>11, <1>12 DEF DomInv

\* The user disconnects.
LEMMA DomDisconnect ==
    ASSUME DomInv, Dom!DomainConstants, Dom!Disconnect
    PROVE  DomInv'
  <1> DEFINE b == [mem EXCEPT !.status = "disconnecting", !.resume = FALSE, !.removing = TRUE]
             w == [domWorker EXCEPT !.cancelled = @ \/ domWorker.at # "off"]
             c == [Dom!Still EXCEPT !.at = "wait"]
  <1>1. /\ mem.status \notin {"disconnected", "disconnecting"}
        /\ \/ mem' = b /\ row' = b /\ domWorker' = w /\ cleaner' = c /\ UNCHANGED domTroubles
           \/ mem' = mem /\ row' \in {row, b} /\ UNCHANGED <<domWorker, cleaner>> /\ domTroubles' \in 0 .. DomainTroubles
        /\ UNCHANGED <<files, cloud, late, strays, made, names>>
    BY DEF DomInv, DomTypes, Dom!TypeOK, Dom!Disconnect, Dom!Saved, Dom!Unsaved, Dom!Quiet, Dom!Trouble, Dom!cloudVars,
           Dom!Cancelled, Dom!DomainConstants
  <1>2. /\ b \in Dom!Binding /\ b.name = mem.name /\ b.status = "disconnecting" /\ b.removing /\ b.cleared = mem.cleared
        /\ b.tunnel = mem.tunnel /\ b.provisioned = mem.provisioned
        /\ mem.name # 0 /\ cleaner.at = "off"
    <2>1. mem.name # 0 /\ cleaner.at = "off"
      BY <1>1 DEF DomInv, DomRows, DomCleans, Dom!Unbound
    <2> QED
      BY <2>1 DEF DomInv, DomTypes, Dom!TypeOK, Dom!Binding
  <1>3. /\ w \in DomWorkers
        /\ w.at = domWorker.at /\ w.tunnel = domWorker.tunnel /\ (w.at # "off" <=> w.cancelled)
    BY DomTyped DEF DomInv, DomParts, DomWorkers, DomWorks
  <1>4. c \in DomCleaners /\ c.at = "wait" /\ c.dns = 0 /\ DomTypes
    BY DomWaits DEF DomInv
  <1> HIDE DEF b, w, c
  <1>5. DomTypes'
    BY <1>1, <1>2, <1>3, <1>4, DomTyped DEF DomParts
  <1>6. DomRows'
    BY <1>1, <1>2 DEF DomInv, DomRows
  <1>7. DomOurs'
    BY <1>1, <1>2 DEF DomInv, DomOurs, Fresh
  <1>8. DomRecord'
    BY <1>1, <1>2 DEF DomInv, DomRecord, OurRecord
  <1>9. DomHeld'
    <2>1. mem'.name = mem.name /\ mem'.tunnel = mem.tunnel /\ row'.tunnel \in {row.tunnel, mem.tunnel}
      BY <1>1, <1>2
    <2>2. ~ mem'.removing => ~ mem.removing
      BY <1>1, <1>2
    <2> QED
      BY <1>1, <2>1, <2>2 DEF DomInv, DomHeld
  <1>10. DomWorks'
    BY <1>1, <1>2, <1>3 DEF DomInv, DomWorks
  <1>11. DomCleans'
    BY <1>1, <1>2, <1>4 DEF DomInv, DomCleans, Dom!Alone
  <1>12. DomDns'
    BY <1>1, <1>4 DEF DomInv, DomDns
  <1> QED
    BY <1>5, <1>6, <1>7, <1>8, <1>9, <1>10, <1>11, <1>12 DEF DomInv

\* The connection will be taken up again.
LEMMA DomResume ==
    ASSUME DomInv, Dom!DomainConstants, Dom!Resume
    PROVE  DomInv'
  <1> DEFINE b == IF mem.removing THEN mem ELSE [mem EXCEPT !.resume = TRUE, !.status = "connecting"]
             w == [domWorker EXCEPT !.at = "secret"]
             f == [domWorker EXCEPT !.at = "failed"]
  <1>1. /\ domWorker.at = "resume"
        /\ \/ mem' = b /\ row' = b /\ domWorker' = w /\ UNCHANGED domTroubles
           \/ mem' = mem /\ row' \in {row, b} /\ domWorker' = f /\ domTroubles' \in 0 .. DomainTroubles
        /\ UNCHANGED <<files, cleaner, cloud, late, strays, made, names>>
    BY DEF DomInv, DomTypes, Dom!TypeOK, Dom!Resume, Dom!Writes, Dom!Saved, Dom!Unsaved, Dom!Quiet, Dom!Trouble, Dom!cloudVars,
           Dom!Works, Dom!DomainConstants
  <1>2. /\ b \in Dom!Binding /\ b.name = mem.name /\ b.removing = mem.removing /\ b.cleared = mem.cleared
        /\ b.tunnel = mem.tunnel /\ b.provisioned = mem.provisioned /\ (mem.removing => b.status = mem.status)
        /\ mem.name # 0 /\ row.name = mem.name
    BY <1>1 DEF DomInv, DomTypes, DomWorks, Dom!TypeOK, Dom!Binding
  <1>3. /\ {w, f} \subseteq DomWorkers
        /\ w.at = "secret" /\ f.at = "failed" /\ w.cancelled = domWorker.cancelled /\ f.cancelled = domWorker.cancelled
    BY DomTyped DEF DomInv, DomParts, DomWorkers
  <1> HIDE DEF b, w, f
  <1>5. DomTypes'
    <2>1. DomTypes
      BY DEF DomInv
    <2> QED
      BY <1>1, <1>2, <1>3, <2>1, DomTyped DEF DomParts
  <1>6. DomRows'
    BY <1>1, <1>2 DEF DomInv, DomRows
  <1>7. DomOurs'
    BY <1>1, <1>2 DEF DomInv, DomOurs, Fresh
  <1>8. DomRecord'
    BY <1>1, <1>2 DEF DomInv, DomRecord, OurRecord
  <1>9. DomHeld'
    <2>1. mem'.name = mem.name /\ mem'.tunnel = mem.tunnel /\ row'.tunnel \in {row.tunnel, mem.tunnel}
          /\ mem'.removing = mem.removing
      BY <1>1, <1>2
    <2> QED
      BY <1>1, <2>1 DEF DomInv, DomHeld
  <1>10. DomWorks'
    BY <1>1, <1>2, <1>3 DEF DomInv, DomWorks
  <1>11. DomCleans'
    BY <1>1, <1>2, <1>3 DEF DomInv, DomCleans, Dom!Alone
  <1>12. DomDns'
    BY <1>1 DEF DomInv, DomDns
  <1> QED
    BY <1>5, <1>6, <1>7, <1>8, <1>9, <1>10, <1>11, <1>12 DEF DomInv

\* The worker looks for its certificate.
LEMMA DomCertificate ==
    ASSUME DomInv, Dom!DomainConstants, Dom!Certificate
    PROVE  DomInv'
  <1>1. DomTypes'
    BY DEF DomInv, DomTypes, DomRecords, DomWorks, Dom!TypeOK, Dom!Binding, Dom!Name, Dom!Number, Dom!DomainConstants, Dom!Certificate,
           Dom!WorkerAt, Dom!Works, Dom!Quiet, Dom!Trouble, Dom!cloudVars
  <1>2. DomRows'
    BY DEF DomInv, DomTypes, DomRows, DomWorks, DomCleans, Dom!TypeOK, Dom!Binding, Dom!Certificate, Dom!WorkerAt, Dom!Works, Dom!Quiet,
           Dom!Trouble, Dom!cloudVars
  <1>3. DomOurs'
    BY DEF DomInv, DomTypes, DomRows, DomOurs, DomWorks, DomCleans, Dom!TypeOK, Dom!Binding, Fresh, Dom!Certificate, Dom!WorkerAt,
           Dom!Works, Dom!Quiet, Dom!Trouble, Dom!cloudVars
  <1>4. DomRecord'
    BY DEF DomInv, DomTypes, DomRows, DomRecord, DomWorks, DomCleans, Dom!TypeOK, Dom!Binding, OurRecord, Dom!Certificate, Dom!WorkerAt,
           Dom!Works, Dom!Quiet, Dom!Trouble, Dom!cloudVars
  <1>5. DomHeld'
    BY DEF DomInv, DomTypes, DomRecords, DomRows, DomOurs, DomRecord, DomDns, DomHeld, DomWorks, DomCleans, Dom!TypeOK, Dom!Binding,
           Dom!Name, Dom!Number, Dom!DomainConstants, Dom!Alone, Fresh, OurRecord, Dom!Certificate, Dom!WorkerAt,
           Dom!Works, Dom!Quiet, Dom!Trouble, Dom!cloudVars
  <1>6. DomWorks'
    BY DEF DomInv, DomTypes, DomRows, DomWorks, DomCleans, Dom!TypeOK, Dom!Binding, Dom!Certificate, Dom!WorkerAt, Dom!Works, Dom!Quiet,
           Dom!Trouble, Dom!cloudVars
  <1>7. DomCleans'
    BY DEF DomInv, DomTypes, DomRows, DomWorks, DomCleans, Dom!TypeOK, Dom!Binding, Dom!Alone, Fresh, OurRecord, Dom!Certificate,
           Dom!WorkerAt, Dom!Works, Dom!Quiet, Dom!Trouble, Dom!cloudVars
  <1>8. DomDns'
    BY DEF DomInv, DomTypes, DomDns, DomWorks, Dom!TypeOK, Dom!Binding, Dom!Certificate, Dom!WorkerAt, Dom!Works, Dom!Quiet, Dom!Trouble,
           Dom!cloudVars
  <1> QED
    BY <1>1, <1>2, <1>3, <1>4, <1>5, <1>6, <1>7, <1>8 DEF DomInv

\* The worker asks for the zone.
LEMMA DomZone ==
    ASSUME DomInv, Dom!DomainConstants, Dom!Asks("zone", "resume")
    PROVE  DomInv'
  <1>1. DomTypes'
    BY DEF DomInv, DomTypes, DomRecords, DomWorks, Dom!TypeOK, Dom!Binding, Dom!Name, Dom!Number, Dom!DomainConstants, Dom!Asks,
           Dom!WorkerAt, Dom!Works, Dom!Fails, Dom!Quiet, Dom!Trouble, Dom!cloudVars, Dom!bindings
  <1>2. DomRows'
    BY DEF DomInv, DomRows, Dom!Asks, Dom!WorkerAt, Dom!Works, Dom!Fails, Dom!Quiet, Dom!Trouble, Dom!cloudVars,
           Dom!bindings
  <1>3. DomOurs'
    BY DEF DomInv, DomTypes, DomRows, DomOurs, DomWorks, DomCleans, Dom!TypeOK, Dom!Binding, Fresh, Dom!Asks, Dom!WorkerAt, Dom!Works,
           Dom!Fails, Dom!Quiet, Dom!Trouble, Dom!cloudVars, Dom!bindings
  <1>4. DomRecord'
    BY DEF DomInv, DomRecord, OurRecord, Dom!Asks, Dom!WorkerAt, Dom!Works, Dom!Fails, Dom!Quiet, Dom!Trouble,
           Dom!cloudVars, Dom!bindings
  <1>5. DomHeld'
    BY DEF DomInv, DomHeld, Dom!Asks, Dom!WorkerAt, Dom!Works, Dom!Fails, Dom!Quiet, Dom!Trouble, Dom!cloudVars,
           Dom!bindings
  <1>6. DomWorks'
    BY DEF DomInv, DomTypes, DomRows, DomWorks, DomCleans, Dom!TypeOK, Dom!Binding, Dom!Asks, Dom!WorkerAt, Dom!Works, Dom!Fails,
           Dom!Quiet, Dom!Trouble, Dom!cloudVars, Dom!bindings
  <1>7. DomCleans'
    BY DEF DomInv, DomTypes, DomRows, DomWorks, DomCleans, Dom!TypeOK, Dom!Binding, Dom!Alone, Fresh, OurRecord, Dom!Asks, Dom!WorkerAt,
           Dom!Works, Dom!Fails, Dom!Quiet, Dom!Trouble, Dom!cloudVars, Dom!bindings
  <1>8. DomDns'
    BY DEF DomInv, DomTypes, DomDns, DomWorks, Dom!TypeOK, Dom!Binding, Dom!Asks, Dom!WorkerAt, Dom!Works, Dom!Fails, Dom!Quiet,
           Dom!Trouble, Dom!cloudVars, Dom!bindings
  <1> QED
    BY <1>1, <1>2, <1>3, <1>4, <1>5, <1>6, <1>7, <1>8 DEF DomInv

\* The secret is written.
LEMMA DomSecret ==
    ASSUME DomInv, Dom!DomainConstants, Dom!Secret
    PROVE  DomInv'
  <1>1. DomTypes'
    BY DEF DomInv, DomTypes, DomRecords, DomWorks, Dom!TypeOK, Dom!Binding, Dom!Name, Dom!Number, Dom!DomainConstants, Dom!Secret,
           Dom!WorkerAt, Dom!Works, Dom!Quiet, Dom!cloudVars, Dom!bindings
  <1>2. DomRows'
    BY DEF DomInv, DomRows, Dom!Secret, Dom!WorkerAt, Dom!Works, Dom!Quiet, Dom!cloudVars, Dom!bindings
  <1>3. DomOurs'
    BY DEF DomInv, DomTypes, DomRows, DomOurs, DomWorks, DomCleans, Dom!TypeOK, Dom!Binding, Fresh, Dom!Secret, Dom!WorkerAt, Dom!Works,
           Dom!Quiet, Dom!cloudVars, Dom!bindings
  <1>4. DomRecord'
    BY DEF DomInv, DomRecord, OurRecord, Dom!Secret, Dom!WorkerAt, Dom!Works, Dom!Quiet, Dom!cloudVars, Dom!bindings
  <1>5. DomHeld'
    BY DEF DomInv, DomHeld, Dom!Secret, Dom!WorkerAt, Dom!Works, Dom!Quiet, Dom!cloudVars, Dom!bindings
  <1>6. DomWorks'
    BY DEF DomInv, DomTypes, DomRows, DomWorks, DomCleans, Dom!TypeOK, Dom!Binding, Dom!Secret, Dom!WorkerAt, Dom!Works, Dom!Quiet,
           Dom!cloudVars, Dom!bindings
  <1>7. DomCleans'
    BY DEF DomInv, DomTypes, DomRows, DomWorks, DomCleans, Dom!TypeOK, Dom!Binding, Dom!Alone, Fresh, OurRecord, Dom!Secret, Dom!WorkerAt,
           Dom!Works, Dom!Quiet, Dom!cloudVars, Dom!bindings
  <1>8. DomDns'
    BY DEF DomInv, DomTypes, DomDns, DomWorks, Dom!TypeOK, Dom!Binding, Dom!Secret, Dom!WorkerAt, Dom!Works, Dom!Quiet, Dom!cloudVars,
           Dom!bindings
  <1> QED
    BY <1>1, <1>2, <1>3, <1>4, <1>5, <1>6, <1>7, <1>8 DEF DomInv

\* The row says that there may be resources.
LEMMA DomProvision ==
    ASSUME DomInv, Dom!DomainConstants, Dom!Provision
    PROVE  DomInv'
  <1>1. DomTypes'
    <2> DEFINE b == [mem EXCEPT !.provisioned = TRUE]
    <2>1. DomParts
      BY DomTyped DEF DomInv
    <2>2. b \in Dom!Binding
      BY <2>1, DomZero DEF DomParts, Dom!Binding
    <2>3. \A there \in {"find", "failed"} : [domWorker EXCEPT !.at = there] \in DomWorkers
      BY <2>1 DEF DomParts, DomWorkers
    <2>4. /\ mem' \in {mem, b} /\ row' \in {row, b} /\ domWorker' \in {[domWorker EXCEPT !.at = there] : there \in {"find", "failed"}}
          /\ domTroubles' \in 0 .. DomainTroubles /\ UNCHANGED <<files, cleaner, cloud, late, strays, made, names>>
      BY <2>1 DEF DomParts, Dom!DomainConstants, Dom!Provision, Dom!Writes, Dom!Saved, Dom!Unsaved, Dom!Works, Dom!Quiet, Dom!Trouble, Dom!cloudVars
    <2> HIDE DEF b
    <2>5. domWorker' \in DomWorkers
      BY <2>1, <2>3, <2>4 DEF DomParts
    <2> QED
      BY <2>1, <2>2, <2>4, <2>5, DomTyped DEF DomParts
  <1>2. DomRows'
    BY DEF DomInv, DomTypes, DomRows, DomWorks, DomCleans, Dom!TypeOK, Dom!Binding, Dom!Provision, Dom!Writes, Dom!Saved, Dom!Unsaved,
           Dom!Works, Dom!Quiet, Dom!Trouble, Dom!cloudVars
  <1>3. DomOurs'
    BY DEF DomInv, DomTypes, DomRows, DomOurs, DomWorks, DomCleans, Dom!TypeOK, Dom!Binding, Fresh, Dom!Provision, Dom!Writes, Dom!Saved,
           Dom!Unsaved, Dom!Works, Dom!Quiet, Dom!Trouble, Dom!cloudVars
  <1>4. DomRecord'
    BY DEF DomInv, DomTypes, DomRows, DomRecord, DomWorks, DomCleans, Dom!TypeOK, Dom!Binding, OurRecord, Dom!Provision, Dom!Writes,
           Dom!Saved, Dom!Unsaved, Dom!Works, Dom!Quiet, Dom!Trouble, Dom!cloudVars
  <1>5. DomHeld'
    BY DEF DomInv, DomTypes, DomRecords, DomRows, DomOurs, DomRecord, DomDns, DomHeld, DomWorks, DomCleans, Dom!TypeOK, Dom!Binding,
           Dom!Name, Dom!Number, Dom!DomainConstants, Dom!Alone, Fresh, OurRecord, Dom!Provision, Dom!Writes,
           Dom!Saved, Dom!Unsaved, Dom!Works, Dom!Quiet, Dom!Trouble, Dom!cloudVars
  <1>6. DomWorks'
    BY DEF DomInv, DomTypes, DomRows, DomWorks, DomCleans, Dom!TypeOK, Dom!Binding, Dom!Provision, Dom!Writes, Dom!Saved, Dom!Unsaved,
           Dom!Works, Dom!Quiet, Dom!Trouble, Dom!cloudVars
  <1>7. DomCleans'
    BY DEF DomInv, DomTypes, DomRows, DomWorks, DomCleans, Dom!TypeOK, Dom!Binding, Dom!Alone, Fresh, OurRecord, Dom!Provision, Dom!Writes,
           Dom!Saved, Dom!Unsaved, Dom!Works, Dom!Quiet, Dom!Trouble, Dom!cloudVars
  <1>8. DomDns'
    BY DEF DomInv, DomTypes, DomDns, DomWorks, Dom!TypeOK, Dom!Binding, Dom!Provision, Dom!Writes, Dom!Saved, Dom!Unsaved, Dom!Works,
           Dom!Quiet, Dom!Trouble, Dom!cloudVars
  <1> QED
    BY <1>1, <1>2, <1>3, <1>4, <1>5, <1>6, <1>7, <1>8 DEF DomInv

\* The tunnel of the name is looked for.
LEMMA DomFindTunnel ==
    ASSUME DomInv, Dom!DomainConstants, Dom!FindTunnel
    PROVE  DomInv'
  <1>1. DomTypes'
    <2>1. DomParts /\ Dom!Id(mem.name) \in Dom!Number
      BY DomTyped, DomId DEF DomInv, DomParts, Dom!Binding
    <2>2. \A there \in {"make", "found", "failed", "certificate"} :
             /\ [domWorker EXCEPT !.at = there] \in DomWorkers
             /\ [domWorker EXCEPT !.tunnel = Dom!Id(mem.name), !.at = there] \in DomWorkers
      BY <2>1 DEF DomParts, DomWorkers
    <2>3. domWorker' \in DomWorkers
      BY <2>2 DEF Dom!FindTunnel, Dom!Fails, Dom!Works
    <2>4. domTroubles' \in 0 .. DomainTroubles /\ UNCHANGED <<mem, row, files, cleaner, cloud, late, strays, made, names>>
      BY <2>1 DEF DomParts, Dom!FindTunnel, Dom!Quiet, Dom!Trouble, Dom!cloudVars, Dom!bindings, Dom!DomainConstants
    <2> QED
      BY <2>1, <2>3, <2>4, DomTyped DEF DomParts
  <1>2. DomRows'
    BY DEF DomInv, DomRows, Dom!FindTunnel, Dom!WorkerAt, Dom!Works, Dom!Fails, Dom!Quiet, Dom!Trouble, Dom!cloudVars,
           Dom!bindings, Dom!Ours, Dom!Id
  <1>3. DomOurs'
    BY DEF DomInv, DomTypes, DomRows, DomOurs, DomWorks, DomCleans, Dom!TypeOK, Dom!Binding, Fresh, Dom!FindTunnel, Dom!WorkerAt,
           Dom!Works, Dom!Fails, Dom!Quiet, Dom!Trouble, Dom!cloudVars, Dom!bindings, Dom!Ours, Dom!Id
  <1>4. DomRecord'
    BY DEF DomInv, DomRecord, OurRecord, Dom!FindTunnel, Dom!WorkerAt, Dom!Works, Dom!Fails, Dom!Quiet, Dom!Trouble,
           Dom!cloudVars, Dom!bindings, Dom!Ours, Dom!Id
  <1>5. DomHeld'
    BY DEF DomInv, DomHeld, Dom!FindTunnel, Dom!WorkerAt, Dom!Works, Dom!Fails, Dom!Quiet, Dom!Trouble, Dom!cloudVars,
           Dom!bindings, Dom!Ours, Dom!Id
  <1>6. DomWorks'
    <2> DEFINE n == Dom!Id(mem.name)
    <2>1. DomParts /\ domWorker.at = "find" /\ ~ domWorker.cancelled /\ domWorker \in DomWorkers
      BY DomTyped DEF DomInv, DomParts, Dom!FindTunnel, Dom!WorkerAt
    <2>2. UNCHANGED <<mem, row, files, cloud, strays>>
      BY DEF Dom!FindTunnel, Dom!cloudVars, Dom!bindings
    <2>3. CASE Dom!Ours(mem.name) = {} /\ domWorker' = [domWorker EXCEPT !.tunnel = n, !.at = "make"]
      <3>1. domWorker'.at = "make" /\ ~ domWorker'.cancelled /\ \A t \in cloud.tunnels : t.name # mem.name
        BY <2>1, <2>3 DEF DomWorkers, Dom!Ours
      <3>2. ~ mem.removing /\ (mem.name \notin strays => mem.tunnel = 0 /\ row.tunnel = 0)
        BY <2>1, <3>1 DEF DomInv, DomWorks, DomHeld
      <3> QED
        BY <2>1, <2>2, <3>1, <3>2 DEF DomInv, DomWorks
    <2>4. CASE Dom!Ours(mem.name) # {} /\ domWorker' = [domWorker EXCEPT !.tunnel = n, !.at = "found"]
      <3>1. domWorker'.at = "found" /\ domWorker'.tunnel = n /\ domWorker'.cancelled = domWorker.cancelled
        BY <2>1, <2>4 DEF DomWorkers
      <3>2. PICK t \in cloud.tunnels : t.name = mem.name /\ t.number = n
        BY <2>4, DomId
      <3>3. n # 0
        BY <3>2 DEF DomInv, DomOurs
      <3> HIDE DEF n
      <3> QED
        BY <2>1, <2>2, <3>1, <3>2, <3>3 DEF DomInv, DomWorks
    <2>5. CASE \E there \in {"failed", "certificate"} : domWorker' = [domWorker EXCEPT !.at = there]
      <3>1. domWorker'.at \in {"failed", "certificate"} /\ domWorker'.cancelled = domWorker.cancelled
        BY <2>1, <2>5 DEF DomWorkers
      <3> QED
        BY <2>1, <2>2, <3>1 DEF DomInv, DomWorks
    <2> QED
      BY <2>3, <2>4, <2>5 DEF Dom!FindTunnel, Dom!Fails, Dom!Works
  <1>7. DomCleans'
    BY DEF DomInv, DomTypes, DomRows, DomWorks, DomCleans, Dom!TypeOK, Dom!Binding, Dom!Alone, Fresh, OurRecord, Dom!FindTunnel,
           Dom!WorkerAt, Dom!Works, Dom!Fails, Dom!Quiet, Dom!Trouble, Dom!cloudVars, Dom!bindings, Dom!Ours, Dom!Id
  <1>8. DomDns'
    BY DEF DomInv, DomTypes, DomDns, DomWorks, Dom!TypeOK, Dom!Binding, Dom!FindTunnel, Dom!WorkerAt, Dom!Works, Dom!Fails, Dom!Quiet,
           Dom!Trouble, Dom!cloudVars, Dom!bindings, Dom!Ours, Dom!Id
  <1> QED
    BY <1>1, <1>2, <1>3, <1>4, <1>5, <1>6, <1>7, <1>8 DEF DomInv

\* A tunnel is made.
LEMMA DomMakeTunnel ==
    ASSUME DomInv, Dom!DomainConstants, Dom!MakeTunnel
    PROVE  DomInv'
  <1>1. DomTypes'
    <2>1. DomParts
      BY DomTyped DEF DomInv
    <2>2. \A there \in {"failed", "certificate"} : [domWorker EXCEPT !.at = there] \in DomWorkers
      BY <2>1 DEF DomParts, DomWorkers
    <2>3. \A m \in Dom!Number : [domWorker EXCEPT !.at = "found", !.tunnel = m] \in DomWorkers
      BY <2>1 DEF DomParts, DomWorkers
    <2>4. domWorker' \in DomWorkers /\ made' \in Dom!Number
      BY Zenon, <2>1, <2>2, <2>3 DEF DomParts, Dom!MakeTunnel, Dom!Fails, Dom!Works
    <2>5. cloud' \in [tunnels : SUBSET [number : Dom!Number, name : Dom!Name], dns : DomRecords]
      BY <2>1, <2>4 DEF DomParts, Dom!Binding, Dom!MakeTunnel, Dom!Tunnel
    <2>6. domTroubles' \in 0 .. DomainTroubles /\ UNCHANGED <<mem, row, files, cleaner, late, strays, names>>
      BY <2>1 DEF DomParts, Dom!MakeTunnel, Dom!Quiet, Dom!Trouble, Dom!bindings, Dom!DomainConstants
    <2> QED
      BY <2>1, <2>4, <2>5, <2>6, DomTyped DEF DomParts
  <1>2. DomRows'
    BY DEF DomInv, DomTypes, DomRows, DomWorks, DomCleans, Dom!TypeOK, Dom!Binding, Dom!MakeTunnel, Dom!WorkerAt, Dom!Works, Dom!Fails,
           Dom!Quiet, Dom!Trouble, Dom!Tunnel, Dom!bindings
  <1>3. DomOurs'
    BY DEF DomInv, DomTypes, DomRecords, DomRows, DomOurs, DomRecord, DomDns, DomHeld, DomWorks, DomCleans, Dom!TypeOK, Dom!Binding,
           Dom!Name, Dom!Number, Dom!DomainConstants, Dom!Alone, Fresh, OurRecord, Dom!MakeTunnel, Dom!WorkerAt,
           Dom!Works, Dom!Fails, Dom!Quiet, Dom!Trouble, Dom!Tunnel, Dom!bindings
  <1>4. DomRecord'
    BY DEF DomInv, DomTypes, DomRows, DomRecord, DomWorks, DomCleans, Dom!TypeOK, Dom!Binding, OurRecord, Dom!MakeTunnel, Dom!WorkerAt,
           Dom!Works, Dom!Fails, Dom!Quiet, Dom!Trouble, Dom!Tunnel, Dom!bindings
  <1>5. DomHeld'
    BY DEF DomInv, DomTypes, DomRows, DomHeld, DomWorks, DomCleans, Dom!TypeOK, Dom!Binding, Dom!MakeTunnel, Dom!WorkerAt, Dom!Works,
           Dom!Fails, Dom!Quiet, Dom!Trouble, Dom!Tunnel, Dom!bindings
  <1>6. DomWorks'
    <2>1. DomParts /\ domWorker.at = "make" /\ domWorker \in DomWorkers
      BY DomTyped DEF DomInv, DomParts, Dom!MakeTunnel, Dom!WorkerAt
    <2>2. UNCHANGED <<mem, row, files, strays>>
      BY DEF Dom!MakeTunnel, Dom!bindings
    <2>3. CASE /\ made' = made + 1 /\ cloud' = [cloud EXCEPT !.tunnels = @ \cup {Dom!Tunnel(made', mem.name)}]
               /\ domWorker' = [domWorker EXCEPT !.at = "found", !.tunnel = made']
      <3>1. domWorker'.at = "found" /\ domWorker'.tunnel = made' /\ domWorker'.cancelled = domWorker.cancelled
        BY <2>1, <2>3 DEF DomWorkers
      <3>2. Dom!Tunnel(made', mem.name) \in cloud'.tunnels
        BY <2>1, <2>3 DEF DomParts
      <3>3. made' # 0
        BY <2>1, <2>3 DEF DomParts, Dom!Number, Dom!DomainConstants
      <3>4. Dom!Tunnel(made', mem.name).name = mem.name /\ Dom!Tunnel(made', mem.name).number = made'
        BY DEF Dom!Tunnel
      <3>5. \E t \in cloud'.tunnels : t.name = mem.name /\ t.number = made'
        BY <3>2, <3>4
      <3> QED
        BY <2>1, <2>2, <3>1, <3>3, <3>5 DEF DomInv, DomWorks
    <2>4. CASE \E there \in {"failed", "certificate"} : domWorker' = [domWorker EXCEPT !.at = there]
      <3>1. domWorker'.at \in {"failed", "certificate"} /\ domWorker'.cancelled = domWorker.cancelled
        BY <2>1, <2>4 DEF DomWorkers
      <3> QED
        BY <2>1, <2>2, <3>1 DEF DomInv, DomWorks
    <2> QED
      BY <2>3, <2>4 DEF Dom!MakeTunnel, Dom!Fails, Dom!Works
  <1>7. DomCleans'
    BY DEF DomInv, DomTypes, DomRows, DomWorks, DomCleans, Dom!TypeOK, Dom!Binding, Dom!Alone, Fresh, OurRecord, Dom!MakeTunnel,
           Dom!WorkerAt, Dom!Works, Dom!Fails, Dom!Quiet, Dom!Trouble, Dom!Tunnel, Dom!bindings
  <1>8. DomDns'
    BY DEF DomInv, DomTypes, DomDns, DomWorks, Dom!TypeOK, Dom!Binding, Dom!MakeTunnel, Dom!WorkerAt, Dom!Works, Dom!Fails, Dom!Quiet,
           Dom!Trouble, Dom!Tunnel, Dom!bindings
  <1> QED
    BY <1>1, <1>2, <1>3, <1>4, <1>5, <1>6, <1>7, <1>8 DEF DomInv

\* The tunnel is entered.
LEMMA DomFound ==
    ASSUME DomInv, Dom!DomainConstants, Dom!Found
    PROVE  DomInv'
  <1>1. DomTypes'
    BY DEF DomInv, DomTypes, DomRecords, DomWorks, Dom!TypeOK, Dom!Binding, Dom!Name, Dom!Number, Dom!DomainConstants, Dom!Found,
           Dom!Writes, Dom!Saved, Dom!Unsaved, Dom!Works, Dom!Quiet, Dom!Trouble, Dom!cloudVars
  <1>2. DomRows'
    BY DEF DomInv, DomTypes, DomRows, DomWorks, DomCleans, Dom!TypeOK, Dom!Binding, Dom!Found, Dom!Writes, Dom!Saved, Dom!Unsaved,
           Dom!Works, Dom!Quiet, Dom!Trouble, Dom!cloudVars
  <1>3. DomOurs'
    BY DEF DomInv, DomTypes, DomRows, DomOurs, DomWorks, DomCleans, Dom!TypeOK, Dom!Binding, Fresh, Dom!Found, Dom!Writes, Dom!Saved,
           Dom!Unsaved, Dom!Works, Dom!Quiet, Dom!Trouble, Dom!cloudVars
  <1>4. DomRecord'
    BY DEF DomInv, DomTypes, DomRecords, DomRows, DomOurs, DomRecord, DomDns, DomHeld, DomWorks, DomCleans, Dom!TypeOK, Dom!Binding,
           Dom!Name, Dom!Number, Dom!DomainConstants, Dom!Alone, Fresh, OurRecord, Dom!Found, Dom!Writes, Dom!Saved,
           Dom!Unsaved, Dom!Works, Dom!Quiet, Dom!Trouble, Dom!cloudVars
  <1>5. DomHeld'
    BY DEF DomInv, DomTypes, DomRecords, DomRows, DomOurs, DomRecord, DomDns, DomHeld, DomWorks, DomCleans, Dom!TypeOK, Dom!Binding,
           Dom!Name, Dom!Number, Dom!DomainConstants, Dom!Alone, Fresh, OurRecord, Dom!Found, Dom!Writes, Dom!Saved,
           Dom!Unsaved, Dom!Works, Dom!Quiet, Dom!Trouble, Dom!cloudVars
  <1>6. DomWorks'
    BY DEF DomInv, DomTypes, DomRows, DomWorks, DomCleans, Dom!TypeOK, Dom!Binding, Dom!Found, Dom!Writes, Dom!Saved, Dom!Unsaved,
           Dom!Works, Dom!Quiet, Dom!Trouble, Dom!cloudVars
  <1>7. DomCleans'
    BY DEF DomInv, DomTypes, DomRows, DomWorks, DomCleans, Dom!TypeOK, Dom!Binding, Dom!Alone, Fresh, OurRecord, Dom!Found, Dom!Writes,
           Dom!Saved, Dom!Unsaved, Dom!Works, Dom!Quiet, Dom!Trouble, Dom!cloudVars
  <1>8. DomDns'
    BY DEF DomInv, DomTypes, DomDns, DomWorks, Dom!TypeOK, Dom!Binding, Dom!Found, Dom!Writes, Dom!Saved, Dom!Unsaved, Dom!Works,
           Dom!Quiet, Dom!Trouble, Dom!cloudVars
  <1> QED
    BY <1>1, <1>2, <1>3, <1>4, <1>5, <1>6, <1>7, <1>8 DEF DomInv

\* The record is looked for.
LEMMA DomEnsureDns ==
    ASSUME DomInv, Dom!DomainConstants, Dom!EnsureDns
    PROVE  DomInv'
  <1>1. DomTypes'
    BY DEF DomInv, DomTypes, DomRecords, DomWorks, Dom!TypeOK, Dom!Binding, Dom!Name, Dom!Number, Dom!DomainConstants, Dom!EnsureDns,
           Dom!WorkerAt, Dom!Works, Dom!Fails, Dom!Quiet, Dom!Trouble, Dom!Record, Dom!NewId, Dom!Mine, Dom!NoDns, Dom!bindings
  <1>2. DomRows'
    BY DEF DomInv, DomTypes, DomRows, DomWorks, DomCleans, Dom!TypeOK, Dom!Binding, Dom!EnsureDns, Dom!WorkerAt, Dom!Works, Dom!Fails,
           Dom!Quiet, Dom!Trouble, Dom!Record, Dom!NewId, Dom!Mine, Dom!NoDns, Dom!bindings
  <1>3. DomOurs'
    BY DEF DomInv, DomTypes, DomRows, DomOurs, DomWorks, DomCleans, Dom!TypeOK, Dom!Binding, Fresh, Dom!EnsureDns, Dom!WorkerAt, Dom!Works,
           Dom!Fails, Dom!Quiet, Dom!Trouble, Dom!Record, Dom!NewId, Dom!Mine, Dom!NoDns, Dom!bindings
  <1>4. DomRecord'
    BY DEF DomInv, DomTypes, DomRows, DomRecord, DomWorks, DomCleans, Dom!TypeOK, Dom!Binding, OurRecord, Dom!EnsureDns, Dom!WorkerAt,
           Dom!Works, Dom!Fails, Dom!Quiet, Dom!Trouble, Dom!Record, Dom!NewId, Dom!Mine, Dom!NoDns, Dom!bindings
  <1>5. DomHeld'
    BY DEF DomInv, DomTypes, DomRows, DomHeld, DomWorks, DomCleans, Dom!TypeOK, Dom!Binding, Dom!EnsureDns, Dom!WorkerAt, Dom!Works,
           Dom!Fails, Dom!Quiet, Dom!Trouble, Dom!Record, Dom!NewId, Dom!Mine, Dom!NoDns, Dom!bindings
  <1>6. DomWorks'
    BY DEF DomInv, DomTypes, DomRows, DomWorks, DomCleans, Dom!TypeOK, Dom!Binding, Dom!EnsureDns, Dom!WorkerAt, Dom!Works, Dom!Fails,
           Dom!Quiet, Dom!Trouble, Dom!Record, Dom!NewId, Dom!Mine, Dom!NoDns, Dom!bindings
  <1>7. DomCleans'
    BY DEF DomInv, DomTypes, DomRows, DomWorks, DomCleans, Dom!TypeOK, Dom!Binding, Dom!Alone, Fresh, OurRecord, Dom!EnsureDns,
           Dom!WorkerAt, Dom!Works, Dom!Fails, Dom!Quiet, Dom!Trouble, Dom!Record, Dom!NewId, Dom!Mine, Dom!NoDns, Dom!bindings
  <1>8. DomDns'
    BY DEF DomInv, DomTypes, DomDns, DomWorks, Dom!TypeOK, Dom!Binding, Dom!EnsureDns, Dom!WorkerAt, Dom!Works, Dom!Fails, Dom!Quiet,
           Dom!Trouble, Dom!Record, Dom!NewId, Dom!Mine, Dom!NoDns, Dom!bindings
  <1> QED
    BY <1>1, <1>2, <1>3, <1>4, <1>5, <1>6, <1>7, <1>8 DEF DomInv

\* The record is made.
LEMMA DomMakeDns ==
    ASSUME DomInv, Dom!DomainConstants, Dom!MakeDns
    PROVE  DomInv'
  <1>1. DomTypes'
    BY DEF DomInv, DomTypes, DomRecords, DomWorks, Dom!TypeOK, Dom!Binding, Dom!Name, Dom!Number, Dom!DomainConstants, Dom!MakeDns,
           Dom!WorkerAt, Dom!Works, Dom!Fails, Dom!Quiet, Dom!Trouble, Dom!Record, Dom!NewId, Dom!Mine, Dom!NoDns, Dom!bindings
  <1>2. DomRows'
    BY DEF DomInv, DomTypes, DomRows, DomWorks, DomCleans, Dom!TypeOK, Dom!Binding, Dom!MakeDns, Dom!WorkerAt, Dom!Works, Dom!Fails,
           Dom!Quiet, Dom!Trouble, Dom!Record, Dom!NewId, Dom!Mine, Dom!NoDns, Dom!bindings
  <1>3. DomOurs'
    BY DEF DomInv, DomTypes, DomRows, DomOurs, DomWorks, DomCleans, Dom!TypeOK, Dom!Binding, Fresh, Dom!MakeDns, Dom!WorkerAt, Dom!Works,
           Dom!Fails, Dom!Quiet, Dom!Trouble, Dom!Record, Dom!NewId, Dom!Mine, Dom!NoDns, Dom!bindings
  <1>4. DomRecord'
    BY DEF DomInv, DomTypes, DomRows, DomRecord, DomWorks, DomCleans, Dom!TypeOK, Dom!Binding, OurRecord, Dom!MakeDns, Dom!WorkerAt,
           Dom!Works, Dom!Fails, Dom!Quiet, Dom!Trouble, Dom!Record, Dom!NewId, Dom!Mine, Dom!NoDns, Dom!bindings
  <1>5. DomHeld'
    <2>1. cloud'.tunnels = cloud.tunnels /\ UNCHANGED <<mem, row, strays>>
      BY DomTyped DEF DomInv, DomParts, Dom!MakeDns, Dom!bindings
    <2> QED
      BY <2>1 DEF DomInv, DomHeld
  <1>6. DomWorks'
    BY DEF DomInv, DomTypes, DomRows, DomWorks, DomCleans, Dom!TypeOK, Dom!Binding, Dom!MakeDns, Dom!WorkerAt, Dom!Works, Dom!Fails,
           Dom!Quiet, Dom!Trouble, Dom!Record, Dom!NewId, Dom!Mine, Dom!NoDns, Dom!bindings
  <1>7. DomCleans'
    BY DEF DomInv, DomTypes, DomRows, DomWorks, DomCleans, Dom!TypeOK, Dom!Binding, Dom!Alone, Fresh, OurRecord, Dom!MakeDns, Dom!WorkerAt,
           Dom!Works, Dom!Fails, Dom!Quiet, Dom!Trouble, Dom!Record, Dom!NewId, Dom!Mine, Dom!NoDns, Dom!bindings
  <1>8. DomDns'
    BY DEF DomInv, DomTypes, DomDns, DomWorks, Dom!TypeOK, Dom!Binding, Dom!MakeDns, Dom!WorkerAt, Dom!Works, Dom!Fails, Dom!Quiet,
           Dom!Trouble, Dom!Record, Dom!NewId, Dom!Mine, Dom!NoDns, Dom!bindings
  <1> QED
    BY <1>1, <1>2, <1>3, <1>4, <1>5, <1>6, <1>7, <1>8 DEF DomInv

\* The record is entered.
LEMMA DomNames ==
    ASSUME DomInv, Dom!DomainConstants, Dom!Named
    PROVE  DomInv'
  <1>1. DomTypes'
    <2> DEFINE b == [mem EXCEPT !.dns = TRUE]
    <2>1. DomParts
      BY DomTyped DEF DomInv
    <2>2. b \in Dom!Binding
      BY <2>1, DomZero DEF DomParts, Dom!Binding
    <2>3. \A there \in {"run", "failed"} : [domWorker EXCEPT !.at = there] \in DomWorkers
      BY <2>1 DEF DomParts, DomWorkers
    <2>4. /\ mem' \in {mem, b} /\ row' \in {row, b} /\ domWorker' \in {[domWorker EXCEPT !.at = there] : there \in {"run", "failed"}}
          /\ domTroubles' \in 0 .. DomainTroubles /\ UNCHANGED <<files, cleaner, cloud, late, strays, made, names>>
      BY <2>1 DEF DomParts, Dom!DomainConstants, Dom!Named, Dom!Writes, Dom!Saved, Dom!Unsaved, Dom!Works, Dom!Quiet, Dom!Trouble, Dom!cloudVars
    <2> HIDE DEF b
    <2>5. domWorker' \in DomWorkers
      BY <2>1, <2>3, <2>4 DEF DomParts
    <2> QED
      BY <2>1, <2>2, <2>4, <2>5, DomTyped DEF DomParts
  <1>2. DomRows'
    BY DEF DomInv, DomTypes, DomRows, DomWorks, DomCleans, Dom!TypeOK, Dom!Binding, Dom!Named, Dom!Writes, Dom!Saved, Dom!Unsaved,
           Dom!Works, Dom!Quiet, Dom!Trouble, Dom!cloudVars
  <1>3. DomOurs'
    BY DEF DomInv, DomTypes, DomRows, DomOurs, DomWorks, DomCleans, Dom!TypeOK, Dom!Binding, Fresh, Dom!Named, Dom!Writes, Dom!Saved,
           Dom!Unsaved, Dom!Works, Dom!Quiet, Dom!Trouble, Dom!cloudVars
  <1>4. DomRecord'
    BY DEF DomInv, DomTypes, DomRows, DomRecord, DomWorks, DomCleans, Dom!TypeOK, Dom!Binding, OurRecord, Dom!Named, Dom!Writes, Dom!Saved,
           Dom!Unsaved, Dom!Works, Dom!Quiet, Dom!Trouble, Dom!cloudVars
  <1>5. DomHeld'
    BY DEF DomInv, DomTypes, DomRows, DomHeld, DomWorks, DomCleans, Dom!TypeOK, Dom!Binding, Dom!Named, Dom!Writes, Dom!Saved, Dom!Unsaved,
           Dom!Works, Dom!Quiet, Dom!Trouble, Dom!cloudVars
  <1>6. DomWorks'
    BY DEF DomInv, DomTypes, DomRows, DomWorks, DomCleans, Dom!TypeOK, Dom!Binding, Dom!Named, Dom!Writes, Dom!Saved, Dom!Unsaved,
           Dom!Works, Dom!Quiet, Dom!Trouble, Dom!cloudVars
  <1>7. DomCleans'
    BY DEF DomInv, DomTypes, DomRows, DomWorks, DomCleans, Dom!TypeOK, Dom!Binding, Dom!Alone, Fresh, OurRecord, Dom!Named, Dom!Writes,
           Dom!Saved, Dom!Unsaved, Dom!Works, Dom!Quiet, Dom!Trouble, Dom!cloudVars
  <1>8. DomDns'
    BY DEF DomInv, DomTypes, DomDns, DomWorks, Dom!TypeOK, Dom!Binding, Dom!Named, Dom!Writes, Dom!Saved, Dom!Unsaved, Dom!Works,
           Dom!Quiet, Dom!Trouble, Dom!cloudVars
  <1> QED
    BY <1>1, <1>2, <1>3, <1>4, <1>5, <1>6, <1>7, <1>8 DEF DomInv

\* The connector runs or ends.
LEMMA DomRunConnector ==
    ASSUME DomInv, Dom!DomainConstants, Dom!RunConnector
    PROVE  DomInv'
  <1>1. DomTypes'
    BY DEF DomInv, DomTypes, DomRecords, DomWorks, Dom!TypeOK, Dom!Binding, Dom!Name, Dom!Number, Dom!DomainConstants, Dom!RunConnector,
           Dom!WorkerAt, Dom!Works, Dom!Quiet, Dom!Trouble, Dom!cloudVars
  <1>2. DomRows'
    BY DEF DomInv, DomTypes, DomRows, DomWorks, DomCleans, Dom!TypeOK, Dom!Binding, Dom!RunConnector, Dom!WorkerAt, Dom!Works, Dom!Quiet,
           Dom!Trouble, Dom!cloudVars
  <1>3. DomOurs'
    BY DEF DomInv, DomTypes, DomRows, DomOurs, DomWorks, DomCleans, Dom!TypeOK, Dom!Binding, Fresh, Dom!RunConnector, Dom!WorkerAt,
           Dom!Works, Dom!Quiet, Dom!Trouble, Dom!cloudVars
  <1>4. DomRecord'
    BY DEF DomInv, DomTypes, DomRows, DomRecord, DomWorks, DomCleans, Dom!TypeOK, Dom!Binding, OurRecord, Dom!RunConnector, Dom!WorkerAt,
           Dom!Works, Dom!Quiet, Dom!Trouble, Dom!cloudVars
  <1>5. DomHeld'
    BY DEF DomInv, DomTypes, DomRows, DomHeld, DomWorks, DomCleans, Dom!TypeOK, Dom!Binding, Dom!RunConnector, Dom!WorkerAt, Dom!Works,
           Dom!Quiet, Dom!Trouble, Dom!cloudVars
  <1>6. DomWorks'
    BY DEF DomInv, DomTypes, DomRows, DomWorks, DomCleans, Dom!TypeOK, Dom!Binding, Dom!RunConnector, Dom!WorkerAt, Dom!Works, Dom!Quiet,
           Dom!Trouble, Dom!cloudVars
  <1>7. DomCleans'
    BY DEF DomInv, DomTypes, DomRows, DomWorks, DomCleans, Dom!TypeOK, Dom!Binding, Dom!Alone, Fresh, OurRecord, Dom!RunConnector,
           Dom!WorkerAt, Dom!Works, Dom!Quiet, Dom!Trouble, Dom!cloudVars
  <1>8. DomDns'
    BY DEF DomInv, DomTypes, DomDns, DomWorks, Dom!TypeOK, Dom!Binding, Dom!RunConnector, Dom!WorkerAt, Dom!Works, Dom!Quiet, Dom!Trouble,
           Dom!cloudVars
  <1> QED
    BY <1>1, <1>2, <1>3, <1>4, <1>5, <1>6, <1>7, <1>8 DEF DomInv

\* A cancelled worker ends.
LEMMA DomAbandons ==
    ASSUME DomInv, Dom!DomainConstants, Dom!Abandons
    PROVE  DomInv'
  <1>1. DomTypes'
    BY DEF DomInv, DomTypes, DomRecords, DomWorks, Dom!TypeOK, Dom!Binding, Dom!Name, Dom!Number, Dom!DomainConstants, Dom!Abandons,
           Dom!Works, Dom!Quiet, Dom!bindings
  <1>2. DomRows'
    BY DEF DomInv, DomRows, Dom!Abandons, Dom!Works, Dom!Quiet, Dom!bindings
  <1>3. DomOurs'
    BY DEF DomInv, DomTypes, DomRows, DomOurs, DomWorks, DomCleans, Dom!TypeOK, Dom!Binding, Fresh, Dom!Abandons, Dom!Works, Dom!Quiet,
           Dom!bindings
  <1>4. DomRecord'
    BY DEF DomInv, DomRecord, OurRecord, Dom!Abandons, Dom!Works, Dom!Quiet, Dom!bindings
  <1>5. DomHeld'
    BY DEF DomInv, DomHeld, Dom!Abandons, Dom!Works, Dom!Quiet, Dom!bindings
  <1>6. DomWorks'
    BY DEF DomInv, DomTypes, DomRows, DomWorks, DomCleans, Dom!TypeOK, Dom!Binding, Dom!Abandons, Dom!Works, Dom!Quiet, Dom!bindings
  <1>7. DomCleans'
    BY DEF DomInv, DomTypes, DomRows, DomWorks, DomCleans, Dom!TypeOK, Dom!Binding, Dom!Alone, Fresh, OurRecord, Dom!Abandons, Dom!Works,
           Dom!Quiet, Dom!bindings
  <1>8. DomDns'
    BY DEF DomInv, DomTypes, DomDns, DomWorks, Dom!TypeOK, Dom!Binding, Dom!Abandons, Dom!Works, Dom!Quiet, Dom!bindings
  <1> QED
    BY <1>1, <1>2, <1>3, <1>4, <1>5, <1>6, <1>7, <1>8 DEF DomInv

\* The end of the worker is written.
LEMMA DomWorkerEnds ==
    ASSUME DomInv, Dom!DomainConstants, Dom!WorkerEnds
    PROVE  DomInv'
  <1>1. DomTypes'
    BY DEF DomInv, DomTypes, DomRecords, DomWorks, Dom!TypeOK, Dom!Binding, Dom!Name, Dom!Number, Dom!DomainConstants, Dom!WorkerEnds,
           Dom!Saved, Dom!Quiet, Dom!Trouble, Dom!cloudVars, Dom!bindings, Dom!Off
  <1>2. DomRows'
    BY DEF DomInv, DomTypes, DomRows, DomWorks, DomCleans, Dom!TypeOK, Dom!Binding, Dom!WorkerEnds, Dom!Saved, Dom!Quiet, Dom!Trouble,
           Dom!cloudVars, Dom!bindings, Dom!Off
  <1>3. DomOurs'
    BY DEF DomInv, DomTypes, DomRows, DomOurs, DomWorks, DomCleans, Dom!TypeOK, Dom!Binding, Fresh, Dom!WorkerEnds, Dom!Saved, Dom!Quiet,
           Dom!Trouble, Dom!cloudVars, Dom!bindings, Dom!Off
  <1>4. DomRecord'
    BY DEF DomInv, DomTypes, DomRows, DomRecord, DomWorks, DomCleans, Dom!TypeOK, Dom!Binding, OurRecord, Dom!WorkerEnds, Dom!Saved,
           Dom!Quiet, Dom!Trouble, Dom!cloudVars, Dom!bindings, Dom!Off
  <1>5. DomHeld'
    <2>1. /\ mem'.name = mem.name /\ mem'.tunnel = mem.tunnel /\ mem'.removing = mem.removing
          /\ row'.tunnel \in {row.tunnel, mem.tunnel} /\ UNCHANGED <<cloud, strays>>
      BY DEF DomInv, DomTypes, Dom!TypeOK, Dom!Binding, Dom!WorkerEnds, Dom!Saved, Dom!cloudVars, Dom!bindings
    <2> QED
      BY <2>1 DEF DomInv, DomHeld
  <1>6. DomWorks'
    BY DEF DomInv, DomTypes, DomRows, DomWorks, DomCleans, Dom!TypeOK, Dom!Binding, Dom!WorkerEnds, Dom!Saved, Dom!Quiet, Dom!Trouble,
           Dom!cloudVars, Dom!bindings, Dom!Off
  <1>7. DomCleans'
    BY DEF DomInv, DomTypes, DomRows, DomWorks, DomCleans, Dom!TypeOK, Dom!Binding, Dom!Alone, Fresh, OurRecord, Dom!WorkerEnds, Dom!Saved,
           Dom!Quiet, Dom!Trouble, Dom!cloudVars, Dom!bindings, Dom!Off
  <1>8. DomDns'
    BY DEF DomInv, DomTypes, DomDns, DomWorks, Dom!TypeOK, Dom!Binding, Dom!WorkerEnds, Dom!Saved, Dom!Quiet, Dom!Trouble, Dom!cloudVars,
           Dom!bindings, Dom!Off
  <1> QED
    BY <1>1, <1>2, <1>3, <1>4, <1>5, <1>6, <1>7, <1>8 DEF DomInv

\* The cleanup has waited for the worker.
LEMMA DomWait ==
    ASSUME DomInv, Dom!DomainConstants, Dom!Wait
    PROVE  DomInv'
  <1>1. DomTypes'
    BY DEF DomInv, DomTypes, DomRecords, DomWorks, Dom!TypeOK, Dom!Binding, Dom!Name, Dom!Number, Dom!DomainConstants, Dom!Wait,
           Dom!Cleans, Dom!Quiet, Dom!Trouble, Dom!cloudVars, Dom!bindings
  <1>2. DomRows'
    BY DEF DomInv, DomRows, Dom!Wait, Dom!Cleans, Dom!Quiet, Dom!Trouble, Dom!cloudVars, Dom!bindings
  <1>3. DomOurs'
    BY DEF DomInv, DomTypes, DomRows, DomOurs, DomWorks, DomCleans, Dom!TypeOK, Dom!Binding, Fresh, Dom!Wait, Dom!Cleans, Dom!Quiet,
           Dom!Trouble, Dom!cloudVars, Dom!bindings
  <1>4. DomRecord'
    BY DEF DomInv, DomRecord, OurRecord, Dom!Wait, Dom!Cleans, Dom!Quiet, Dom!Trouble, Dom!cloudVars, Dom!bindings
  <1>5. DomHeld'
    BY DEF DomInv, DomHeld, Dom!Wait, Dom!Cleans, Dom!Quiet, Dom!Trouble, Dom!cloudVars, Dom!bindings
  <1>6. DomWorks'
    BY DEF DomInv, DomTypes, DomRows, DomWorks, DomCleans, Dom!TypeOK, Dom!Binding, Dom!Wait, Dom!Cleans, Dom!Quiet, Dom!Trouble,
           Dom!cloudVars, Dom!bindings
  <1>7. DomCleans'
    BY DEF DomInv, DomTypes, DomRecords, DomRows, DomOurs, DomRecord, DomDns, DomHeld, DomWorks, DomCleans, Dom!TypeOK, Dom!Binding,
           Dom!Name, Dom!Number, Dom!DomainConstants, Dom!Alone, Fresh, OurRecord, Dom!Wait, Dom!Cleans, Dom!Quiet,
           Dom!Trouble, Dom!cloudVars, Dom!bindings
  <1>8. DomDns'
    BY DEF DomInv, DomTypes, DomDns, DomWorks, Dom!TypeOK, Dom!Binding, Dom!Wait, Dom!Cleans, Dom!Quiet, Dom!Trouble, Dom!cloudVars,
           Dom!bindings
  <1> QED
    BY <1>1, <1>2, <1>3, <1>4, <1>5, <1>6, <1>7, <1>8 DEF DomInv

\* The cleanup looks for the tunnel.
LEMMA DomFindOwned ==
    ASSUME DomInv, Dom!DomainConstants, Dom!FindOwned
    PROVE  DomInv'
  <1>1. DomTypes'
    <2> DEFINE id == IF mem.tunnel # 0 THEN mem.tunnel ELSE Dom!Id(mem.name)
    <2>1. DomParts /\ id \in Dom!Number
      BY DomTyped, DomId DEF DomInv, DomParts, Dom!Binding
    <2>2. /\ \A there \in {"cleared", "check"} : [cleaner EXCEPT !.tunnel = id, !.at = there] \in DomCleaners
          /\ [cleaner EXCEPT !.at = "failed"] \in DomCleaners
      BY <2>1 DEF DomParts, DomCleaners
    <2>3. cleaner' \in {[cleaner EXCEPT !.tunnel = id, !.at = there] : there \in {"cleared", "check"}}
                     \cup {cleaner, [cleaner EXCEPT !.at = "failed"]}
      BY DEF Dom!FindOwned, Dom!StepFails, Dom!Cleans
    <2>4. domTroubles' \in 0 .. DomainTroubles /\ UNCHANGED <<mem, row, files, domWorker, cloud, late, strays, made, names>>
      BY <2>1 DEF DomParts, Dom!FindOwned, Dom!StepFails, Dom!Quiet, Dom!Trouble, Dom!cloudVars, Dom!bindings,
                  Dom!DomainConstants
    <2> HIDE DEF id
    <2>5. cleaner' \in DomCleaners
      BY <2>1, <2>2, <2>3 DEF DomParts
    <2> QED
      BY <2>1, <2>4, <2>5, DomTyped DEF DomParts
  <1>2. DomRows'
    BY DEF DomInv, DomRows, Dom!FindOwned, Dom!Cleans, Dom!StepFails, Dom!Quiet, Dom!Trouble, Dom!cloudVars,
           Dom!bindings, Dom!Ours, Dom!Id
  <1>3. DomOurs'
    BY DEF DomInv, DomTypes, DomRows, DomOurs, DomWorks, DomCleans, Dom!TypeOK, Dom!Binding, Fresh, Dom!FindOwned, Dom!Cleans,
           Dom!StepFails, Dom!Quiet, Dom!Trouble, Dom!cloudVars, Dom!bindings, Dom!Ours, Dom!Id
  <1>4. DomRecord'
    BY DEF DomInv, DomRecord, OurRecord, Dom!FindOwned, Dom!Cleans, Dom!StepFails, Dom!Quiet, Dom!Trouble,
           Dom!cloudVars, Dom!bindings, Dom!Ours, Dom!Id
  <1>5. DomHeld'
    BY DEF DomInv, DomHeld, Dom!FindOwned, Dom!Cleans, Dom!StepFails, Dom!Quiet, Dom!Trouble, Dom!cloudVars,
           Dom!bindings, Dom!Ours, Dom!Id
  <1>6. DomWorks'
    BY DEF DomInv, DomTypes, DomRows, DomWorks, DomCleans, Dom!TypeOK, Dom!Binding, Dom!FindOwned, Dom!Cleans, Dom!StepFails, Dom!Quiet,
           Dom!Trouble, Dom!cloudVars, Dom!bindings, Dom!Ours, Dom!Id
  <1>7. DomCleans'
    <2> DEFINE id == IF mem.tunnel # 0 THEN mem.tunnel ELSE Dom!Id(mem.name)
    <2>1. DomParts /\ cleaner.at = "find" /\ cleaner \in DomCleaners
      BY DomTyped DEF DomInv, DomParts, Dom!FindOwned
    <2>2. UNCHANGED <<mem, row, files, domWorker, cloud, strays>>
      BY DEF Dom!FindOwned, Dom!cloudVars, Dom!bindings
    <2>3. /\ \A t \in cloud.tunnels : Fresh(t) => t.number = id
          /\ id = 0 => ~ OurRecord /\ \A t \in cloud.tunnels : ~ Fresh(t)
      <3>1. ASSUME NEW t \in cloud.tunnels, Fresh(t)
            PROVE  t.number = id /\ id # 0
        <4>1. t.name = mem.name /\ t.number # 0 /\ mem.tunnel \in {0, t.number} /\ \A u \in cloud.tunnels : u.name = t.name => u = t
          BY <3>1 DEF DomInv, DomOurs
        <4>2. CASE mem.tunnel = 0
          <5>1. t \in Dom!Ours(mem.name)
            BY <4>1 DEF Dom!Ours
          <5>2. \E u \in cloud.tunnels : u.name = mem.name /\ u.number = Dom!Id(mem.name)
            BY <5>1, DomId
          <5> QED
            BY <4>1, <4>2, <5>2
        <4> QED
          BY <4>1, <4>2
      <3>2. OurRecord => id # 0
        BY DEF DomInv, DomRecord
      <3> QED
        BY <3>1, <3>2
    <2>4. mem.tunnel \in {0, id} \/ id = 0
      OBVIOUS
    <2>5. \/ cleaner'.tunnel = id /\ cleaner'.at = IF id = 0 THEN "cleared" ELSE "check"
          \/ cleaner'.at \in {"find", "failed"}
      <3>1. \A there : [cleaner EXCEPT !.tunnel = id, !.at = there].at = there /\ [cleaner EXCEPT !.tunnel = id, !.at = there].tunnel = id
                       /\ [cleaner EXCEPT !.at = there].at = there
        BY <2>1 DEF DomCleaners
      <3> QED
        BY Zenon, <2>1, <3>1 DEF Dom!FindOwned, Dom!StepFails, Dom!Cleans
    <2>6. mem.tunnel # 0 => id = mem.tunnel
      OBVIOUS
    <2> HIDE DEF id
    <2> QED
      BY <2>1, <2>2, <2>3, <2>5, <2>6 DEF DomInv, DomCleans, Dom!Alone, Fresh, OurRecord
  <1>8. DomDns'
    BY DEF DomInv, DomDns, DomTypes, Dom!TypeOK, Dom!FindOwned, Dom!Cleans, Dom!StepFails, Dom!cloudVars, Dom!bindings
  <1> QED
    BY <1>1, <1>2, <1>3, <1>4, <1>5, <1>6, <1>7, <1>8 DEF DomInv

\* It makes sure that the tunnel is the binding's.
LEMMA DomCheck ==
    ASSUME DomInv, Dom!DomainConstants, Dom!Check
    PROVE  DomInv'
  <1>1. DomTypes'
    <2>1. DomParts
      BY DomTyped DEF DomInv
    <2>2. /\ \A e \in BOOLEAN : [cleaner EXCEPT !.exists = e, !.at = "list"] \in DomCleaners
          /\ [cleaner EXCEPT !.at = "failed"] \in DomCleaners /\ cleaner \in DomCleaners
      BY <2>1 DEF DomParts, DomCleaners
    <2>3. cleaner' \in DomCleaners
      BY <2>2 DEF Dom!Check, Dom!StepFails, Dom!Cleans
    <2>4. domTroubles' \in 0 .. DomainTroubles /\ UNCHANGED <<mem, row, files, domWorker, cloud, late, strays, made, names>>
      BY <2>1 DEF DomParts, Dom!Check, Dom!StepFails, Dom!Quiet, Dom!Trouble, Dom!cloudVars, Dom!bindings, Dom!DomainConstants
    <2> QED
      BY <2>1, <2>3, <2>4, DomTyped DEF DomParts
  <1>2. DomRows'
    BY DEF DomInv, DomTypes, DomRows, DomWorks, DomCleans, Dom!TypeOK, Dom!Binding, Dom!Check, Dom!Cleans, Dom!StepFails, Dom!Quiet,
           Dom!Trouble, Dom!cloudVars, Dom!bindings
  <1>3. DomOurs'
    BY DEF DomInv, DomTypes, DomRows, DomOurs, DomWorks, DomCleans, Dom!TypeOK, Dom!Binding, Fresh, Dom!Check, Dom!Cleans, Dom!StepFails,
           Dom!Quiet, Dom!Trouble, Dom!cloudVars, Dom!bindings
  <1>4. DomRecord'
    BY DEF DomInv, DomTypes, DomRows, DomRecord, DomWorks, DomCleans, Dom!TypeOK, Dom!Binding, OurRecord, Dom!Check, Dom!Cleans,
           Dom!StepFails, Dom!Quiet, Dom!Trouble, Dom!cloudVars, Dom!bindings
  <1>5. DomHeld'
    BY DEF DomInv, DomTypes, DomRows, DomHeld, DomWorks, DomCleans, Dom!TypeOK, Dom!Binding, Dom!Check, Dom!Cleans, Dom!StepFails,
           Dom!Quiet, Dom!Trouble, Dom!cloudVars, Dom!bindings
  <1>6. DomWorks'
    BY DEF DomInv, DomTypes, DomRows, DomWorks, DomCleans, Dom!TypeOK, Dom!Binding, Dom!Check, Dom!Cleans, Dom!StepFails, Dom!Quiet,
           Dom!Trouble, Dom!cloudVars, Dom!bindings
  <1>7. DomCleans'
    <2> DEFINE found == {t \in cloud.tunnels : t.number = cleaner.tunnel}
    <2>1. DomParts /\ cleaner.at = "check" /\ cleaner \in DomCleaners
      BY DomTyped DEF DomInv, DomParts, Dom!Check
    <2>2. UNCHANGED <<mem, row, files, domWorker, cloud, strays>>
      BY DEF Dom!Check, Dom!cloudVars, Dom!bindings
    <2>3. \/ cleaner' = [cleaner EXCEPT !.exists = found # {}, !.at = "list"]
          \/ cleaner' = [cleaner EXCEPT !.at = "failed"]
          \/ cleaner' = cleaner
      BY DEF Dom!Check, Dom!StepFails, Dom!Cleans
    <2>4. found = {} => \A t \in cloud.tunnels : ~ Fresh(t)
      BY <2>1 DEF DomInv, DomCleans
    <2> HIDE DEF found
    <2>5. /\ cleaner'.tunnel = cleaner.tunnel
          /\ \/ cleaner'.at = "list" /\ (~ cleaner'.exists => found = {})
             \/ cleaner'.at \in {"failed", "check"}
      BY <2>1, <2>3 DEF DomCleaners
    <2> QED
      BY <2>1, <2>2, <2>4, <2>5 DEF DomInv, DomCleans, Dom!Alone, Fresh, OurRecord
  <1>8. DomDns'
    BY DEF DomInv, DomTypes, DomDns, DomWorks, Dom!TypeOK, Dom!Binding, Dom!Check, Dom!Cleans, Dom!StepFails, Dom!Quiet, Dom!Trouble,
           Dom!cloudVars, Dom!bindings
  <1> QED
    BY <1>1, <1>2, <1>3, <1>4, <1>5, <1>6, <1>7, <1>8 DEF DomInv

\* It looks for the record.
LEMMA DomList ==
    ASSUME DomInv, Dom!DomainConstants, Dom!List
    PROVE  DomInv'
  <1>1. DomTypes'
    <2>1. DomParts
      BY DomTyped DEF DomInv
    <2>2. /\ \A d \in 0 .. 2 : [cleaner EXCEPT !.dns = d, !.at = "unname"] \in DomCleaners
          /\ \A there \in {"failed", "delete", "cleared"} : [cleaner EXCEPT !.at = there] \in DomCleaners
          /\ cleaner \in DomCleaners /\ cloud.dns.id \in 0 .. 2
      BY <2>1 DEF DomParts, DomCleaners, DomRecords
    <2>3. cleaner' \in DomCleaners
      BY <2>2 DEF Dom!List, Dom!StepFails, Dom!Cleans, Dom!AfterDns
    <2>4. domTroubles' \in 0 .. DomainTroubles /\ UNCHANGED <<mem, row, files, domWorker, cloud, late, strays, made, names>>
      BY <2>1 DEF DomParts, Dom!List, Dom!StepFails, Dom!Quiet, Dom!Trouble, Dom!cloudVars, Dom!bindings, Dom!DomainConstants
    <2> QED
      BY <2>1, <2>3, <2>4, DomTyped DEF DomParts
  <1>2. DomRows'
    BY DEF DomInv, DomTypes, DomRows, DomWorks, DomCleans, Dom!TypeOK, Dom!Binding, Dom!List, Dom!Owned, Dom!AfterDns, Dom!NoDns,
           Dom!Cleans, Dom!StepFails, Dom!Quiet, Dom!Trouble, Dom!cloudVars, Dom!bindings
  <1>3. DomOurs'
    BY DEF DomInv, DomTypes, DomRows, DomOurs, DomWorks, DomCleans, Dom!TypeOK, Dom!Binding, Fresh, Dom!List, Dom!Owned, Dom!AfterDns,
           Dom!NoDns, Dom!Cleans, Dom!StepFails, Dom!Quiet, Dom!Trouble, Dom!cloudVars, Dom!bindings
  <1>4. DomRecord'
    BY DEF DomInv, DomTypes, DomRows, DomRecord, DomWorks, DomCleans, Dom!TypeOK, Dom!Binding, OurRecord, Dom!List, Dom!Owned,
           Dom!AfterDns, Dom!NoDns, Dom!Cleans, Dom!StepFails, Dom!Quiet, Dom!Trouble, Dom!cloudVars, Dom!bindings
  <1>5. DomHeld'
    BY DEF DomInv, DomTypes, DomRows, DomHeld, DomWorks, DomCleans, Dom!TypeOK, Dom!Binding, Dom!List, Dom!Owned, Dom!AfterDns, Dom!NoDns,
           Dom!Cleans, Dom!StepFails, Dom!Quiet, Dom!Trouble, Dom!cloudVars, Dom!bindings
  <1>6. DomWorks'
    BY DEF DomInv, DomTypes, DomRows, DomWorks, DomCleans, Dom!TypeOK, Dom!Binding, Dom!List, Dom!Owned, Dom!AfterDns, Dom!NoDns,
           Dom!Cleans, Dom!StepFails, Dom!Quiet, Dom!Trouble, Dom!cloudVars, Dom!bindings
  <1>7. DomCleans'
    <2>1. DomParts /\ cleaner.at = "list" /\ cleaner \in DomCleaners
      BY DomTyped DEF DomInv, DomParts, Dom!List
    <2>2. UNCHANGED <<mem, row, files, domWorker, cloud, strays>>
      BY DEF Dom!List, Dom!cloudVars, Dom!bindings
    <2>3. \/ Dom!Owned(cloud.dns) /\ cleaner' = [cleaner EXCEPT !.dns = cloud.dns.id, !.at = "unname"]
          \/ ~ Dom!Owned(cloud.dns) /\ cleaner' = [cleaner EXCEPT !.at = Dom!AfterDns]
          \/ cleaner' = [cleaner EXCEPT !.at = "failed"]
          \/ cleaner' = cleaner
      BY DEF Dom!List, Dom!StepFails, Dom!Cleans
    <2>4. /\ cleaner'.tunnel = cleaner.tunnel /\ cleaner'.exists = cleaner.exists
          /\ \/ Dom!Owned(cloud.dns) /\ cleaner'.dns = cloud.dns.id /\ cleaner'.at = "unname"
             \/ cleaner'.dns = cleaner.dns /\ ~ Dom!Owned(cloud.dns) /\ cleaner'.at = IF cleaner.exists THEN "delete" ELSE "cleared"
             \/ cleaner'.dns = cleaner.dns /\ cleaner'.at \in {"failed", "list"}
      BY <2>1, <2>3 DEF DomCleaners, Dom!AfterDns
    <2>5. OurRecord => Dom!Owned(cloud.dns)
      BY <2>1 DEF DomInv, DomRecord, DomCleans, OurRecord, Dom!Owned, Dom!NoDns
    <2> QED
      BY <2>1, <2>2, <2>4, <2>5 DEF DomInv, DomCleans, Dom!Alone, Fresh, OurRecord
  <1>8. DomDns'
    <2>1. DomParts /\ cleaner.at = "list" /\ cleaner \in DomCleaners
      BY DomTyped DEF DomInv, DomParts, Dom!List
    <2>2. UNCHANGED <<mem, row, files, domWorker, cloud, strays>>
      BY DEF Dom!List, Dom!cloudVars, Dom!bindings
    <2>3. \/ Dom!Owned(cloud.dns) /\ cleaner' = [cleaner EXCEPT !.dns = cloud.dns.id, !.at = "unname"]
          \/ ~ Dom!Owned(cloud.dns) /\ cleaner' = [cleaner EXCEPT !.at = Dom!AfterDns]
          \/ cleaner' = [cleaner EXCEPT !.at = "failed"]
          \/ cleaner' = cleaner
      BY DEF Dom!List, Dom!StepFails, Dom!Cleans
    <2>4. /\ cleaner'.tunnel = cleaner.tunnel /\ cleaner'.exists = cleaner.exists
          /\ \/ Dom!Owned(cloud.dns) /\ cleaner'.dns = cloud.dns.id /\ cleaner'.at = "unname"
             \/ cleaner'.dns = cleaner.dns /\ ~ Dom!Owned(cloud.dns) /\ cleaner'.at = IF cleaner.exists THEN "delete" ELSE "cleared"
             \/ cleaner'.dns = cleaner.dns /\ cleaner'.at \in {"failed", "list"}
      BY <2>1, <2>3 DEF DomCleaners, Dom!AfterDns
    <2>5. Dom!Owned(cloud.dns) => cloud.dns.id # 0 /\ cloud.dns.by = "us"
      BY <2>1 DEF DomInv, DomDns, DomCleans, Dom!Owned
    <2> QED
      BY <2>1, <2>2, <2>4, <2>5 DEF DomInv, DomDns
  <1> QED
    BY <1>1, <1>2, <1>3, <1>4, <1>5, <1>6, <1>7, <1>8 DEF DomInv

\* It removes the record.
LEMMA DomUnname ==
    ASSUME DomInv, Dom!DomainConstants, Dom!Unname
    PROVE  DomInv'
  <1>1. DomTypes'
    <2>1. DomParts
      BY DomTyped DEF DomInv
    <2>2. /\ \A d \in 0 .. 2 : \A there \in {"delete", "cleared"} : [cleaner EXCEPT !.dns = d, !.at = there] \in DomCleaners
          /\ [cleaner EXCEPT !.at = "failed"] \in DomCleaners /\ cleaner \in DomCleaners
      BY <2>1 DEF DomParts, DomCleaners
    <2>3. cleaner' \in DomCleaners
      <3>1. 0 \in 0 .. 2 /\ Dom!AfterDns \in {"delete", "cleared"}
        BY DEF Dom!AfterDns
      <3>2. [cleaner EXCEPT !.dns = 0, !.at = Dom!AfterDns] \in DomCleaners
        BY <2>2, <3>1
      <3> QED
        BY <2>2, <3>2 DEF Dom!Unname, Dom!StepFails, Dom!Cleans
    <2>4. domTroubles' \in 0 .. DomainTroubles /\ UNCHANGED <<mem, row, files, domWorker, late, strays, made, names>>
      BY <2>1 DEF DomParts, Dom!Unname, Dom!StepFails, Dom!Quiet, Dom!Trouble, Dom!cloudVars, Dom!bindings, Dom!DomainConstants
    <2>5. Dom!NoDns \in DomRecords
      BY DomZero DEF Dom!NoDns, DomRecords
    <2>6. cloud' \in [tunnels : SUBSET [number : Dom!Number, name : Dom!Name], dns : DomRecords]
      BY <2>1, <2>5 DEF DomParts, Dom!Unname
    <2> QED
      BY <2>1, <2>3, <2>4, <2>6, DomTyped DEF DomParts
  <1>2. DomRows'
    BY DEF DomInv, DomTypes, DomRows, DomWorks, DomCleans, Dom!TypeOK, Dom!Binding, Dom!Unname, Dom!Cleans, Dom!StepFails, Dom!AfterDns,
           Dom!NoDns, Dom!Quiet, Dom!Trouble, Dom!bindings
  <1>3. DomOurs'
    BY DEF DomInv, DomTypes, DomRows, DomOurs, DomWorks, DomCleans, Dom!TypeOK, Dom!Binding, Fresh, Dom!Unname, Dom!Cleans, Dom!StepFails,
           Dom!AfterDns, Dom!NoDns, Dom!Quiet, Dom!Trouble, Dom!bindings
  <1>4. DomRecord'
    BY DEF DomInv, DomTypes, DomRows, DomRecord, DomWorks, DomCleans, Dom!TypeOK, Dom!Binding, OurRecord, Dom!Unname, Dom!Cleans,
           Dom!StepFails, Dom!AfterDns, Dom!NoDns, Dom!Quiet, Dom!Trouble, Dom!bindings
  <1>5. DomHeld'
    BY DEF DomInv, DomTypes, DomRows, DomHeld, DomWorks, DomCleans, Dom!TypeOK, Dom!Binding, Dom!Unname, Dom!Cleans, Dom!StepFails,
           Dom!AfterDns, Dom!NoDns, Dom!Quiet, Dom!Trouble, Dom!bindings
  <1>6. DomWorks'
    BY DEF DomInv, DomTypes, DomRows, DomWorks, DomCleans, Dom!TypeOK, Dom!Binding, Dom!Unname, Dom!Cleans, Dom!StepFails, Dom!AfterDns,
           Dom!NoDns, Dom!Quiet, Dom!Trouble, Dom!bindings
  <1>7. DomCleans'
    <2>1. DomParts /\ cleaner.at = "unname" /\ cleaner \in DomCleaners
      BY DomTyped DEF DomInv, DomParts, Dom!Unname
    <2>2. UNCHANGED <<mem, row, files, domWorker, strays>>
      BY DEF Dom!Unname, Dom!bindings
    <2>3. /\ cloud'.tunnels = cloud.tunnels
          /\ cloud'.dns = cloud.dns \/ (cloud.dns.id = cleaner.dns /\ cloud'.dns = Dom!NoDns)
          /\ \/ /\ cloud'.dns = IF cloud.dns.id = cleaner.dns THEN Dom!NoDns ELSE cloud.dns
                /\ cleaner' = [cleaner EXCEPT !.dns = 0, !.at = Dom!AfterDns]
             \/ cleaner' = [cleaner EXCEPT !.at = "failed"]
             \/ cleaner' = cleaner
      BY <2>1 DEF DomParts, Dom!Unname, Dom!StepFails, Dom!Cleans
    <2>4. /\ cleaner'.tunnel = cleaner.tunnel /\ cleaner'.exists = cleaner.exists
          /\ \/ /\ cloud'.dns = IF cloud.dns.id = cleaner.dns THEN Dom!NoDns ELSE cloud.dns
                /\ cleaner'.dns = 0 /\ cleaner'.at = IF cleaner.exists THEN "delete" ELSE "cleared"
             \/ cleaner'.dns = cleaner.dns /\ cleaner'.at \in {"failed", "unname"}
      BY <2>1, <2>3 DEF DomCleaners, Dom!AfterDns
    <2>5. Dom!NoDns.id = 0 /\ Dom!NoDns.name = 0 /\ Dom!NoDns.by = "nobody"
      BY DEF Dom!NoDns
    <2> QED
      BY <2>1, <2>2, <2>3, <2>4, <2>5 DEF DomInv, DomCleans, Dom!Alone, Fresh, OurRecord
  <1>8. DomDns'
    <2>1. DomParts /\ cleaner.at = "unname" /\ cleaner \in DomCleaners
      BY DomTyped DEF DomInv, DomParts, Dom!Unname
    <2>2. UNCHANGED <<mem, row, files, domWorker, strays>>
      BY DEF Dom!Unname, Dom!bindings
    <2>3. /\ cloud'.tunnels = cloud.tunnels
          /\ cloud'.dns = cloud.dns \/ (cloud.dns.id = cleaner.dns /\ cloud'.dns = Dom!NoDns)
          /\ \/ /\ cloud'.dns = IF cloud.dns.id = cleaner.dns THEN Dom!NoDns ELSE cloud.dns
                /\ cleaner' = [cleaner EXCEPT !.dns = 0, !.at = Dom!AfterDns]
             \/ cleaner' = [cleaner EXCEPT !.at = "failed"]
             \/ cleaner' = cleaner
      BY <2>1 DEF DomParts, Dom!Unname, Dom!StepFails, Dom!Cleans
    <2>4. /\ cleaner'.tunnel = cleaner.tunnel /\ cleaner'.exists = cleaner.exists
          /\ \/ /\ cloud'.dns = IF cloud.dns.id = cleaner.dns THEN Dom!NoDns ELSE cloud.dns
                /\ cleaner'.dns = 0 /\ cleaner'.at = IF cleaner.exists THEN "delete" ELSE "cleared"
             \/ cleaner'.dns = cleaner.dns /\ cleaner'.at \in {"failed", "unname"}
      BY <2>1, <2>3 DEF DomCleaners, Dom!AfterDns
    <2>5. Dom!NoDns.id = 0 /\ Dom!NoDns.name = 0 /\ Dom!NoDns.by = "nobody"
      BY DEF Dom!NoDns
    <2> QED
      BY <2>1, <2>3, <2>4, <2>5 DEF DomInv, DomDns
  <1> QED
    BY <1>1, <1>2, <1>3, <1>4, <1>5, <1>6, <1>7, <1>8 DEF DomInv

\* It deletes the tunnel.
LEMMA DomDelete ==
    ASSUME DomInv, Dom!DomainConstants, Dom!Delete
    PROVE  DomInv'
  <1>1. DomTypes'
    BY DEF DomInv, DomTypes, DomRecords, DomWorks, Dom!TypeOK, Dom!Binding, Dom!Name, Dom!Number, Dom!DomainConstants, Dom!Delete,
           Dom!Cleans, Dom!StepFails, Dom!Quiet, Dom!Trouble, Dom!bindings
  <1>2. DomRows'
    BY DEF DomInv, DomTypes, DomRows, DomWorks, DomCleans, Dom!TypeOK, Dom!Binding, Dom!Delete, Dom!Cleans, Dom!StepFails, Dom!Quiet,
           Dom!Trouble, Dom!bindings
  <1>3. DomOurs'
    BY DEF DomInv, DomTypes, DomRows, DomOurs, DomWorks, DomCleans, Dom!TypeOK, Dom!Binding, Fresh, Dom!Delete, Dom!Cleans, Dom!StepFails,
           Dom!Quiet, Dom!Trouble, Dom!bindings
  <1>4. DomRecord'
    BY DEF DomInv, DomTypes, DomRows, DomRecord, DomWorks, DomCleans, Dom!TypeOK, Dom!Binding, OurRecord, Dom!Delete, Dom!Cleans,
           Dom!StepFails, Dom!Quiet, Dom!Trouble, Dom!bindings
  <1>5. DomHeld'
    BY DEF DomInv, DomTypes, DomRows, DomHeld, DomWorks, DomCleans, Dom!TypeOK, Dom!Binding, Dom!Delete, Dom!Cleans, Dom!StepFails,
           Dom!Quiet, Dom!Trouble, Dom!bindings
  <1>6. DomWorks'
    BY DEF DomInv, DomTypes, DomRecords, DomRows, DomOurs, DomRecord, DomDns, DomHeld, DomWorks, DomCleans, Dom!TypeOK, Dom!Binding,
           Dom!Name, Dom!Number, Dom!DomainConstants, Dom!Alone, Fresh, OurRecord, Dom!Delete, Dom!Cleans,
           Dom!StepFails, Dom!Quiet, Dom!Trouble, Dom!bindings
  <1>7. DomCleans'
    BY DEF DomInv, DomTypes, DomRows, DomWorks, DomCleans, Dom!TypeOK, Dom!Binding, Dom!Alone, Fresh, OurRecord, Dom!Delete, Dom!Cleans,
           Dom!StepFails, Dom!Quiet, Dom!Trouble, Dom!bindings
  <1>8. DomDns'
    BY DEF DomInv, DomTypes, DomDns, DomWorks, Dom!TypeOK, Dom!Binding, Dom!Delete, Dom!Cleans, Dom!StepFails, Dom!Quiet, Dom!Trouble,
           Dom!bindings
  <1> QED
    BY <1>1, <1>2, <1>3, <1>4, <1>5, <1>6, <1>7, <1>8 DEF DomInv

\* It has removed what Cloudflare had.
LEMMA DomCleared ==
    ASSUME DomInv, Dom!DomainConstants, Dom!Cleared
    PROVE  DomInv'
  <1>1. DomTypes'
    <2> DEFINE b == [mem EXCEPT !.cleared = TRUE]
    <2>1. DomParts
      BY DomTyped DEF DomInv
    <2>2. b \in Dom!Binding
      BY <2>1, DomZero DEF DomParts, Dom!Binding
    <2>3. \A there \in {"files", "failed"} : [cleaner EXCEPT !.at = there] \in DomCleaners
      BY <2>1 DEF DomParts, DomCleaners
    <2>4. /\ mem' \in {mem, b} /\ row' \in {row, b} /\ cleaner' \in {cleaner} \cup {[cleaner EXCEPT !.at = there] : there \in {"files", "failed"}}
          /\ domTroubles' \in 0 .. DomainTroubles /\ UNCHANGED <<files, domWorker, cloud, late, strays, made, names>>
      BY <2>1 DEF DomParts, Dom!DomainConstants, Dom!Cleared, Dom!CleanupSave, Dom!Saved, Dom!Unsaved, Dom!Cleans, Dom!Quiet, Dom!Trouble, Dom!cloudVars
    <2> HIDE DEF b
    <2>5. cleaner' \in DomCleaners
      BY <2>1, <2>3, <2>4 DEF DomParts
    <2> QED
      BY <2>1, <2>2, <2>4, <2>5, DomTyped DEF DomParts
  <1>2. DomRows'
    BY DEF DomInv, DomTypes, DomRows, DomWorks, DomCleans, Dom!TypeOK, Dom!Binding, Dom!Cleared, Dom!CleanupSave, Dom!Saved, Dom!Unsaved,
           Dom!Cleans, Dom!Quiet, Dom!Trouble, Dom!cloudVars
  <1>3. DomOurs'
    BY DEF DomInv, DomTypes, DomRows, DomOurs, DomWorks, DomCleans, Dom!TypeOK, Dom!Binding, Fresh, Dom!Cleared, Dom!CleanupSave,
           Dom!Saved, Dom!Unsaved, Dom!Cleans, Dom!Quiet, Dom!Trouble, Dom!cloudVars
  <1>4. DomRecord'
    BY DEF DomInv, DomTypes, DomRows, DomRecord, DomWorks, DomCleans, Dom!TypeOK, Dom!Binding, OurRecord, Dom!Cleared, Dom!CleanupSave,
           Dom!Saved, Dom!Unsaved, Dom!Cleans, Dom!Quiet, Dom!Trouble, Dom!cloudVars
  <1>5. DomHeld'
    BY DEF DomInv, DomTypes, DomRows, DomHeld, DomWorks, DomCleans, Dom!TypeOK, Dom!Binding, Dom!Cleared, Dom!CleanupSave, Dom!Saved,
           Dom!Unsaved, Dom!Cleans, Dom!Quiet, Dom!Trouble, Dom!cloudVars
  <1>6. DomWorks'
    BY DEF DomInv, DomTypes, DomRecords, DomRows, DomOurs, DomRecord, DomDns, DomHeld, DomWorks, DomCleans, Dom!TypeOK, Dom!Binding,
           Dom!Name, Dom!Number, Dom!DomainConstants, Dom!Alone, Fresh, OurRecord, Dom!Cleared, Dom!CleanupSave,
           Dom!Saved, Dom!Unsaved, Dom!Cleans, Dom!Quiet, Dom!Trouble, Dom!cloudVars
  <1>7. DomCleans'
    BY DEF DomInv, DomTypes, DomRows, DomWorks, DomCleans, Dom!TypeOK, Dom!Binding, Dom!Alone, Fresh, OurRecord, Dom!Cleared,
           Dom!CleanupSave, Dom!Saved, Dom!Unsaved, Dom!Cleans, Dom!Quiet, Dom!Trouble, Dom!cloudVars
  <1>8. DomDns'
    BY DEF DomInv, DomTypes, DomDns, DomWorks, Dom!TypeOK, Dom!Binding, Dom!Cleared, Dom!CleanupSave, Dom!Saved, Dom!Unsaved, Dom!Cleans,
           Dom!Quiet, Dom!Trouble, Dom!cloudVars
  <1> QED
    BY <1>1, <1>2, <1>3, <1>4, <1>5, <1>6, <1>7, <1>8 DEF DomInv

\* It removes the files.
LEMMA DomRemoveFiles ==
    ASSUME DomInv, Dom!DomainConstants, Dom!RemoveFiles
    PROVE  DomInv'
  <1>1. DomTypes'
    BY DEF DomInv, DomTypes, DomRecords, DomWorks, Dom!TypeOK, Dom!Binding, Dom!Name, Dom!Number, Dom!DomainConstants, Dom!RemoveFiles,
           Dom!Cleans, Dom!StepFails, Dom!Quiet, Dom!Trouble, Dom!cloudVars, Dom!bindings
  <1>2. DomRows'
    BY DEF DomInv, DomRows, Dom!RemoveFiles, Dom!Cleans, Dom!StepFails, Dom!Quiet, Dom!Trouble, Dom!cloudVars,
           Dom!bindings
  <1>3. DomOurs'
    BY DEF DomInv, DomTypes, DomRows, DomOurs, DomWorks, DomCleans, Dom!TypeOK, Dom!Binding, Fresh, Dom!RemoveFiles, Dom!Cleans,
           Dom!StepFails, Dom!Quiet, Dom!Trouble, Dom!cloudVars, Dom!bindings
  <1>4. DomRecord'
    BY DEF DomInv, DomRecord, OurRecord, Dom!RemoveFiles, Dom!Cleans, Dom!StepFails, Dom!Quiet, Dom!Trouble,
           Dom!cloudVars, Dom!bindings
  <1>5. DomHeld'
    BY DEF DomInv, DomHeld, Dom!RemoveFiles, Dom!Cleans, Dom!StepFails, Dom!Quiet, Dom!Trouble, Dom!cloudVars,
           Dom!bindings
  <1>6. DomWorks'
    BY DEF DomInv, DomTypes, DomRecords, DomRows, DomOurs, DomRecord, DomDns, DomHeld, DomWorks, DomCleans, Dom!TypeOK, Dom!Binding,
           Dom!Name, Dom!Number, Dom!DomainConstants, Dom!Alone, Fresh, OurRecord, Dom!RemoveFiles, Dom!Cleans,
           Dom!StepFails, Dom!Quiet, Dom!Trouble, Dom!cloudVars, Dom!bindings
  <1>7. DomCleans'
    BY DEF DomInv, DomTypes, DomRows, DomWorks, DomCleans, Dom!TypeOK, Dom!Binding, Dom!Alone, Fresh, OurRecord, Dom!RemoveFiles,
           Dom!Cleans, Dom!StepFails, Dom!Quiet, Dom!Trouble, Dom!cloudVars, Dom!bindings
  <1>8. DomDns'
    BY DEF DomInv, DomTypes, DomDns, DomWorks, Dom!TypeOK, Dom!Binding, Dom!RemoveFiles, Dom!Cleans, Dom!StepFails, Dom!Quiet, Dom!Trouble,
           Dom!cloudVars, Dom!bindings
  <1> QED
    BY <1>1, <1>2, <1>3, <1>4, <1>5, <1>6, <1>7, <1>8 DEF DomInv

\* It forgets the binding.
LEMMA DomComplete ==
    ASSUME DomInv, Dom!DomainConstants, Dom!Complete
    PROVE  DomInv'
  <1>1. DomTypes'
    <2> DEFINE b == Dom!Unbound
    <2>1. DomParts
      BY DomTyped DEF DomInv
    <2>2. b \in Dom!Binding
      BY <2>1, DomZero DEF DomParts, Dom!Binding
    <2>3. \A there \in {"off", "failed"} : [cleaner EXCEPT !.at = there] \in DomCleaners
      BY <2>1 DEF DomParts, DomCleaners
    <2>4. /\ mem' \in {mem, b} /\ row' \in {row, b} /\ cleaner' \in {cleaner} \cup {[cleaner EXCEPT !.at = there] : there \in {"off", "failed"}}
          /\ domTroubles' \in 0 .. DomainTroubles /\ UNCHANGED <<files, domWorker, cloud, late, strays, made, names>>
      BY <2>1 DEF DomParts, Dom!DomainConstants, Dom!Complete, Dom!CleanupSave, Dom!Saved, Dom!Unsaved, Dom!Cleans, Dom!Quiet, Dom!Trouble, Dom!cloudVars
    <2> HIDE DEF b
    <2>5. cleaner' \in DomCleaners
      BY <2>1, <2>3, <2>4 DEF DomParts
    <2> QED
      BY <2>1, <2>2, <2>4, <2>5, DomTyped DEF DomParts
  <1>2. DomRows'
    BY DEF DomInv, DomTypes, DomRows, DomWorks, DomCleans, Dom!TypeOK, Dom!Binding, Dom!Complete, Dom!CleanupSave, Dom!Saved, Dom!Unsaved,
           Dom!Cleans, Dom!Quiet, Dom!Trouble, Dom!cloudVars, Dom!Unbound
  <1>3. DomOurs'
    BY DEF DomInv, DomTypes, DomRows, DomOurs, DomWorks, DomCleans, Dom!TypeOK, Dom!Binding, Fresh, Dom!Complete, Dom!CleanupSave,
           Dom!Saved, Dom!Unsaved, Dom!Cleans, Dom!Quiet, Dom!Trouble, Dom!cloudVars, Dom!Unbound
  <1>4. DomRecord'
    BY DEF DomInv, DomTypes, DomRows, DomRecord, DomWorks, DomCleans, Dom!TypeOK, Dom!Binding, OurRecord, Dom!Complete, Dom!CleanupSave,
           Dom!Saved, Dom!Unsaved, Dom!Cleans, Dom!Quiet, Dom!Trouble, Dom!cloudVars, Dom!Unbound
  <1>5. DomHeld'
    BY DEF DomInv, DomTypes, DomRows, DomHeld, DomWorks, DomCleans, Dom!TypeOK, Dom!Binding, Dom!Complete, Dom!CleanupSave, Dom!Saved,
           Dom!Unsaved, Dom!Cleans, Dom!Quiet, Dom!Trouble, Dom!cloudVars, Dom!Unbound
  <1>6. DomWorks'
    BY DEF DomInv, DomTypes, DomRecords, DomRows, DomOurs, DomRecord, DomDns, DomHeld, DomWorks, DomCleans, Dom!TypeOK, Dom!Binding,
           Dom!Name, Dom!Number, Dom!DomainConstants, Dom!Alone, Fresh, OurRecord, Dom!Complete, Dom!CleanupSave,
           Dom!Saved, Dom!Unsaved, Dom!Cleans, Dom!Quiet, Dom!Trouble, Dom!cloudVars, Dom!Unbound
  <1>7. DomCleans'
    BY DEF DomInv, DomTypes, DomRows, DomWorks, DomCleans, Dom!TypeOK, Dom!Binding, Dom!Alone, Fresh, OurRecord, Dom!Complete,
           Dom!CleanupSave, Dom!Saved, Dom!Unsaved, Dom!Cleans, Dom!Quiet, Dom!Trouble, Dom!cloudVars, Dom!Unbound
  <1>8. DomDns'
    BY DEF DomInv, DomTypes, DomDns, DomWorks, Dom!TypeOK, Dom!Binding, Dom!Complete, Dom!CleanupSave, Dom!Saved, Dom!Unsaved, Dom!Cleans,
           Dom!Quiet, Dom!Trouble, Dom!cloudVars, Dom!Unbound
  <1> QED
    BY <1>1, <1>2, <1>3, <1>4, <1>5, <1>6, <1>7, <1>8 DEF DomInv

\* It ends in a failure.
LEMMA DomCleanupFails ==
    ASSUME DomInv, Dom!DomainConstants, Dom!CleanupFails
    PROVE  DomInv'
  <1>1. DomTypes'
    BY DEF DomInv, DomTypes, DomRecords, DomWorks, Dom!TypeOK, Dom!Binding, Dom!Name, Dom!Number, Dom!DomainConstants, Dom!CleanupFails,
           Dom!Saved, Dom!Quiet, Dom!Trouble, Dom!cloudVars, Dom!Still
  <1>2. DomRows'
    BY DEF DomInv, DomTypes, DomRows, DomWorks, DomCleans, Dom!TypeOK, Dom!Binding, Dom!CleanupFails, Dom!Saved, Dom!Quiet, Dom!Trouble,
           Dom!cloudVars, Dom!Still
  <1>3. DomOurs'
    BY DEF DomInv, DomTypes, DomRows, DomOurs, DomWorks, DomCleans, Dom!TypeOK, Dom!Binding, Fresh, Dom!CleanupFails, Dom!Saved, Dom!Quiet,
           Dom!Trouble, Dom!cloudVars, Dom!Still
  <1>4. DomRecord'
    BY DEF DomInv, DomTypes, DomRows, DomRecord, DomWorks, DomCleans, Dom!TypeOK, Dom!Binding, OurRecord, Dom!CleanupFails, Dom!Saved,
           Dom!Quiet, Dom!Trouble, Dom!cloudVars, Dom!Still
  <1>5. DomHeld'
    BY DEF DomInv, DomTypes, DomRows, DomHeld, DomWorks, DomCleans, Dom!TypeOK, Dom!Binding, Dom!CleanupFails, Dom!Saved, Dom!Quiet,
           Dom!Trouble, Dom!cloudVars, Dom!Still
  <1>6. DomWorks'
    BY DEF DomInv, DomTypes, DomRows, DomWorks, DomCleans, Dom!TypeOK, Dom!Binding, Dom!CleanupFails, Dom!Saved, Dom!Quiet, Dom!Trouble,
           Dom!cloudVars, Dom!Still
  <1>7. DomCleans'
    BY DEF DomInv, DomTypes, DomRows, DomWorks, DomCleans, Dom!TypeOK, Dom!Binding, Dom!Alone, Fresh, OurRecord, Dom!CleanupFails,
           Dom!Saved, Dom!Quiet, Dom!Trouble, Dom!cloudVars, Dom!Still
  <1>8. DomDns'
    BY DEF DomInv, DomTypes, DomDns, DomWorks, Dom!TypeOK, Dom!Binding, Dom!CleanupFails, Dom!Saved, Dom!Quiet, Dom!Trouble, Dom!cloudVars,
           Dom!Still
  <1> QED
    BY <1>1, <1>2, <1>3, <1>4, <1>5, <1>6, <1>7, <1>8 DEF DomInv

\* The program ends and reads its row.
LEMMA DomRestart ==
    ASSUME DomInv, Dom!DomainConstants, Dom!Restart
    PROVE  DomInv'
  <1>1. DomTypes'
    <2>1. DomParts
      BY DomTyped DEF DomInv
    <2>2. \A status \in {"connecting", "failed"} : [row EXCEPT !.status = status] \in Dom!Binding
      BY <2>1 DEF DomParts, Dom!Binding
    <2>3. mem' \in Dom!Binding
      BY <2>1, <2>2 DEF DomParts, Dom!Restart
    <2>4. domWorker' \in DomWorkers /\ cleaner' \in DomCleaners
      BY DomBegins, DomWaits, DomStops DEF Dom!Restart
    <2>5. ASSUME domWorker.at \in {"make", "record"}
          PROVE  [what |-> domWorker.at, name |-> mem.name, tunnel |-> mem.tunnel]
                     \in [what : {"make", "record"}, name : Dom!Name, tunnel : Dom!Number]
      BY <2>1, <2>5 DEF DomParts, Dom!Binding
    <2>6. late' \subseteq [what : {"make", "record"}, name : Dom!Name, tunnel : Dom!Number]
      BY <2>1, <2>5 DEF DomParts, Dom!Restart
    <2>7. domTroubles' \in 0 .. DomainTroubles /\ UNCHANGED <<row, files, cloud, strays, made, names>>
      BY <2>1 DEF DomParts, Dom!Restart, Dom!Trouble, Dom!DomainConstants
    <2> QED
      BY <2>1, <2>3, <2>4, <2>6, <2>7, DomTyped DEF DomParts
  <1>2. DomRows'
    BY DEF DomInv, DomTypes, DomRows, DomWorks, DomCleans, Dom!TypeOK, Dom!Binding, Dom!Restart, Dom!Trouble, Dom!Off, Dom!Still
  <1>3. DomOurs'
    BY DEF DomInv, DomTypes, DomRows, DomOurs, DomWorks, DomCleans, Dom!TypeOK, Dom!Binding, Fresh, Dom!Restart, Dom!Trouble, Dom!Off,
           Dom!Still
  <1>4. DomRecord'
    BY DEF DomInv, DomTypes, DomRows, DomRecord, DomWorks, DomCleans, Dom!TypeOK, Dom!Binding, OurRecord, Dom!Restart, Dom!Trouble,
           Dom!Off, Dom!Still
  <1>5. DomHeld'
    <2>1. row \in Dom!Binding
      BY DomTyped DEF DomInv, DomParts
    <2>2. mem'.name = row.name /\ mem'.tunnel = row.tunnel /\ mem'.removing = row.removing /\ UNCHANGED <<row, cloud, strays>>
      BY <2>1 DEF Dom!Restart, Dom!Binding
    <2>3. ~ row.removing /\ row.tunnel # 0 => ~ mem.removing /\ row.name = mem.name
      BY DEF DomInv, DomRows, Dom!Unbound
    <2> QED
      BY <2>2, <2>3 DEF DomInv, DomHeld
  <1>6. DomWorks'
    BY DEF DomInv, DomTypes, DomRows, DomWorks, DomCleans, Dom!TypeOK, Dom!Binding, Dom!Restart, Dom!Trouble, Dom!Off, Dom!Still
  <1>7. DomCleans'
    BY DEF DomInv, DomTypes, DomRows, DomWorks, DomCleans, Dom!TypeOK, Dom!Binding, Dom!Alone, Fresh, OurRecord, Dom!Restart, Dom!Trouble,
           Dom!Off, Dom!Still
  <1>8. DomDns'
    BY DEF DomInv, DomTypes, DomDns, DomWorks, Dom!TypeOK, Dom!Binding, Dom!Restart, Dom!Trouble, Dom!Off, Dom!Still
  <1> QED
    BY <1>1, <1>2, <1>3, <1>4, <1>5, <1>6, <1>7, <1>8 DEF DomInv

\* An abandoned request takes effect.
LEMMA DomLate ==
    ASSUME DomInv, Dom!DomainConstants, Dom!Late
    PROVE  DomInv'
  <1>1. DomTypes'
    BY DEF DomInv, DomTypes, DomRecords, DomWorks, Dom!TypeOK, Dom!Binding, Dom!Name, Dom!Number, Dom!DomainConstants, Dom!Late, Dom!Quiet,
           Dom!Record, Dom!NewId, Dom!NoDns, Dom!Tunnel, Dom!bindings
  <1>2. DomRows'
    BY DEF DomInv, DomTypes, DomRows, DomWorks, DomCleans, Dom!TypeOK, Dom!Binding, Dom!Late, Dom!Quiet, Dom!Record, Dom!NewId, Dom!NoDns,
           Dom!Tunnel, Dom!bindings
  <1>3. DomOurs'
    BY DEF DomInv, DomTypes, DomRecords, DomRows, DomOurs, DomRecord, DomDns, DomHeld, DomWorks, DomCleans, Dom!TypeOK, Dom!Binding,
           Dom!Name, Dom!Number, Dom!DomainConstants, Dom!Alone, Fresh, OurRecord, Dom!Late, Dom!Quiet, Dom!Record, Dom!NewId, Dom!NoDns,
           Dom!Tunnel, Dom!bindings
  <1>4. DomRecord'
    BY DEF DomInv, DomTypes, DomRows, DomRecord, DomWorks, DomCleans, Dom!TypeOK, Dom!Binding, OurRecord, Dom!Late, Dom!Quiet, Dom!Record,
           Dom!NewId, Dom!NoDns, Dom!Tunnel, Dom!bindings
  <1>5. DomHeld'
    BY DEF DomInv, DomTypes, DomRows, DomHeld, DomWorks, DomCleans, Dom!TypeOK, Dom!Binding, Dom!Late, Dom!Quiet, Dom!Record, Dom!NewId,
           Dom!NoDns, Dom!Tunnel, Dom!bindings
  <1>6. DomWorks'
    BY DEF DomInv, DomTypes, DomRows, DomWorks, DomCleans, Dom!TypeOK, Dom!Binding, Dom!Late, Dom!Quiet, Dom!Record, Dom!NewId, Dom!NoDns,
           Dom!Tunnel, Dom!bindings
  <1>7. DomCleans'
    BY DEF DomInv, DomTypes, DomRows, DomWorks, DomCleans, Dom!TypeOK, Dom!Binding, Dom!Alone, Fresh, OurRecord, Dom!Late, Dom!Quiet,
           Dom!Record, Dom!NewId, Dom!NoDns, Dom!Tunnel, Dom!bindings
  <1>8. DomDns'
    BY DEF DomInv, DomTypes, DomDns, DomWorks, Dom!TypeOK, Dom!Binding, Dom!Late, Dom!Quiet, Dom!Record, Dom!NewId, Dom!NoDns, Dom!Tunnel,
           Dom!bindings
  <1> QED
    BY <1>1, <1>2, <1>3, <1>4, <1>5, <1>6, <1>7, <1>8 DEF DomInv

\* Somebody changes the account.
LEMMA DomOthers ==
    ASSUME DomInv, Dom!DomainConstants, Dom!Others
    PROVE  DomInv'
  <1>1. DomTypes'
    BY DEF DomInv, DomTypes, DomRecords, DomWorks, Dom!TypeOK, Dom!Binding, Dom!Name, Dom!Number, Dom!DomainConstants, Dom!Others,
           Dom!Trouble, Dom!NoDns, Dom!Foreign, Dom!NewId, Dom!Tunnel, Dom!bindings
  <1>2. DomRows'
    BY DEF DomInv, DomTypes, DomRows, DomWorks, DomCleans, Dom!TypeOK, Dom!Binding, Dom!Others, Dom!Trouble, Dom!NoDns, Dom!Foreign,
           Dom!NewId, Dom!Tunnel, Dom!bindings
  <1>3. DomOurs'
    BY DEF DomInv, DomTypes, DomRows, DomOurs, DomWorks, DomCleans, Dom!TypeOK, Dom!Binding, Fresh, Dom!Others, Dom!Trouble, Dom!NoDns,
           Dom!Foreign, Dom!NewId, Dom!Tunnel, Dom!bindings
  <1>4. DomRecord'
    BY DEF DomInv, DomTypes, DomRows, DomRecord, DomWorks, DomCleans, Dom!TypeOK, Dom!Binding, OurRecord, Dom!Others, Dom!Trouble,
           Dom!NoDns, Dom!Foreign, Dom!NewId, Dom!Tunnel, Dom!bindings
  <1>5. DomHeld'
    BY DEF DomInv, DomTypes, DomRows, DomHeld, DomWorks, DomCleans, Dom!TypeOK, Dom!Binding, Dom!Others, Dom!Trouble, Dom!NoDns,
           Dom!Foreign, Dom!NewId, Dom!Tunnel, Dom!bindings
  <1>6. DomWorks'
    BY DEF DomInv, DomTypes, DomRows, DomWorks, DomCleans, Dom!TypeOK, Dom!Binding, Dom!Others, Dom!Trouble, Dom!NoDns, Dom!Foreign,
           Dom!NewId, Dom!Tunnel, Dom!bindings
  <1>7. DomCleans'
    BY DEF DomInv, DomTypes, DomRows, DomWorks, DomCleans, Dom!TypeOK, Dom!Binding, Dom!Alone, Fresh, OurRecord, Dom!Others, Dom!Trouble,
           Dom!NoDns, Dom!Foreign, Dom!NewId, Dom!Tunnel, Dom!bindings
  <1>8. DomDns'
    BY DEF DomInv, DomTypes, DomDns, DomWorks, Dom!TypeOK, Dom!Binding, Dom!Others, Dom!Trouble, Dom!NoDns, Dom!Foreign, Dom!NewId,
           Dom!Tunnel, Dom!bindings
  <1> QED
    BY <1>1, <1>2, <1>3, <1>4, <1>5, <1>6, <1>7, <1>8 DEF DomInv

\* The program finds nothing, or a record that is not ours.
LEMMA DomInit ==
    ASSUME Dom!DomainConstants, Dom!Init
    PROVE  DomInv
  <1>1. cloud.tunnels = {} /\ cloud.dns \in {Dom!NoDns, Dom!Foreign(1)}
    BY DEF Dom!Init
  <1>2. DomParts
    <2>1. 1 \in Dom!Number /\ 0 \in Dom!Number /\ 0 \in Dom!Name
      BY DomZero DEF Dom!Number, Dom!DomainConstants
    <2>2. Dom!NoDns \in DomRecords /\ Dom!Foreign(1) \in DomRecords
      BY <2>1 DEF DomRecords, Dom!NoDns, Dom!Foreign
    <2>3. cloud \in [tunnels : SUBSET [number : Dom!Number, name : Dom!Name], dns : DomRecords]
      BY <2>2 DEF Dom!Init
    <2> QED
      BY <2>1, <2>3, DomZero, DomStops DEF Dom!Init, DomParts, Dom!DomainConstants
  <1>3. DomTypes
    BY <1>2, DomTyped
  <1>4. cloud.dns.name = 0 /\ DomDns
    BY <1>1, DomStops DEF Dom!Init, DomDns, Dom!NoDns, Dom!Foreign
  <1>5. DomRows /\ DomOurs /\ DomRecord /\ DomHeld
    BY <1>1, <1>4 DEF Dom!Init, DomRows, DomOurs, DomRecord, DomHeld, OurRecord, Dom!Unbound
  <1>6. DomWorks /\ DomCleans
    BY DomStops DEF Dom!Init, DomWorks, DomCleans, Dom!Alone, Dom!Unbound
  <1> QED
    BY <1>3, <1>4, <1>5, <1>6 DEF DomInv

\* A record that others have made, or have made their own, survives every step.
LEMMA DomSpares ==
    ASSUME DomInv, Dom!DomainConstants, Dom!Next, Dom!Theirs(cloud.dns)
    PROVE  cloud'.dns = cloud.dns
  <1>1. /\ cloud \in [tunnels : SUBSET [number : Dom!Number, name : Dom!Name], dns : DomRecords]
        /\ cloud.dns # Dom!NoDns /\ cloud.dns.name = 0
    BY DomTyped DEF DomInv, DomParts, Dom!Theirs
  <1>2. cloud' = cloud => cloud'.dns = cloud.dns
    OBVIOUS
  <1>3. CASE Dom!MakeTunnel
    BY <1>1, <1>3 DEF Dom!MakeTunnel
  <1>4. CASE Dom!EnsureDns
    BY <1>2, <1>4 DEF Dom!EnsureDns
  <1>5. CASE Dom!MakeDns
    BY <1>1, <1>5 DEF Dom!MakeDns
  <1>6. CASE Dom!Unname
    <2>1. cleaner.dns # 0 /\ cloud.dns.id # 0
      BY <1>1, <1>6 DEF DomInv, DomDns, Dom!Unname
    <2>2. cloud.dns.id # cleaner.dns
      BY <2>1 DEF DomInv, DomDns, Dom!Theirs
    <2> QED
      BY <1>1, <1>6, <2>2 DEF Dom!Unname
  <1>7. CASE Dom!Delete
    BY <1>1, <1>7 DEF Dom!Delete
  <1>8. CASE Dom!Late
    BY <1>1, <1>8 DEF Dom!Late
  <1>9. CASE Dom!Others
    BY <1>1, <1>9 DEF Dom!Others
  <1>10. CASE \/ Dom!Connect \/ Dom!Disconnect \/ Dom!Certificate \/ Dom!Asks("zone", "resume") \/ Dom!Resume \/ Dom!Secret
              \/ Dom!Provision \/ Dom!FindTunnel \/ Dom!Found \/ Dom!Named \/ Dom!RunConnector \/ Dom!Abandons
              \/ Dom!WorkerEnds \/ Dom!Wait \/ Dom!FindOwned \/ Dom!Check \/ Dom!List \/ Dom!Cleared \/ Dom!RemoveFiles
              \/ Dom!Complete \/ Dom!CleanupFails \/ Dom!Restart
    BY <1>2, <1>10 DEF Dom!Connect, Dom!Disconnect, Dom!Certificate, Dom!Asks, Dom!Resume, Dom!Secret, Dom!Provision,
           Dom!FindTunnel, Dom!Found, Dom!Named, Dom!RunConnector, Dom!Abandons, Dom!WorkerEnds, Dom!Wait, Dom!FindOwned,
           Dom!Check, Dom!List, Dom!Cleared, Dom!RemoveFiles, Dom!Complete, Dom!CleanupFails, Dom!Restart, Dom!Writes,
           Dom!CleanupSave, Dom!cloudVars
  <1> QED
    BY <1>3, <1>4, <1>5, <1>6, <1>7, <1>8, <1>9, <1>10 DEF Dom!Next, Dom!Worker, Dom!Cleanup

\* Every step of the domain's tunnel.
LEMMA DomNext ==
    ASSUME DomInv, Dom!DomainConstants, Dom!Next
    PROVE  DomInv'
  BY DomConnect, DomDisconnect, DomCertificate, DomZone, DomResume, DomSecret, DomProvision, DomFindTunnel, DomMakeTunnel,
     DomFound, DomEnsureDns, DomMakeDns, DomNames, DomRunConnector, DomAbandons, DomWorkerEnds, DomWait, DomFindOwned,
     DomCheck, DomList, DomUnname, DomDelete, DomCleared, DomRemoveFiles, DomComplete, DomCleanupFails, DomRestart, DomLate, DomOthers
  DEF Dom!Next, Dom!Worker, Dom!Cleanup

\* A step of another part.
LEMMA DomRests ==
    ASSUME DomInv, UNCHANGED varsDom
    PROVE  DomInv'
  BY DEF varsDom, DomInv, DomTypes, Dom!TypeOK, DomRecords, DomRows, DomOurs, DomRecord, DomDns, DomHeld, DomWorks, DomCleans,
         Dom!Alone, Fresh, OurRecord, Dom!Ours, Dom!Id

\* The row knows every tunnel and record that is left (tunnel.go, tunnel_cleanup.go), for any number of bindings and troubles.
LEMMA DomGood ==
    ASSUME DomInv
    PROVE  Dom!TunnelSound
  <1>1. Dom!TypeOK
    BY DEF DomInv, DomTypes
  <1>2. Dom!Known
    BY DEF DomInv, DomOurs, Fresh, Dom!Known
  <1>3. Dom!NoDangling
    BY DEF DomInv, DomRecord, OurRecord, Dom!NoDangling
  <1>4. Dom!Alone
    BY DEF DomInv, DomCleans
  <1>5. Dom!Held
    <2>1. \A t \in cloud.tunnels : t = Dom!Tunnel(t.number, t.name)
      BY DomTyped DEF DomInv, DomParts, Dom!Tunnel
    <2> QED
      BY <2>1 DEF DomInv, DomHeld, Dom!Held
  <1> QED
    BY <1>1, <1>2, <1>3, <1>4, <1>5 DEF Dom!TunnelSound

\* The inductive invariant of the domain's tunnel holds for any number of bindings and of troubles.
THEOREM DomainInvariant == Behaviour => []DomInv
  <1>1. Dom!DomainConstants
    BY DomainBounds
  <1>2. InitAll => DomInv
    BY <1>1, DomInit DEF InitAll
  <1>3. DomInv /\ [NextAll]_all => DomInv'
    <2>1. ASSUME DomInv, NextAll
          PROVE  DomInv'
      BY <1>1, <2>1, DomNext, DomRests DEF NextAll
    <2>2. ASSUME DomInv, UNCHANGED all
          PROVE  DomInv'
      BY <2>2, DomRests DEF all
    <2> QED
      BY <2>1, <2>2
  <1> QED
    BY <1>2, <1>3, PTL DEF Behaviour

\* The records of others (cloudflare.go, tunnel_cleanup.go): neither the worker, nor a request it has abandoned, nor a
\* cleanup that lists the records once and then deletes by number, as often as it takes and after whatever restarts,
\* changes one that others have made, or ours that they have made their own before the cleanup listed it.
THEOREM ForeignIsSpared == Behaviour => ForeignSpared
  <1>1. DomInv /\ [NextAll]_all => [Dom!Theirs(cloud.dns) => cloud'.dns = cloud.dns]_(Dom!vars)
    <2> SUFFICES ASSUME DomInv, [NextAll]_all, Dom!Theirs(cloud.dns), ~ UNCHANGED Dom!vars
                 PROVE  cloud'.dns = cloud.dns
      OBVIOUS
    <2>1. CASE Dom!Next
      BY <2>1, DomSpares, DomainBounds
    <2>2. CASE UNCHANGED varsDom
      BY <2>2 DEF varsDom
    <2> QED
      BY <2>1, <2>2 DEF NextAll, all
  <1> QED
    BY <1>1, DomainInvariant, PTL DEF Behaviour, ForeignSpared, Dom!ForeignSpared

-----------------------------------------------------------------------------
(* A call over the modem                                                     *)

\* A call of ours that talks or dials.
OwnCall == \E i \in Cell!Voice : cellCalls[i].own /\ cellCalls[i].state \in {"dialing", "active"}

CellTypes == Cell!TypeOK /\ generation <= cellTroubles /\ handle.session <= generation

\* The types, part by part.
CellParts ==
    /\ cellCalls \in [CallNumbers -> Cell!Call] /\ sound \in [pcm : BOOLEAN, gps : Cell!Gps, mic : BOOLEAN]
    /\ disk \in Cell!File /\ handle \in Cell!Handles /\ handle.session <= generation /\ pc \in Cell!Steps
    /\ generation \in 0 .. CellularTroubles /\ cellTroubles \in 0 .. CellularTroubles /\ generation <= cellTroubles
    /\ others \in 0 .. MaxCalls /\ home \in Cell!Gps

\* The file at every step of a handle.
CellFile ==
    /\ disk.file = "saved" => disk.gps = home
    /\ pc \in {"check", "read", "save"} => disk = Cell!NoFile
    /\ pc = "written" => disk = Cell!Torn
    /\ pc \in {"mute", "port", "pcm", "up", "answer"} => disk.file = "saved"
    /\ pc \notin {"none", "check", "read", "done"} => handle.gps = home

\* The sound path at every step; a device that enumerates again is another one.
CellSound ==
    /\ Cell!JournalHeld /\ Cell!Muted
    /\ pc \in {"port", "pcm"} /\ handle.session = generation => ~ sound.mic
    /\ pc \in {"port back", "mute again", "remove"} => ~ sound.pcm
    /\ pc \in {"mute again", "remove"} => sound.gps = home

\* The call is over before the settings are put back.
CellOver ==
    /\ Cell!NoOrphan
    /\ pc \in {"pcm off", "port back", "mute again", "remove"} => ~ OwnCall

CellInv == CellTypes /\ CellFile /\ CellSound /\ CellOver
\* Nobody's handle.
LEMMA CellNobody ==
    ASSUME Cell!VoiceConstants
    PROVE  Cell!NoHandle \in Cell!Handles /\ Cell!NoHandle.session = 0
  <1>1. 0 \in 0 .. CellularTroubles
    BY DEF Cell!VoiceConstants
  <1> QED
    BY <1>1 DEF Cell!NoHandle, Cell!Handles, Cell!Gps

\* A call that is found, answered or dialled.
LEMMA CellEdits ==
    ASSUME NEW c \in Cell!Call, c.state # "none"
    PROVE  /\ c # Cell!Free
           /\ [c EXCEPT !.own = TRUE] \in Cell!Call /\ [c EXCEPT !.own = TRUE].state = c.state
           /\ \A s \in {"dialing", "active", "incoming", "waiting"} :
                 /\ [c EXCEPT !.state = s] \in Cell!Call
                 /\ [c EXCEPT !.state = s].state = s /\ [c EXCEPT !.state = s].own = c.own
                 /\ [[c EXCEPT !.state = s] EXCEPT !.own = TRUE] \in Cell!Call
                 /\ [c EXCEPT !.state = s, !.own = TRUE] \in Cell!Call
  <1>1. c # Cell!Free /\ c \in [way : {"out", "in"}, state : {"dialing", "active", "incoming", "waiting"}, own : BOOLEAN]
    BY DEF Cell!Call, Cell!Free
  <1> QED
    BY <1>1 DEF Cell!Call

\* No call becomes one of ours that talks.
LEMMA CellKeeps ==
    ASSUME CellInv,
           \A i \in CallNumbers : cellCalls'[i].own /\ cellCalls'[i].state \in {"dialing", "active"}
                                  => cellCalls[i].own /\ cellCalls[i].state \in {"dialing", "active"}
    PROVE  OwnCall' => OwnCall
  <1> SUFFICES ASSUME OwnCall'
               PROVE  OwnCall
    OBVIOUS
  <1>1. PICK i \in CallNumbers : cellCalls'[i].own /\ cellCalls'[i].state \in {"dialing", "active"}
    BY DEF OwnCall, Cell!Voice
  <1>2. cellCalls[i] # Cell!Free
    BY <1>1 DEF Cell!Free
  <1> QED
    BY <1>1, <1>2 DEF OwnCall, Cell!Voice

\* A handle that is opened, and one that is made from a file.
LEMMA CellTakes ==
    ASSUME Cell!VoiceConstants, NEW g \in 0 .. CellularTroubles
    PROVE  /\ \A kind \in {"out", "in"} :
                 LET h == [Cell!NoHandle EXCEPT !.kind = kind, !.generation = g, !.session = g]
                 IN  h \in Cell!Handles /\ h.session = g
           /\ \A gps \in Cell!Gps :
                 LET h == [Cell!NoHandle EXCEPT !.kind = "recovery", !.gps = gps, !.generation = g, !.session = g]
                 IN  h \in Cell!Handles /\ h.session = g
  BY Zenon, CellNobody DEF Cell!Handles

\* A handle is opened.
LEMMA CellOpen ==
    ASSUME CellInv, Cell!VoiceConstants, \E kind \in {"out", "in"} : Cell!Open(kind)
    PROVE  CellInv'
  <1>1. CellTypes'
    <2>1. CellParts
      BY DEF CellInv, CellTypes, CellParts, Cell!TypeOK
    <2>2. cellCalls' \in [CallNumbers -> Cell!Call]
      BY <2>1 DEF CellParts, Cell!Call, Cell!Free, Cell!Voice, Cell!Open, Cell!Goto, Cell!modemVars, Cell!Rest,
             Cell!NoHandle
    <2>3. sound' \in [pcm : BOOLEAN, gps : Cell!Gps, mic : BOOLEAN]
      BY <2>1 DEF CellParts, Cell!Gps, Cell!Handles, Cell!Open, Cell!Goto, Cell!modemVars, Cell!Rest, Cell!NoHandle
    <2>4. disk' \in Cell!File
      BY <2>1 DEF CellParts, Cell!File, Cell!NoFile, Cell!Torn, Cell!Handles, Cell!Open, Cell!Goto, Cell!modemVars,
             Cell!Rest, Cell!NoHandle
    <2>5. handle' \in Cell!Handles /\ handle'.session <= generation'
      <3>1. generation \in 0 .. CellularTroubles /\ generation <= generation /\ disk.gps \in Cell!Gps
        BY <2>1 DEF CellParts, Cell!File, Cell!NoFile, Cell!Torn, Cell!Gps
      <3>2. PICK kind \in {"out", "in"} : handle' = [Cell!NoHandle EXCEPT !.kind = kind, !.generation = generation,
                                     !.session = generation] /\ UNCHANGED generation
        BY Zenon DEF Cell!Open, Cell!modemVars
      <3> QED
        BY Zenon, <3>1, <3>2, CellTakes
    <2>6. pc' \in Cell!Steps
      BY <2>1 DEF CellParts, Cell!Steps, Cell!Open, Cell!Goto, Cell!modemVars, Cell!Rest, Cell!NoHandle
    <2>7. /\ generation' \in 0 .. CellularTroubles /\ cellTroubles' \in 0 .. CellularTroubles
          /\ generation' <= cellTroubles' /\ others' \in 0 .. MaxCalls /\ home' \in Cell!Gps
      BY <2>1 DEF CellParts, Cell!VoiceConstants, Cell!Open, Cell!Goto, Cell!modemVars, Cell!Rest, Cell!NoHandle
    <2> QED
      BY <2>2, <2>3, <2>4, <2>5, <2>6, <2>7 DEF CellTypes, Cell!TypeOK
  <1>2. CellFile'
    BY DEF CellInv, CellTypes, CellFile, CellSound, CellOver, Cell!TypeOK, Cell!Call, Cell!File, Cell!Handles,
           Cell!Steps, Cell!Gps, Cell!Free, Cell!NoFile, Cell!Torn, Cell!VoiceConstants, Cell!JournalHeld, Cell!Muted,
           Cell!NoOrphan, Cell!Voice, OwnCall, Cell!Open, Cell!Goto, Cell!modemVars, Cell!Rest, Cell!NoHandle
  <1>3. CellSound'
    BY DEF CellInv, CellTypes, CellFile, CellSound, CellOver, Cell!TypeOK, Cell!Call, Cell!File, Cell!Handles,
           Cell!Steps, Cell!Gps, Cell!Free, Cell!NoFile, Cell!Torn, Cell!VoiceConstants, Cell!JournalHeld, Cell!Muted,
           Cell!NoOrphan, Cell!Voice, OwnCall, Cell!Open, Cell!Goto, Cell!modemVars, Cell!Rest, Cell!NoHandle
  <1>4. CellOver'
    BY DEF CellInv, CellTypes, CellFile, CellSound, CellOver, Cell!TypeOK, Cell!Call, Cell!File, Cell!Handles,
           Cell!Steps, Cell!Gps, Cell!Free, Cell!NoFile, Cell!Torn, Cell!VoiceConstants, Cell!JournalHeld, Cell!Muted,
           Cell!NoOrphan, Cell!Voice, OwnCall, Cell!Open, Cell!Goto, Cell!modemVars, Cell!Rest, Cell!NoHandle
  <1> QED
    BY <1>1, <1>2, <1>3, <1>4 DEF CellInv

\* The calls are looked at.
LEMMA CellCheck ==
    ASSUME CellInv, Cell!VoiceConstants, Cell!Check
    PROVE  CellInv'
  <1>1. CellTypes'
    <2>1. CellParts
      BY DEF CellInv, CellTypes, CellParts, Cell!TypeOK
    <2>2. cellCalls' \in [CallNumbers -> Cell!Call]
      <3>1. \A i \in CallNumbers : cellCalls[i] \in Cell!Call /\ (cellCalls[i].state # "none" => [cellCalls[i] EXCEPT !.own = TRUE] \in Cell!Call)
        BY Zenon, <2>1, CellEdits DEF CellParts
      <3>2. \/ UNCHANGED cellCalls
            \/ \E i \in CallNumbers : cellCalls[i].state = "incoming" /\ cellCalls' = [cellCalls EXCEPT ![i].own = TRUE]
        BY DEF Cell!Check, Cell!Voice, Cell!Ringing
      <3> QED
        BY <2>1, <3>1, <3>2 DEF CellParts
    <2>3. sound' \in [pcm : BOOLEAN, gps : Cell!Gps, mic : BOOLEAN]
      BY <2>1 DEF CellParts, Cell!Gps, Cell!Handles, Cell!Check, Cell!Query, Cell!Command, Cell!Attached, Cell!Rest,
             Cell!Goto, Cell!Voice, Cell!Ringing
    <2>4. disk' \in Cell!File
      BY <2>1 DEF CellParts, Cell!File, Cell!NoFile, Cell!Torn, Cell!Handles, Cell!Check, Cell!Query, Cell!Command,
             Cell!Attached, Cell!Rest, Cell!Goto, Cell!Voice, Cell!Ringing
    <2>5. handle' \in Cell!Handles /\ handle'.session <= generation'
      BY <2>1 DEF CellParts, Cell!Handles, Cell!Gps, Cell!File, Cell!NoFile, Cell!Torn, Cell!Voice, Cell!Check,
             Cell!Query, Cell!Command, Cell!Attached, Cell!Rest, Cell!Goto, Cell!Voice, Cell!Ringing
    <2>6. pc' \in Cell!Steps
      BY Zenon, <2>1 DEF CellParts, Cell!Steps, Cell!Check, Cell!Query, Cell!Command, Cell!Attached, Cell!Rest,
         Cell!Goto,
             Cell!Voice, Cell!Ringing
    <2>7. /\ generation' \in 0 .. CellularTroubles /\ cellTroubles' \in 0 .. CellularTroubles
          /\ generation' <= cellTroubles' /\ others' \in 0 .. MaxCalls /\ home' \in Cell!Gps
      BY <2>1 DEF CellParts, Cell!VoiceConstants, Cell!Check, Cell!Query, Cell!Command, Cell!Attached, Cell!Rest,
             Cell!Goto, Cell!Voice, Cell!Ringing
    <2> QED
      BY <2>2, <2>3, <2>4, <2>5, <2>6, <2>7 DEF CellTypes, Cell!TypeOK
  <1>2. CellFile'
    BY DEF CellInv, CellTypes, CellFile, CellSound, CellOver, Cell!TypeOK, Cell!Call, Cell!File, Cell!Handles,
           Cell!Steps, Cell!Gps, Cell!Free, Cell!NoFile, Cell!Torn, Cell!VoiceConstants, Cell!JournalHeld, Cell!Muted,
           Cell!NoOrphan, Cell!Voice, OwnCall, Cell!Check, Cell!Query, Cell!Command, Cell!Attached, Cell!Rest,
           Cell!Goto, Cell!Voice, Cell!Ringing
  <1>3. CellSound'
    BY Zenon DEF CellInv, CellTypes, CellFile, CellSound, CellOver, Cell!TypeOK, Cell!Call, Cell!File, Cell!Handles,
           Cell!Steps, Cell!Gps, Cell!Free, Cell!NoFile, Cell!Torn, Cell!VoiceConstants, Cell!JournalHeld, Cell!Muted,
           Cell!NoOrphan, Cell!Voice, OwnCall, Cell!Check, Cell!Query, Cell!Command, Cell!Attached, Cell!Rest,
           Cell!Goto, Cell!Voice, Cell!Ringing
  <1>4. CellOver'
    <2>1. \A i \in CallNumbers : cellCalls'[i].own /\ cellCalls'[i].state \in {"dialing", "active"}
                                 => cellCalls[i].own /\ cellCalls[i].state \in {"dialing", "active"}
      BY DEF CellInv, CellTypes, Cell!TypeOK, Cell!Call, Cell!Free, Cell!Voice, Cell!Ringing, Cell!Check
    <2>2. OwnCall' => OwnCall
      BY <2>1, CellKeeps
    <2>3. /\ disk'.file = disk.file \/ disk.file # "saved"
          /\ pc' \in {"pcm off", "port back", "mute again", "remove"} => pc' = pc
      BY Zenon DEF CellInv, CellFile, Cell!NoFile, Cell!Torn, Cell!Check, Cell!Query, Cell!Command, Cell!Goto
    <2> QED
      BY Zenon, <2>2, <2>3 DEF CellInv, CellOver, Cell!NoOrphan, OwnCall
  <1> QED
    BY <1>1, <1>2, <1>3, <1>4 DEF CellInv

\* The settings are read.
LEMMA CellRead ==
    ASSUME CellInv, Cell!VoiceConstants, Cell!Read
    PROVE  CellInv'
  <1>1. CellTypes'
    <2>1. CellParts
      BY DEF CellInv, CellTypes, CellParts, Cell!TypeOK
    <2>2. cellCalls' \in [CallNumbers -> Cell!Call]
      BY <2>1 DEF CellParts, Cell!Call, Cell!Free, Cell!Voice, Cell!Read, Cell!Query, Cell!Command, Cell!Attached,
             Cell!Rest, Cell!Goto, Cell!modemVars, Cell!Voice
    <2>3. sound' \in [pcm : BOOLEAN, gps : Cell!Gps, mic : BOOLEAN]
      BY <2>1 DEF CellParts, Cell!Gps, Cell!Handles, Cell!Read, Cell!Query, Cell!Command, Cell!Attached, Cell!Rest,
             Cell!Goto, Cell!modemVars, Cell!Voice
    <2>4. disk' \in Cell!File
      BY <2>1 DEF CellParts, Cell!File, Cell!NoFile, Cell!Torn, Cell!Handles, Cell!Read, Cell!Query, Cell!Command,
             Cell!Attached, Cell!Rest, Cell!Goto, Cell!modemVars, Cell!Voice
    <2>5. handle' \in Cell!Handles /\ handle'.session <= generation'
      BY <2>1 DEF CellParts, Cell!Handles, Cell!Gps, Cell!File, Cell!NoFile, Cell!Torn, Cell!Voice, Cell!Read,
             Cell!Query, Cell!Command, Cell!Attached, Cell!Rest, Cell!Goto, Cell!modemVars, Cell!Voice
    <2>6. pc' \in Cell!Steps
      BY Zenon, <2>1 DEF CellParts, Cell!Steps, Cell!Read, Cell!Query, Cell!Command, Cell!Attached, Cell!Rest,
         Cell!Goto,
             Cell!modemVars, Cell!Voice
    <2>7. /\ generation' \in 0 .. CellularTroubles /\ cellTroubles' \in 0 .. CellularTroubles
          /\ generation' <= cellTroubles' /\ others' \in 0 .. MaxCalls /\ home' \in Cell!Gps
      BY <2>1 DEF CellParts, Cell!VoiceConstants, Cell!Read, Cell!Query, Cell!Command, Cell!Attached, Cell!Rest,
             Cell!Goto, Cell!modemVars, Cell!Voice
    <2> QED
      BY <2>2, <2>3, <2>4, <2>5, <2>6, <2>7 DEF CellTypes, Cell!TypeOK
  <1>2. CellFile'
    BY DEF CellInv, CellTypes, CellFile, CellSound, CellOver, Cell!TypeOK, Cell!Call, Cell!File, Cell!Handles,
           Cell!Steps, Cell!Gps, Cell!Free, Cell!NoFile, Cell!Torn, Cell!VoiceConstants, Cell!JournalHeld, Cell!Muted,
           Cell!NoOrphan, Cell!Voice, OwnCall, Cell!Read, Cell!Query, Cell!Command, Cell!Attached, Cell!Rest,
           Cell!Goto, Cell!modemVars, Cell!Voice
  <1>3. CellSound'
    BY Zenon DEF CellInv, CellTypes, CellFile, CellSound, CellOver, Cell!TypeOK, Cell!Call, Cell!File, Cell!Handles,
           Cell!Steps, Cell!Gps, Cell!Free, Cell!NoFile, Cell!Torn, Cell!VoiceConstants, Cell!JournalHeld, Cell!Muted,
           Cell!NoOrphan, Cell!Voice, OwnCall, Cell!Read, Cell!Query, Cell!Command, Cell!Attached, Cell!Rest,
           Cell!Goto, Cell!modemVars, Cell!Voice
  <1>4. CellOver'
    BY Zenon DEF CellInv, CellTypes, CellFile, CellSound, CellOver, Cell!TypeOK, Cell!Call, Cell!File, Cell!Handles,
           Cell!Steps, Cell!Gps, Cell!Free, Cell!NoFile, Cell!Torn, Cell!VoiceConstants, Cell!JournalHeld, Cell!Muted,
           Cell!NoOrphan, Cell!Voice, OwnCall, Cell!Read, Cell!Query, Cell!Command, Cell!Attached, Cell!Rest,
           Cell!Goto, Cell!modemVars, Cell!Voice
  <1> QED
    BY <1>1, <1>2, <1>3, <1>4 DEF CellInv

\* The file is made.
LEMMA CellSave ==
    ASSUME CellInv, Cell!VoiceConstants, Cell!Save
    PROVE  CellInv'
  <1>1. CellTypes'
    <2>1. CellParts
      BY DEF CellInv, CellTypes, CellParts, Cell!TypeOK
    <2>2. cellCalls' \in [CallNumbers -> Cell!Call]
      BY <2>1 DEF CellParts, Cell!Call, Cell!Free, Cell!Voice, Cell!Save, Cell!Goto, Cell!modemVars, Cell!Rest
    <2>3. sound' \in [pcm : BOOLEAN, gps : Cell!Gps, mic : BOOLEAN]
      BY <2>1 DEF CellParts, Cell!Gps, Cell!Handles, Cell!Save, Cell!Goto, Cell!modemVars, Cell!Rest
    <2>4. disk' \in Cell!File
      BY <2>1 DEF CellParts, Cell!File, Cell!NoFile, Cell!Torn, Cell!Handles, Cell!Save, Cell!Goto, Cell!modemVars,
             Cell!Rest
    <2>5. handle' \in Cell!Handles /\ handle'.session <= generation'
      BY <2>1 DEF CellParts, Cell!Handles, Cell!Gps, Cell!File, Cell!NoFile, Cell!Torn, Cell!Voice, Cell!Save,
             Cell!Goto, Cell!modemVars, Cell!Rest
    <2>6. pc' \in Cell!Steps
      BY <2>1 DEF CellParts, Cell!Steps, Cell!Save, Cell!Goto, Cell!modemVars, Cell!Rest
    <2>7. /\ generation' \in 0 .. CellularTroubles /\ cellTroubles' \in 0 .. CellularTroubles
          /\ generation' <= cellTroubles' /\ others' \in 0 .. MaxCalls /\ home' \in Cell!Gps
      BY <2>1 DEF CellParts, Cell!VoiceConstants, Cell!Save, Cell!Goto, Cell!modemVars, Cell!Rest
    <2> QED
      BY <2>2, <2>3, <2>4, <2>5, <2>6, <2>7 DEF CellTypes, Cell!TypeOK
  <1>2. CellFile'
    BY DEF CellInv, CellTypes, CellFile, CellSound, CellOver, Cell!TypeOK, Cell!Call, Cell!File, Cell!Handles,
           Cell!Steps, Cell!Gps, Cell!Free, Cell!NoFile, Cell!Torn, Cell!VoiceConstants, Cell!JournalHeld, Cell!Muted,
           Cell!NoOrphan, Cell!Voice, OwnCall, Cell!Save, Cell!Goto, Cell!modemVars, Cell!Rest
  <1>3. CellSound'
    BY DEF CellInv, CellTypes, CellFile, CellSound, CellOver, Cell!TypeOK, Cell!Call, Cell!File, Cell!Handles,
           Cell!Steps, Cell!Gps, Cell!Free, Cell!NoFile, Cell!Torn, Cell!VoiceConstants, Cell!JournalHeld, Cell!Muted,
           Cell!NoOrphan, Cell!Voice, OwnCall, Cell!Save, Cell!Goto, Cell!modemVars, Cell!Rest
  <1>4. CellOver'
    BY DEF CellInv, CellTypes, CellFile, CellSound, CellOver, Cell!TypeOK, Cell!Call, Cell!File, Cell!Handles,
           Cell!Steps, Cell!Gps, Cell!Free, Cell!NoFile, Cell!Torn, Cell!VoiceConstants, Cell!JournalHeld, Cell!Muted,
           Cell!NoOrphan, Cell!Voice, OwnCall, Cell!Save, Cell!Goto, Cell!modemVars, Cell!Rest
  <1> QED
    BY <1>1, <1>2, <1>3, <1>4 DEF CellInv

\* The file is written.
LEMMA CellWritten ==
    ASSUME CellInv, Cell!VoiceConstants, Cell!Written
    PROVE  CellInv'
  <1>1. CellTypes'
    <2>1. CellParts
      BY DEF CellInv, CellTypes, CellParts, Cell!TypeOK
    <2>2. cellCalls' \in [CallNumbers -> Cell!Call]
      BY <2>1 DEF CellParts, Cell!Call, Cell!Free, Cell!Voice, Cell!Written, Cell!Goto, Cell!modemVars, Cell!Rest
    <2>3. sound' \in [pcm : BOOLEAN, gps : Cell!Gps, mic : BOOLEAN]
      BY <2>1 DEF CellParts, Cell!Gps, Cell!Handles, Cell!Written, Cell!Goto, Cell!modemVars, Cell!Rest
    <2>4. disk' \in Cell!File
      BY <2>1 DEF CellParts, Cell!File, Cell!NoFile, Cell!Torn, Cell!Handles, Cell!Written, Cell!Goto,
             Cell!modemVars, Cell!Rest
    <2>5. handle' \in Cell!Handles /\ handle'.session <= generation'
      BY <2>1 DEF CellParts, Cell!Handles, Cell!Gps, Cell!File, Cell!NoFile, Cell!Torn, Cell!Voice, Cell!Written,
             Cell!Goto, Cell!modemVars, Cell!Rest
    <2>6. pc' \in Cell!Steps
      BY Zenon, <2>1 DEF CellParts, Cell!Steps, Cell!Written, Cell!Goto, Cell!modemVars, Cell!Rest
    <2>7. /\ generation' \in 0 .. CellularTroubles /\ cellTroubles' \in 0 .. CellularTroubles
          /\ generation' <= cellTroubles' /\ others' \in 0 .. MaxCalls /\ home' \in Cell!Gps
      BY <2>1 DEF CellParts, Cell!VoiceConstants, Cell!Written, Cell!Goto, Cell!modemVars, Cell!Rest
    <2> QED
      BY <2>2, <2>3, <2>4, <2>5, <2>6, <2>7 DEF CellTypes, Cell!TypeOK
  <1>2. CellFile'
    BY DEF CellInv, CellTypes, CellFile, CellSound, CellOver, Cell!TypeOK, Cell!Call, Cell!File, Cell!Handles,
           Cell!Steps, Cell!Gps, Cell!Free, Cell!NoFile, Cell!Torn, Cell!VoiceConstants, Cell!JournalHeld, Cell!Muted,
           Cell!NoOrphan, Cell!Voice, OwnCall, Cell!Written, Cell!Goto, Cell!modemVars, Cell!Rest
  <1>3. CellSound'
    <2>1. ~ sound.pcm /\ sound.gps = home /\ UNCHANGED <<sound, home>> /\ pc' \in {"mute", "done"}
      BY DEF CellInv, CellFile, CellSound, Cell!JournalHeld, Cell!Torn, Cell!Written, Cell!modemVars, Cell!Goto, Cell!Rest
    <2> QED
      BY Zenon, <2>1 DEF CellSound, Cell!JournalHeld, Cell!Muted
  <1>4. CellOver'
    <2>1. \A i \in CallNumbers : cellCalls'[i].own /\ cellCalls'[i].state \in {"dialing", "active"}
                                 => cellCalls[i].own /\ cellCalls[i].state \in {"dialing", "active"}
      BY DEF Cell!Written, Cell!modemVars
    <2>2. OwnCall' => OwnCall
      BY <2>1, CellKeeps
    <2>3. /\ disk'.file = disk.file \/ disk.file # "saved"
          /\ pc' \in {"pcm off", "port back", "mute again", "remove"} => pc' = pc
      <3>1. disk = Cell!Torn /\ pc' \in {"mute", "done"}
        BY DEF CellInv, CellFile, Cell!Written, Cell!Goto
      <3> QED
        BY Zenon, <3>1 DEF Cell!Torn
    <2> QED
      BY Zenon, <2>2, <2>3 DEF CellInv, CellOver, Cell!NoOrphan, OwnCall
  <1> QED
    BY <1>1, <1>2, <1>3, <1>4 DEF CellInv

\* The sound path is switched.
LEMMA CellPrepare ==
    ASSUME CellInv, Cell!VoiceConstants, Cell!Prepare
    PROVE  CellInv'
  <1>1. CellTypes'
    <2>1. CellParts
      BY DEF CellInv, CellTypes, CellParts, Cell!TypeOK
    <2>2. cellCalls' \in [CallNumbers -> Cell!Call]
      BY <2>1 DEF CellParts, Cell!Call, Cell!Free, Cell!Voice, Cell!Prepare, Cell!Sets, Cell!Command, Cell!Attached,
             Cell!Goto, Cell!Rest, Cell!Mute, Cell!Port, Cell!Pcm
    <2>3. sound' \in [pcm : BOOLEAN, gps : Cell!Gps, mic : BOOLEAN]
      BY <2>1 DEF CellParts, Cell!Gps, Cell!Handles, Cell!Prepare, Cell!Sets, Cell!Command, Cell!Attached,
             Cell!Goto, Cell!Rest, Cell!Mute, Cell!Port, Cell!Pcm
    <2>4. disk' \in Cell!File
      BY <2>1 DEF CellParts, Cell!File, Cell!NoFile, Cell!Torn, Cell!Handles, Cell!Prepare, Cell!Sets, Cell!Command,
             Cell!Attached, Cell!Goto, Cell!Rest, Cell!Mute, Cell!Port, Cell!Pcm
    <2>5. handle' \in Cell!Handles /\ handle'.session <= generation'
      BY <2>1 DEF CellParts, Cell!Handles, Cell!Gps, Cell!File, Cell!NoFile, Cell!Torn, Cell!Voice, Cell!Prepare,
             Cell!Sets, Cell!Command, Cell!Attached, Cell!Goto, Cell!Rest, Cell!Mute, Cell!Port, Cell!Pcm
    <2>6. pc' \in Cell!Steps
      BY Zenon, <2>1 DEF CellParts, Cell!Steps, Cell!Prepare, Cell!Sets, Cell!Command, Cell!Attached, Cell!Goto,
         Cell!Rest,
             Cell!Mute, Cell!Port, Cell!Pcm
    <2>7. /\ generation' \in 0 .. CellularTroubles /\ cellTroubles' \in 0 .. CellularTroubles
          /\ generation' <= cellTroubles' /\ others' \in 0 .. MaxCalls /\ home' \in Cell!Gps
      BY <2>1 DEF CellParts, Cell!VoiceConstants, Cell!Prepare, Cell!Sets, Cell!Command, Cell!Attached, Cell!Goto,
             Cell!Rest, Cell!Mute, Cell!Port, Cell!Pcm
    <2> QED
      BY <2>2, <2>3, <2>4, <2>5, <2>6, <2>7 DEF CellTypes, Cell!TypeOK
  <1>2. CellFile'
    BY Zenon DEF CellInv, CellTypes, CellFile, CellSound, CellOver, Cell!TypeOK, Cell!Call, Cell!File, Cell!Handles,
           Cell!Steps, Cell!Gps, Cell!Free, Cell!NoFile, Cell!Torn, Cell!VoiceConstants, Cell!JournalHeld, Cell!Muted,
           Cell!NoOrphan, Cell!Voice, OwnCall, Cell!Prepare, Cell!Sets, Cell!Command, Cell!Attached, Cell!Goto,
           Cell!Rest, Cell!Mute, Cell!Port, Cell!Pcm
  <1>3. CellSound'
    BY Zenon DEF CellInv, CellTypes, CellFile, CellSound, CellOver, Cell!TypeOK, Cell!Call, Cell!File, Cell!Handles,
           Cell!Steps, Cell!Gps, Cell!Free, Cell!NoFile, Cell!Torn, Cell!VoiceConstants, Cell!JournalHeld, Cell!Muted,
           Cell!NoOrphan, Cell!Voice, OwnCall, Cell!Prepare, Cell!Sets, Cell!Command, Cell!Attached, Cell!Goto,
           Cell!Rest, Cell!Mute, Cell!Port, Cell!Pcm
  <1>4. CellOver'
    BY Zenon DEF CellInv, CellTypes, CellFile, CellSound, CellOver, Cell!TypeOK, Cell!Call, Cell!File, Cell!Handles,
           Cell!Steps, Cell!Gps, Cell!Free, Cell!NoFile, Cell!Torn, Cell!VoiceConstants, Cell!JournalHeld, Cell!Muted,
           Cell!NoOrphan, Cell!Voice, OwnCall, Cell!Prepare, Cell!Sets, Cell!Command, Cell!Attached, Cell!Goto,
           Cell!Rest, Cell!Mute, Cell!Port, Cell!Pcm
  <1> QED
    BY <1>1, <1>2, <1>3, <1>4 DEF CellInv

\* A call is dialled.
LEMMA CellDial ==
    ASSUME CellInv, Cell!VoiceConstants, Cell!Dial
    PROVE  CellInv'
  <1>1. CellTypes'
    <2>1. CellParts
      BY DEF CellInv, CellTypes, CellParts, Cell!TypeOK
    <2>2. cellCalls' \in [CallNumbers -> Cell!Call]
      <3>1. [way |-> "out", state |-> "dialing", own |-> TRUE] \in Cell!Call
        BY DEF Cell!Call
      <3> DEFINE n == Cell!NextId
      <3>2. cellCalls' \in {cellCalls, [cellCalls EXCEPT ![n] = [way |-> "out", state |-> "dialing", own |-> TRUE]]}
        BY DEF Cell!Dial, Cell!Command
      <3> HIDE DEF n
      <3> QED
        BY <2>1, <3>1, <3>2 DEF CellParts
    <2>3. sound' \in [pcm : BOOLEAN, gps : Cell!Gps, mic : BOOLEAN]
      BY <2>1 DEF CellParts, Cell!Gps, Cell!Handles, Cell!Dial, Cell!NextId, Cell!Command, Cell!Attached, Cell!Goto,
             Cell!Rest
    <2>4. disk' \in Cell!File
      BY <2>1 DEF CellParts, Cell!File, Cell!NoFile, Cell!Torn, Cell!Handles, Cell!Dial, Cell!NextId, Cell!Command,
             Cell!Attached, Cell!Goto, Cell!Rest
    <2>5. handle' \in Cell!Handles /\ handle'.session <= generation'
      BY <2>1 DEF CellParts, Cell!Handles, Cell!Gps, Cell!File, Cell!NoFile, Cell!Torn, Cell!Voice, Cell!Dial,
             Cell!NextId, Cell!Command, Cell!Attached, Cell!Goto, Cell!Rest
    <2>6. pc' \in Cell!Steps
      BY Zenon, <2>1 DEF CellParts, Cell!Steps, Cell!Dial, Cell!NextId, Cell!Command, Cell!Attached, Cell!Goto,
         Cell!Rest
    <2>7. /\ generation' \in 0 .. CellularTroubles /\ cellTroubles' \in 0 .. CellularTroubles
          /\ generation' <= cellTroubles' /\ others' \in 0 .. MaxCalls /\ home' \in Cell!Gps
      BY <2>1 DEF CellParts, Cell!VoiceConstants, Cell!Dial, Cell!NextId, Cell!Command, Cell!Attached, Cell!Goto,
             Cell!Rest
    <2> QED
      BY <2>2, <2>3, <2>4, <2>5, <2>6, <2>7 DEF CellTypes, Cell!TypeOK
  <1>2. CellFile'
    BY DEF CellInv, CellTypes, CellFile, CellSound, CellOver, Cell!TypeOK, Cell!Call, Cell!File, Cell!Handles,
           Cell!Steps, Cell!Gps, Cell!Free, Cell!NoFile, Cell!Torn, Cell!VoiceConstants, Cell!JournalHeld, Cell!Muted,
           Cell!NoOrphan, Cell!Voice, OwnCall, Cell!Dial, Cell!NextId, Cell!Command, Cell!Attached, Cell!Goto,
           Cell!Rest
  <1>3. CellSound'
    BY Zenon DEF CellInv, CellTypes, CellFile, CellSound, CellOver, Cell!TypeOK, Cell!Call, Cell!File, Cell!Handles,
           Cell!Steps, Cell!Gps, Cell!Free, Cell!NoFile, Cell!Torn, Cell!VoiceConstants, Cell!JournalHeld, Cell!Muted,
           Cell!NoOrphan, Cell!Voice, OwnCall, Cell!Dial, Cell!NextId, Cell!Command, Cell!Attached, Cell!Goto,
           Cell!Rest
  <1>4. CellOver'
    BY Zenon DEF CellInv, CellTypes, CellFile, CellSound, CellOver, Cell!TypeOK, Cell!Call, Cell!File, Cell!Handles,
           Cell!Steps, Cell!Gps, Cell!Free, Cell!NoFile, Cell!Torn, Cell!VoiceConstants, Cell!JournalHeld, Cell!Muted,
           Cell!NoOrphan, Cell!Voice, OwnCall, Cell!Dial, Cell!NextId, Cell!Command, Cell!Attached, Cell!Goto,
           Cell!Rest
  <1> QED
    BY <1>1, <1>2, <1>3, <1>4 DEF CellInv

\* A call is about to be answered.
LEMMA CellAnswer ==
    ASSUME CellInv, Cell!VoiceConstants, Cell!Answer
    PROVE  CellInv'
  <1>1. CellTypes'
    <2>1. CellParts
      BY DEF CellInv, CellTypes, CellParts, Cell!TypeOK
    <2>2. cellCalls' \in [CallNumbers -> Cell!Call]
      BY <2>1 DEF CellParts, Cell!Call, Cell!Free, Cell!Voice, Cell!Answer, Cell!Query, Cell!Command, Cell!Attached,
             Cell!Goto, Cell!Rest, Cell!modemVars
    <2>3. sound' \in [pcm : BOOLEAN, gps : Cell!Gps, mic : BOOLEAN]
      BY <2>1 DEF CellParts, Cell!Gps, Cell!Handles, Cell!Answer, Cell!Query, Cell!Command, Cell!Attached,
             Cell!Goto, Cell!Rest, Cell!modemVars
    <2>4. disk' \in Cell!File
      BY <2>1 DEF CellParts, Cell!File, Cell!NoFile, Cell!Torn, Cell!Handles, Cell!Answer, Cell!Query, Cell!Command,
             Cell!Attached, Cell!Goto, Cell!Rest, Cell!modemVars
    <2>5. handle' \in Cell!Handles /\ handle'.session <= generation'
      BY <2>1 DEF CellParts, Cell!Handles, Cell!Gps, Cell!File, Cell!NoFile, Cell!Torn, Cell!Voice, Cell!Answer,
             Cell!Query, Cell!Command, Cell!Attached, Cell!Goto, Cell!Rest, Cell!modemVars
    <2>6. pc' \in Cell!Steps
      BY Zenon, <2>1 DEF CellParts, Cell!Steps, Cell!Answer, Cell!Query, Cell!Command, Cell!Attached, Cell!Goto,
         Cell!Rest,
             Cell!modemVars
    <2>7. /\ generation' \in 0 .. CellularTroubles /\ cellTroubles' \in 0 .. CellularTroubles
          /\ generation' <= cellTroubles' /\ others' \in 0 .. MaxCalls /\ home' \in Cell!Gps
      BY <2>1 DEF CellParts, Cell!VoiceConstants, Cell!Answer, Cell!Query, Cell!Command, Cell!Attached, Cell!Goto,
             Cell!Rest, Cell!modemVars
    <2> QED
      BY <2>2, <2>3, <2>4, <2>5, <2>6, <2>7 DEF CellTypes, Cell!TypeOK
  <1>2. CellFile'
    BY DEF CellInv, CellTypes, CellFile, CellSound, CellOver, Cell!TypeOK, Cell!Call, Cell!File, Cell!Handles,
           Cell!Steps, Cell!Gps, Cell!Free, Cell!NoFile, Cell!Torn, Cell!VoiceConstants, Cell!JournalHeld, Cell!Muted,
           Cell!NoOrphan, Cell!Voice, OwnCall, Cell!Answer, Cell!Query, Cell!Command, Cell!Attached, Cell!Goto,
           Cell!Rest, Cell!modemVars
  <1>3. CellSound'
    BY Zenon DEF CellInv, CellTypes, CellFile, CellSound, CellOver, Cell!TypeOK, Cell!Call, Cell!File, Cell!Handles,
           Cell!Steps, Cell!Gps, Cell!Free, Cell!NoFile, Cell!Torn, Cell!VoiceConstants, Cell!JournalHeld, Cell!Muted,
           Cell!NoOrphan, Cell!Voice, OwnCall, Cell!Answer, Cell!Query, Cell!Command, Cell!Attached, Cell!Goto,
           Cell!Rest, Cell!modemVars
  <1>4. CellOver'
    BY Zenon DEF CellInv, CellTypes, CellFile, CellSound, CellOver, Cell!TypeOK, Cell!Call, Cell!File, Cell!Handles,
           Cell!Steps, Cell!Gps, Cell!Free, Cell!NoFile, Cell!Torn, Cell!VoiceConstants, Cell!JournalHeld, Cell!Muted,
           Cell!NoOrphan, Cell!Voice, OwnCall, Cell!Answer, Cell!Query, Cell!Command, Cell!Attached, Cell!Goto,
           Cell!Rest, Cell!modemVars
  <1> QED
    BY <1>1, <1>2, <1>3, <1>4 DEF CellInv

\* A call is answered.
LEMMA CellAnswerSent ==
    ASSUME CellInv, Cell!VoiceConstants, Cell!AnswerSent
    PROVE  CellInv'
  <1>1. CellTypes'
    <2>1. CellParts
      BY DEF CellInv, CellTypes, CellParts, Cell!TypeOK
    <2>2. cellCalls' \in [CallNumbers -> Cell!Call]
      <3>1. \A i \in CallNumbers : cellCalls[i] \in Cell!Call /\ (cellCalls[i].state # "none" => 
                  [[cellCalls[i] EXCEPT !.state = "active"] EXCEPT !.own = TRUE] \in Cell!Call)
        BY Zenon, <2>1, CellEdits DEF CellParts
      <3>2. \/ UNCHANGED cellCalls
            \/ \E i \in CallNumbers : cellCalls[i].state = "incoming" /\ cellCalls' = [cellCalls EXCEPT ![i].state = "active", ![i].own = TRUE]
        BY DEF Cell!AnswerSent, Cell!Command, Cell!Voice, Cell!Ringing
      <3> QED
        BY Zenon, <2>1, <3>1, <3>2 DEF CellParts
    <2>3. sound' \in [pcm : BOOLEAN, gps : Cell!Gps, mic : BOOLEAN]
      BY <2>1 DEF CellParts, Cell!Gps, Cell!Handles, Cell!AnswerSent, Cell!Command, Cell!Attached, Cell!Goto,
             Cell!Rest, Cell!Ringing
    <2>4. disk' \in Cell!File
      BY <2>1 DEF CellParts, Cell!File, Cell!NoFile, Cell!Torn, Cell!Handles, Cell!AnswerSent, Cell!Command,
             Cell!Attached, Cell!Goto, Cell!Rest, Cell!Ringing
    <2>5. handle' \in Cell!Handles /\ handle'.session <= generation'
      BY <2>1 DEF CellParts, Cell!Handles, Cell!Gps, Cell!File, Cell!NoFile, Cell!Torn, Cell!Voice, Cell!AnswerSent,
             Cell!Command, Cell!Attached, Cell!Goto, Cell!Rest, Cell!Ringing
    <2>6. pc' \in Cell!Steps
      BY Zenon, <2>1 DEF CellParts, Cell!Steps, Cell!AnswerSent, Cell!Command, Cell!Attached, Cell!Goto, Cell!Rest,
             Cell!Ringing
    <2>7. /\ generation' \in 0 .. CellularTroubles /\ cellTroubles' \in 0 .. CellularTroubles
          /\ generation' <= cellTroubles' /\ others' \in 0 .. MaxCalls /\ home' \in Cell!Gps
      BY <2>1 DEF CellParts, Cell!VoiceConstants, Cell!AnswerSent, Cell!Command, Cell!Attached, Cell!Goto,
             Cell!Rest, Cell!Ringing
    <2> QED
      BY <2>2, <2>3, <2>4, <2>5, <2>6, <2>7 DEF CellTypes, Cell!TypeOK
  <1>2. CellFile'
    BY DEF CellInv, CellTypes, CellFile, CellSound, CellOver, Cell!TypeOK, Cell!Call, Cell!File, Cell!Handles,
           Cell!Steps, Cell!Gps, Cell!Free, Cell!NoFile, Cell!Torn, Cell!VoiceConstants, Cell!JournalHeld, Cell!Muted,
           Cell!NoOrphan, Cell!Voice, OwnCall, Cell!AnswerSent, Cell!Command, Cell!Attached, Cell!Goto, Cell!Rest,
           Cell!Ringing
  <1>3. CellSound'
    BY Zenon DEF CellInv, CellTypes, CellFile, CellSound, CellOver, Cell!TypeOK, Cell!Call, Cell!File, Cell!Handles,
           Cell!Steps, Cell!Gps, Cell!Free, Cell!NoFile, Cell!Torn, Cell!VoiceConstants, Cell!JournalHeld, Cell!Muted,
           Cell!NoOrphan, Cell!Voice, OwnCall, Cell!AnswerSent, Cell!Command, Cell!Attached, Cell!Goto, Cell!Rest,
           Cell!Ringing
  <1>4. CellOver'
    BY Zenon DEF CellInv, CellTypes, CellFile, CellSound, CellOver, Cell!TypeOK, Cell!Call, Cell!File, Cell!Handles,
           Cell!Steps, Cell!Gps, Cell!Free, Cell!NoFile, Cell!Torn, Cell!VoiceConstants, Cell!JournalHeld, Cell!Muted,
           Cell!NoOrphan, Cell!Voice, OwnCall, Cell!AnswerSent, Cell!Command, Cell!Attached, Cell!Goto, Cell!Rest,
           Cell!Ringing
  <1> QED
    BY <1>1, <1>2, <1>3, <1>4 DEF CellInv

\* Waiting calls are found.
LEMMA CellState ==
    ASSUME CellInv, Cell!VoiceConstants, Cell!State
    PROVE  CellInv'
  <1>1. CellTypes'
    <2>1. CellParts
      BY DEF CellInv, CellTypes, CellParts, Cell!TypeOK
    <2>2. cellCalls' \in [CallNumbers -> Cell!Call]
      BY <2>1 DEF CellParts, Cell!Call, Cell!Free, Cell!Voice, Cell!State, Cell!Query, Cell!Command, Cell!Attached,
             Cell!Goto, Cell!Rest, Cell!modemVars
    <2>3. sound' \in [pcm : BOOLEAN, gps : Cell!Gps, mic : BOOLEAN]
      BY <2>1 DEF CellParts, Cell!Gps, Cell!Handles, Cell!State, Cell!Query, Cell!Command, Cell!Attached, Cell!Goto,
             Cell!Rest, Cell!modemVars
    <2>4. disk' \in Cell!File
      BY <2>1 DEF CellParts, Cell!File, Cell!NoFile, Cell!Torn, Cell!Handles, Cell!State, Cell!Query, Cell!Command,
             Cell!Attached, Cell!Goto, Cell!Rest, Cell!modemVars
    <2>5. handle' \in Cell!Handles /\ handle'.session <= generation'
      BY <2>1 DEF CellParts, Cell!Handles, Cell!Gps, Cell!File, Cell!NoFile, Cell!Torn, Cell!Voice, Cell!State,
             Cell!Query, Cell!Command, Cell!Attached, Cell!Goto, Cell!Rest, Cell!modemVars
    <2>6. pc' \in Cell!Steps
      BY Zenon, <2>1 DEF CellParts, Cell!Steps, Cell!State, Cell!Query, Cell!Command, Cell!Attached, Cell!Goto,
         Cell!Rest,
             Cell!modemVars
    <2>7. /\ generation' \in 0 .. CellularTroubles /\ cellTroubles' \in 0 .. CellularTroubles
          /\ generation' <= cellTroubles' /\ others' \in 0 .. MaxCalls /\ home' \in Cell!Gps
      BY <2>1 DEF CellParts, Cell!VoiceConstants, Cell!State, Cell!Query, Cell!Command, Cell!Attached, Cell!Goto,
             Cell!Rest, Cell!modemVars
    <2> QED
      BY <2>2, <2>3, <2>4, <2>5, <2>6, <2>7 DEF CellTypes, Cell!TypeOK
  <1>2. CellFile'
    BY DEF CellInv, CellTypes, CellFile, CellSound, CellOver, Cell!TypeOK, Cell!Call, Cell!File, Cell!Handles,
           Cell!Steps, Cell!Gps, Cell!Free, Cell!NoFile, Cell!Torn, Cell!VoiceConstants, Cell!JournalHeld, Cell!Muted,
           Cell!NoOrphan, Cell!Voice, OwnCall, Cell!State, Cell!Query, Cell!Command, Cell!Attached, Cell!Goto,
           Cell!Rest, Cell!modemVars
  <1>3. CellSound'
    BY Zenon DEF CellInv, CellTypes, CellFile, CellSound, CellOver, Cell!TypeOK, Cell!Call, Cell!File, Cell!Handles,
           Cell!Steps, Cell!Gps, Cell!Free, Cell!NoFile, Cell!Torn, Cell!VoiceConstants, Cell!JournalHeld, Cell!Muted,
           Cell!NoOrphan, Cell!Voice, OwnCall, Cell!State, Cell!Query, Cell!Command, Cell!Attached, Cell!Goto,
           Cell!Rest, Cell!modemVars
  <1>4. CellOver'
    BY Zenon DEF CellInv, CellTypes, CellFile, CellSound, CellOver, Cell!TypeOK, Cell!Call, Cell!File, Cell!Handles,
           Cell!Steps, Cell!Gps, Cell!Free, Cell!NoFile, Cell!Torn, Cell!VoiceConstants, Cell!JournalHeld, Cell!Muted,
           Cell!NoOrphan, Cell!Voice, OwnCall, Cell!State, Cell!Query, Cell!Command, Cell!Attached, Cell!Goto,
           Cell!Rest, Cell!modemVars
  <1> QED
    BY <1>1, <1>2, <1>3, <1>4 DEF CellInv

\* A waiting call is turned away.
LEMMA CellReject ==
    ASSUME CellInv, Cell!VoiceConstants, Cell!Reject
    PROVE  CellInv'
  <1>1. CellTypes'
    <2>1. CellParts
      BY DEF CellInv, CellTypes, CellParts, Cell!TypeOK
    <2>2. cellCalls' \in [CallNumbers -> Cell!Call]
      BY <2>1 DEF CellParts, Cell!Call, Cell!Free, Cell!Voice, Cell!Reject, Cell!Command, Cell!Attached, Cell!Goto,
             Cell!Rest
    <2>3. sound' \in [pcm : BOOLEAN, gps : Cell!Gps, mic : BOOLEAN]
      BY <2>1 DEF CellParts, Cell!Gps, Cell!Handles, Cell!Reject, Cell!Command, Cell!Attached, Cell!Goto, Cell!Rest
    <2>4. disk' \in Cell!File
      BY <2>1 DEF CellParts, Cell!File, Cell!NoFile, Cell!Torn, Cell!Handles, Cell!Reject, Cell!Command,
             Cell!Attached, Cell!Goto, Cell!Rest
    <2>5. handle' \in Cell!Handles /\ handle'.session <= generation'
      BY <2>1 DEF CellParts, Cell!Handles, Cell!Gps, Cell!File, Cell!NoFile, Cell!Torn, Cell!Voice, Cell!Reject,
             Cell!Command, Cell!Attached, Cell!Goto, Cell!Rest
    <2>6. pc' \in Cell!Steps
      BY Zenon, <2>1 DEF CellParts, Cell!Steps, Cell!Reject, Cell!Command, Cell!Attached, Cell!Goto, Cell!Rest
    <2>7. /\ generation' \in 0 .. CellularTroubles /\ cellTroubles' \in 0 .. CellularTroubles
          /\ generation' <= cellTroubles' /\ others' \in 0 .. MaxCalls /\ home' \in Cell!Gps
      BY <2>1 DEF CellParts, Cell!VoiceConstants, Cell!Reject, Cell!Command, Cell!Attached, Cell!Goto, Cell!Rest
    <2> QED
      BY <2>2, <2>3, <2>4, <2>5, <2>6, <2>7 DEF CellTypes, Cell!TypeOK
  <1>2. CellFile'
    BY DEF CellInv, CellTypes, CellFile, CellSound, CellOver, Cell!TypeOK, Cell!Call, Cell!File, Cell!Handles,
           Cell!Steps, Cell!Gps, Cell!Free, Cell!NoFile, Cell!Torn, Cell!VoiceConstants, Cell!JournalHeld, Cell!Muted,
           Cell!NoOrphan, Cell!Voice, OwnCall, Cell!Reject, Cell!Command, Cell!Attached, Cell!Goto, Cell!Rest
  <1>3. CellSound'
    BY Zenon DEF CellInv, CellTypes, CellFile, CellSound, CellOver, Cell!TypeOK, Cell!Call, Cell!File, Cell!Handles,
           Cell!Steps, Cell!Gps, Cell!Free, Cell!NoFile, Cell!Torn, Cell!VoiceConstants, Cell!JournalHeld, Cell!Muted,
           Cell!NoOrphan, Cell!Voice, OwnCall, Cell!Reject, Cell!Command, Cell!Attached, Cell!Goto, Cell!Rest
  <1>4. CellOver'
    BY Zenon DEF CellInv, CellTypes, CellFile, CellSound, CellOver, Cell!TypeOK, Cell!Call, Cell!File, Cell!Handles,
           Cell!Steps, Cell!Gps, Cell!Free, Cell!NoFile, Cell!Torn, Cell!VoiceConstants, Cell!JournalHeld, Cell!Muted,
           Cell!NoOrphan, Cell!Voice, OwnCall, Cell!Reject, Cell!Command, Cell!Attached, Cell!Goto, Cell!Rest
  <1> QED
    BY <1>1, <1>2, <1>3, <1>4 DEF CellInv

\* The call is hung up.
LEMMA CellHangup ==
    ASSUME CellInv, Cell!VoiceConstants, Cell!Hangup
    PROVE  CellInv'
  <1>1. CellTypes'
    <2>1. CellParts
      BY DEF CellInv, CellTypes, CellParts, Cell!TypeOK
    <2>2. cellCalls' \in [CallNumbers -> Cell!Call]
      BY <2>1 DEF CellParts, Cell!Call, Cell!Free, Cell!Voice, Cell!Hangup, Cell!Goto, Cell!Rest, Cell!modemVars
    <2>3. sound' \in [pcm : BOOLEAN, gps : Cell!Gps, mic : BOOLEAN]
      BY <2>1 DEF CellParts, Cell!Gps, Cell!Handles, Cell!Hangup, Cell!Goto, Cell!Rest, Cell!modemVars
    <2>4. disk' \in Cell!File
      BY <2>1 DEF CellParts, Cell!File, Cell!NoFile, Cell!Torn, Cell!Handles, Cell!Hangup, Cell!Goto, Cell!Rest,
             Cell!modemVars
    <2>5. handle' \in Cell!Handles /\ handle'.session <= generation'
      BY <2>1 DEF CellParts, Cell!Handles, Cell!Gps, Cell!File, Cell!NoFile, Cell!Torn, Cell!Voice, Cell!Hangup,
             Cell!Goto, Cell!Rest, Cell!modemVars
    <2>6. pc' \in Cell!Steps
      BY <2>1 DEF CellParts, Cell!Steps, Cell!Hangup, Cell!Goto, Cell!Rest, Cell!modemVars
    <2>7. /\ generation' \in 0 .. CellularTroubles /\ cellTroubles' \in 0 .. CellularTroubles
          /\ generation' <= cellTroubles' /\ others' \in 0 .. MaxCalls /\ home' \in Cell!Gps
      BY <2>1 DEF CellParts, Cell!VoiceConstants, Cell!Hangup, Cell!Goto, Cell!Rest, Cell!modemVars
    <2> QED
      BY <2>2, <2>3, <2>4, <2>5, <2>6, <2>7 DEF CellTypes, Cell!TypeOK
  <1>2. CellFile'
    BY DEF CellInv, CellTypes, CellFile, CellSound, CellOver, Cell!TypeOK, Cell!Call, Cell!File, Cell!Handles,
           Cell!Steps, Cell!Gps, Cell!Free, Cell!NoFile, Cell!Torn, Cell!VoiceConstants, Cell!JournalHeld, Cell!Muted,
           Cell!NoOrphan, Cell!Voice, OwnCall, Cell!Hangup, Cell!Goto, Cell!Rest, Cell!modemVars
  <1>3. CellSound'
    BY DEF CellInv, CellTypes, CellFile, CellSound, CellOver, Cell!TypeOK, Cell!Call, Cell!File, Cell!Handles,
           Cell!Steps, Cell!Gps, Cell!Free, Cell!NoFile, Cell!Torn, Cell!VoiceConstants, Cell!JournalHeld, Cell!Muted,
           Cell!NoOrphan, Cell!Voice, OwnCall, Cell!Hangup, Cell!Goto, Cell!Rest, Cell!modemVars
  <1>4. CellOver'
    BY DEF CellInv, CellTypes, CellFile, CellSound, CellOver, Cell!TypeOK, Cell!Call, Cell!File, Cell!Handles,
           Cell!Steps, Cell!Gps, Cell!Free, Cell!NoFile, Cell!Torn, Cell!VoiceConstants, Cell!JournalHeld, Cell!Muted,
           Cell!NoOrphan, Cell!Voice, OwnCall, Cell!Hangup, Cell!Goto, Cell!Rest, Cell!modemVars
  <1> QED
    BY <1>1, <1>2, <1>3, <1>4 DEF CellInv

\* The ports are opened again.
LEMMA CellReopen ==
    ASSUME CellInv, Cell!VoiceConstants, Cell!Reopen
    PROVE  CellInv'
  <1>1. CellTypes'
    <2>1. CellParts
      BY DEF CellInv, CellTypes, CellParts, Cell!TypeOK
    <2>2. cellCalls' \in [CallNumbers -> Cell!Call]
      BY <2>1 DEF CellParts, Cell!Call, Cell!Free, Cell!Voice, Cell!Reopen, Cell!Goto, Cell!Rest, Cell!modemVars
    <2>3. sound' \in [pcm : BOOLEAN, gps : Cell!Gps, mic : BOOLEAN]
      BY <2>1 DEF CellParts, Cell!Gps, Cell!Handles, Cell!Reopen, Cell!Goto, Cell!Rest, Cell!modemVars
    <2>4. disk' \in Cell!File
      BY <2>1 DEF CellParts, Cell!File, Cell!NoFile, Cell!Torn, Cell!Handles, Cell!Reopen, Cell!Goto, Cell!Rest,
             Cell!modemVars
    <2>5. handle' \in Cell!Handles /\ handle'.session <= generation'
      BY <2>1 DEF CellParts, Cell!Handles, Cell!Gps, Cell!File, Cell!NoFile, Cell!Torn, Cell!Voice, Cell!Reopen,
             Cell!Goto, Cell!Rest, Cell!modemVars
    <2>6. pc' \in Cell!Steps
      BY <2>1 DEF CellParts, Cell!Steps, Cell!Reopen, Cell!Goto, Cell!Rest, Cell!modemVars
    <2>7. /\ generation' \in 0 .. CellularTroubles /\ cellTroubles' \in 0 .. CellularTroubles
          /\ generation' <= cellTroubles' /\ others' \in 0 .. MaxCalls /\ home' \in Cell!Gps
      BY <2>1 DEF CellParts, Cell!VoiceConstants, Cell!Reopen, Cell!Goto, Cell!Rest, Cell!modemVars
    <2> QED
      BY <2>2, <2>3, <2>4, <2>5, <2>6, <2>7 DEF CellTypes, Cell!TypeOK
  <1>2. CellFile'
    BY DEF CellInv, CellTypes, CellFile, CellSound, CellOver, Cell!TypeOK, Cell!Call, Cell!File, Cell!Handles,
           Cell!Steps, Cell!Gps, Cell!Free, Cell!NoFile, Cell!Torn, Cell!VoiceConstants, Cell!JournalHeld, Cell!Muted,
           Cell!NoOrphan, Cell!Voice, OwnCall, Cell!Reopen, Cell!Goto, Cell!Rest, Cell!modemVars
  <1>3. CellSound'
    BY DEF CellInv, CellTypes, CellFile, CellSound, CellOver, Cell!TypeOK, Cell!Call, Cell!File, Cell!Handles,
           Cell!Steps, Cell!Gps, Cell!Free, Cell!NoFile, Cell!Torn, Cell!VoiceConstants, Cell!JournalHeld, Cell!Muted,
           Cell!NoOrphan, Cell!Voice, OwnCall, Cell!Reopen, Cell!Goto, Cell!Rest, Cell!modemVars
  <1>4. CellOver'
    BY DEF CellInv, CellTypes, CellFile, CellSound, CellOver, Cell!TypeOK, Cell!Call, Cell!File, Cell!Handles,
           Cell!Steps, Cell!Gps, Cell!Free, Cell!NoFile, Cell!Torn, Cell!VoiceConstants, Cell!JournalHeld, Cell!Muted,
           Cell!NoOrphan, Cell!Voice, OwnCall, Cell!Reopen, Cell!Goto, Cell!Rest, Cell!modemVars
  <1> QED
    BY <1>1, <1>2, <1>3, <1>4 DEF CellInv

\* The way to hang up is chosen.
LEMMA CellEnding ==
    ASSUME CellInv, Cell!VoiceConstants, Cell!Ending
    PROVE  CellInv'
  <1>1. CellTypes'
    <2>1. CellParts
      BY DEF CellInv, CellTypes, CellParts, Cell!TypeOK
    <2>2. cellCalls' \in [CallNumbers -> Cell!Call]
      BY <2>1 DEF CellParts, Cell!Call, Cell!Free, Cell!Voice, Cell!Ending, Cell!Spares, Cell!Query, Cell!Command,
             Cell!Attached, Cell!Goto, Cell!Rest, Cell!modemVars
    <2>3. sound' \in [pcm : BOOLEAN, gps : Cell!Gps, mic : BOOLEAN]
      BY <2>1 DEF CellParts, Cell!Gps, Cell!Handles, Cell!Ending, Cell!Spares, Cell!Query, Cell!Command,
             Cell!Attached, Cell!Goto, Cell!Rest, Cell!modemVars
    <2>4. disk' \in Cell!File
      BY <2>1 DEF CellParts, Cell!File, Cell!NoFile, Cell!Torn, Cell!Handles, Cell!Ending, Cell!Spares, Cell!Query,
             Cell!Command, Cell!Attached, Cell!Goto, Cell!Rest, Cell!modemVars
    <2>5. handle' \in Cell!Handles /\ handle'.session <= generation'
      BY <2>1 DEF CellParts, Cell!Handles, Cell!Gps, Cell!File, Cell!NoFile, Cell!Torn, Cell!Voice, Cell!Ending,
             Cell!Spares, Cell!Query, Cell!Command, Cell!Attached, Cell!Goto, Cell!Rest, Cell!modemVars
    <2>6. pc' \in Cell!Steps
      BY Zenon, <2>1 DEF CellParts, Cell!Steps, Cell!Ending, Cell!Spares, Cell!Query, Cell!Command, Cell!Attached,
             Cell!Goto, Cell!Rest, Cell!modemVars
    <2>7. /\ generation' \in 0 .. CellularTroubles /\ cellTroubles' \in 0 .. CellularTroubles
          /\ generation' <= cellTroubles' /\ others' \in 0 .. MaxCalls /\ home' \in Cell!Gps
      BY <2>1 DEF CellParts, Cell!VoiceConstants, Cell!Ending, Cell!Spares, Cell!Query, Cell!Command, Cell!Attached,
             Cell!Goto, Cell!Rest, Cell!modemVars
    <2> QED
      BY <2>2, <2>3, <2>4, <2>5, <2>6, <2>7 DEF CellTypes, Cell!TypeOK
  <1>2. CellFile'
    BY DEF CellInv, CellTypes, CellFile, CellSound, CellOver, Cell!TypeOK, Cell!Call, Cell!File, Cell!Handles,
           Cell!Steps, Cell!Gps, Cell!Free, Cell!NoFile, Cell!Torn, Cell!VoiceConstants, Cell!JournalHeld, Cell!Muted,
           Cell!NoOrphan, Cell!Voice, OwnCall, Cell!Ending, Cell!Spares, Cell!Query, Cell!Command, Cell!Attached,
           Cell!Goto, Cell!Rest, Cell!modemVars
  <1>3. CellSound'
    BY Zenon DEF CellInv, CellTypes, CellFile, CellSound, CellOver, Cell!TypeOK, Cell!Call, Cell!File, Cell!Handles,
           Cell!Steps, Cell!Gps, Cell!Free, Cell!NoFile, Cell!Torn, Cell!VoiceConstants, Cell!JournalHeld, Cell!Muted,
           Cell!NoOrphan, Cell!Voice, OwnCall, Cell!Ending, Cell!Spares, Cell!Query, Cell!Command, Cell!Attached,
           Cell!Goto, Cell!Rest, Cell!modemVars
  <1>4. CellOver'
    BY Zenon DEF CellInv, CellTypes, CellFile, CellSound, CellOver, Cell!TypeOK, Cell!Call, Cell!File, Cell!Handles,
           Cell!Steps, Cell!Gps, Cell!Free, Cell!NoFile, Cell!Torn, Cell!VoiceConstants, Cell!JournalHeld, Cell!Muted,
           Cell!NoOrphan, Cell!Voice, OwnCall, Cell!Ending, Cell!Spares, Cell!Query, Cell!Command, Cell!Attached,
           Cell!Goto, Cell!Rest, Cell!modemVars
  <1> QED
    BY <1>1, <1>2, <1>3, <1>4 DEF CellInv

\* The command to hang up is sent.
LEMMA CellSendEnd ==
    ASSUME CellInv, Cell!VoiceConstants, Cell!SendEnd
    PROVE  CellInv'
  <1>1. CellTypes'
    <2>1. CellParts
      BY DEF CellInv, CellTypes, CellParts, Cell!TypeOK
    <2>2. cellCalls' \in [CallNumbers -> Cell!Call]
      BY <2>1 DEF CellParts, Cell!Call, Cell!Free, Cell!Voice, Cell!SendEnd, Cell!HungUp, Cell!Command,
             Cell!Attached, Cell!Goto, Cell!Rest
    <2>3. sound' \in [pcm : BOOLEAN, gps : Cell!Gps, mic : BOOLEAN]
      BY <2>1 DEF CellParts, Cell!Gps, Cell!Handles, Cell!SendEnd, Cell!HungUp, Cell!Command, Cell!Attached,
             Cell!Goto, Cell!Rest
    <2>4. disk' \in Cell!File
      BY <2>1 DEF CellParts, Cell!File, Cell!NoFile, Cell!Torn, Cell!Handles, Cell!SendEnd, Cell!HungUp,
             Cell!Command, Cell!Attached, Cell!Goto, Cell!Rest
    <2>5. handle' \in Cell!Handles /\ handle'.session <= generation'
      BY <2>1 DEF CellParts, Cell!Handles, Cell!Gps, Cell!File, Cell!NoFile, Cell!Torn, Cell!Voice, Cell!SendEnd,
             Cell!HungUp, Cell!Command, Cell!Attached, Cell!Goto, Cell!Rest
    <2>6. pc' \in Cell!Steps
      BY Zenon, <2>1 DEF CellParts, Cell!Steps, Cell!SendEnd, Cell!HungUp, Cell!Command, Cell!Attached, Cell!Goto,
             Cell!Rest
    <2>7. /\ generation' \in 0 .. CellularTroubles /\ cellTroubles' \in 0 .. CellularTroubles
          /\ generation' <= cellTroubles' /\ others' \in 0 .. MaxCalls /\ home' \in Cell!Gps
      BY <2>1 DEF CellParts, Cell!VoiceConstants, Cell!SendEnd, Cell!HungUp, Cell!Command, Cell!Attached, Cell!Goto,
             Cell!Rest
    <2> QED
      BY <2>2, <2>3, <2>4, <2>5, <2>6, <2>7 DEF CellTypes, Cell!TypeOK
  <1>2. CellFile'
    BY Zenon DEF CellInv, CellTypes, CellFile, CellSound, CellOver, Cell!TypeOK, Cell!Call, Cell!File, Cell!Handles,
           Cell!Steps, Cell!Gps, Cell!Free, Cell!NoFile, Cell!Torn, Cell!VoiceConstants, Cell!JournalHeld, Cell!Muted,
           Cell!NoOrphan, Cell!Voice, OwnCall, Cell!SendEnd, Cell!HungUp, Cell!Command, Cell!Attached, Cell!Goto,
           Cell!Rest
  <1>3. CellSound'
    BY Zenon DEF CellInv, CellTypes, CellFile, CellSound, CellOver, Cell!TypeOK, Cell!Call, Cell!File, Cell!Handles,
           Cell!Steps, Cell!Gps, Cell!Free, Cell!NoFile, Cell!Torn, Cell!VoiceConstants, Cell!JournalHeld, Cell!Muted,
           Cell!NoOrphan, Cell!Voice, OwnCall, Cell!SendEnd, Cell!HungUp, Cell!Command, Cell!Attached, Cell!Goto,
           Cell!Rest
  <1>4. CellOver'
    <2>1. \A i \in CallNumbers : cellCalls'[i].own /\ cellCalls'[i].state \in {"dialing", "active"}
                                 => cellCalls[i].own /\ cellCalls[i].state \in {"dialing", "active"}
      BY DEF CellInv, CellTypes, Cell!TypeOK, Cell!Call, Cell!Free, Cell!Voice, Cell!Ringing, Cell!SendEnd, Cell!HungUp, Cell!Command
    <2>2. OwnCall' => OwnCall
      BY <2>1, CellKeeps
    <2>3. /\ disk'.file = disk.file \/ disk.file # "saved"
          /\ pc' \in {"pcm off", "port back", "mute again", "remove"} => pc' = pc
      BY Zenon DEF CellInv, CellFile, Cell!NoFile, Cell!Torn, Cell!SendEnd, Cell!Command, Cell!Goto
    <2> QED
      BY Zenon, <2>2, <2>3 DEF CellInv, CellOver, Cell!NoOrphan, OwnCall
  <1> QED
    BY <1>1, <1>2, <1>3, <1>4 DEF CellInv

\* The end of every call is seen.
LEMMA CellConfirm ==
    ASSUME CellInv, Cell!VoiceConstants, Cell!Confirm
    PROVE  CellInv'
  <1>1. CellTypes'
    <2>1. CellParts
      BY DEF CellInv, CellTypes, CellParts, Cell!TypeOK
    <2>2. cellCalls' \in [CallNumbers -> Cell!Call]
      BY Zenon, <2>1 DEF CellParts, Cell!Call, Cell!Free, Cell!Voice, Cell!Confirm, Cell!Confirmed, Cell!Failure,
             Cell!Query, Cell!Command, Cell!Attached, Cell!Goto, Cell!Rest, Cell!modemVars
    <2>3. sound' \in [pcm : BOOLEAN, gps : Cell!Gps, mic : BOOLEAN]
      BY Zenon, <2>1 DEF CellParts, Cell!Gps, Cell!Handles, Cell!Confirm, Cell!Confirmed, Cell!Failure, Cell!Query,
             Cell!Command, Cell!Attached, Cell!Goto, Cell!Rest, Cell!modemVars
    <2>4. disk' \in Cell!File
      BY Zenon, <2>1 DEF CellParts, Cell!File, Cell!NoFile, Cell!Torn, Cell!Handles, Cell!Confirm, Cell!Confirmed,
             Cell!Failure, Cell!Query, Cell!Command, Cell!Attached, Cell!Goto, Cell!Rest, Cell!modemVars
    <2>5. handle' \in Cell!Handles /\ handle'.session <= generation'
      BY Zenon, <2>1 DEF CellParts, Cell!Handles, Cell!Gps, Cell!File, Cell!NoFile, Cell!Torn, Cell!Voice,
         Cell!Confirm,
             Cell!Confirmed, Cell!Failure, Cell!Query, Cell!Command, Cell!Attached, Cell!Goto, Cell!Rest,
             Cell!modemVars
    <2>6. pc' \in Cell!Steps
      BY Zenon, <2>1 DEF CellParts, Cell!Steps, Cell!Confirm, Cell!Confirmed, Cell!Failure, Cell!Query, Cell!Command,
             Cell!Attached, Cell!Goto, Cell!Rest, Cell!modemVars
    <2>7. /\ generation' \in 0 .. CellularTroubles /\ cellTroubles' \in 0 .. CellularTroubles
          /\ generation' <= cellTroubles' /\ others' \in 0 .. MaxCalls /\ home' \in Cell!Gps
      <3>1. /\ UNCHANGED <<generation, others, home>>
            /\ UNCHANGED cellTroubles \/ (cellTroubles < CellularTroubles /\ cellTroubles' = cellTroubles + 1)
        BY Zenon DEF Cell!Confirm, Cell!Query, Cell!Command, Cell!modemVars, Cell!Rest
      <3> QED
        BY <2>1, <3>1 DEF CellParts, Cell!VoiceConstants
    <2> QED
      BY <2>2, <2>3, <2>4, <2>5, <2>6, <2>7 DEF CellTypes, Cell!TypeOK
  <1>2. CellFile'
    BY Zenon DEF CellInv, CellTypes, CellFile, CellSound, CellOver, Cell!TypeOK, Cell!Call, Cell!File, Cell!Handles,
           Cell!Steps, Cell!Gps, Cell!Free, Cell!NoFile, Cell!Torn, Cell!VoiceConstants, Cell!JournalHeld, Cell!Muted,
           Cell!NoOrphan, Cell!Voice, OwnCall, Cell!Confirm, Cell!Confirmed, Cell!Failure, Cell!Query, Cell!Command,
           Cell!Attached, Cell!Goto, Cell!Rest, Cell!modemVars
  <1>3. CellSound'
    BY Zenon DEF CellInv, CellTypes, CellFile, CellSound, CellOver, Cell!TypeOK, Cell!Call, Cell!File, Cell!Handles,
           Cell!Steps, Cell!Gps, Cell!Free, Cell!NoFile, Cell!Torn, Cell!VoiceConstants, Cell!JournalHeld, Cell!Muted,
           Cell!NoOrphan, Cell!Voice, OwnCall, Cell!Confirm, Cell!Confirmed, Cell!Failure, Cell!Query, Cell!Command,
           Cell!Attached, Cell!Goto, Cell!Rest, Cell!modemVars
  <1>4. CellOver'
    BY Zenon DEF CellInv, CellTypes, CellFile, CellSound, CellOver, Cell!TypeOK, Cell!Call, Cell!File, Cell!Handles,
           Cell!Steps, Cell!Gps, Cell!Free, Cell!NoFile, Cell!Torn, Cell!VoiceConstants, Cell!JournalHeld, Cell!Muted,
           Cell!NoOrphan, Cell!Voice, OwnCall, Cell!Confirm, Cell!Confirmed, Cell!Failure, Cell!Query, Cell!Command,
           Cell!Attached, Cell!Goto, Cell!Rest, Cell!modemVars
  <1> QED
    BY <1>1, <1>2, <1>3, <1>4 DEF CellInv

\* The settings are put back.
LEMMA CellRestore ==
    ASSUME CellInv, Cell!VoiceConstants, Cell!Restore
    PROVE  CellInv'
  <1>1. CellTypes'
    <2>1. CellParts
      BY DEF CellInv, CellTypes, CellParts, Cell!TypeOK
    <2>2. cellCalls' \in [CallNumbers -> Cell!Call]
      BY Zenon, <2>1 DEF CellParts, Cell!Call, Cell!Free, Cell!Voice, Cell!Restore, Cell!Sets, Cell!Failure,
         Cell!Command,
             Cell!Attached, Cell!Goto, Cell!Rest, Cell!Mute, Cell!Port, Cell!Pcm
    <2>3. sound' \in [pcm : BOOLEAN, gps : Cell!Gps, mic : BOOLEAN]
      BY Zenon, <2>1 DEF CellParts, Cell!Gps, Cell!Handles, Cell!Restore, Cell!Sets, Cell!Failure, Cell!Command,
             Cell!Attached, Cell!Goto, Cell!Rest, Cell!Mute, Cell!Port, Cell!Pcm
    <2>4. disk' \in Cell!File
      BY Zenon, <2>1 DEF CellParts, Cell!File, Cell!NoFile, Cell!Torn, Cell!Handles, Cell!Restore, Cell!Sets,
         Cell!Failure,
             Cell!Command, Cell!Attached, Cell!Goto, Cell!Rest, Cell!Mute, Cell!Port, Cell!Pcm
    <2>5. handle' \in Cell!Handles /\ handle'.session <= generation'
      BY Zenon, <2>1 DEF CellParts, Cell!Handles, Cell!Gps, Cell!File, Cell!NoFile, Cell!Torn, Cell!Voice,
         Cell!Restore,
             Cell!Sets, Cell!Failure, Cell!Command, Cell!Attached, Cell!Goto, Cell!Rest, Cell!Mute, Cell!Port,
             Cell!Pcm
    <2>6. pc' \in Cell!Steps
      BY Zenon, <2>1 DEF CellParts, Cell!Steps, Cell!Restore, Cell!Sets, Cell!Failure, Cell!Command, Cell!Attached,
             Cell!Goto, Cell!Rest, Cell!Mute, Cell!Port, Cell!Pcm
    <2>7. /\ generation' \in 0 .. CellularTroubles /\ cellTroubles' \in 0 .. CellularTroubles
          /\ generation' <= cellTroubles' /\ others' \in 0 .. MaxCalls /\ home' \in Cell!Gps
      <3>1. /\ UNCHANGED <<generation, others, home>>
            /\ UNCHANGED cellTroubles \/ (cellTroubles < CellularTroubles /\ cellTroubles' = cellTroubles + 1)
        BY Zenon DEF Cell!Restore, Cell!Sets, Cell!Command, Cell!Rest
      <3> QED
        BY <2>1, <3>1 DEF CellParts, Cell!VoiceConstants
    <2> QED
      BY <2>2, <2>3, <2>4, <2>5, <2>6, <2>7 DEF CellTypes, Cell!TypeOK
  <1>2. CellFile'
    BY Zenon DEF CellInv, CellTypes, CellFile, CellSound, CellOver, Cell!TypeOK, Cell!Call, Cell!File, Cell!Handles,
           Cell!Steps, Cell!Gps, Cell!Free, Cell!NoFile, Cell!Torn, Cell!VoiceConstants, Cell!JournalHeld, Cell!Muted,
           Cell!NoOrphan, Cell!Voice, OwnCall, Cell!Restore, Cell!Sets, Cell!Failure, Cell!Command, Cell!Attached,
           Cell!Goto, Cell!Rest, Cell!Mute, Cell!Port, Cell!Pcm
  <1>3. CellSound'
    BY Zenon DEF CellInv, CellTypes, CellFile, CellSound, CellOver, Cell!TypeOK, Cell!Call, Cell!File, Cell!Handles,
           Cell!Steps, Cell!Gps, Cell!Free, Cell!NoFile, Cell!Torn, Cell!VoiceConstants, Cell!JournalHeld, Cell!Muted,
           Cell!NoOrphan, Cell!Voice, OwnCall, Cell!Restore, Cell!Sets, Cell!Failure, Cell!Command, Cell!Attached,
           Cell!Goto, Cell!Rest, Cell!Mute, Cell!Port, Cell!Pcm
  <1>4. CellOver'
    BY Zenon DEF CellInv, CellTypes, CellFile, CellSound, CellOver, Cell!TypeOK, Cell!Call, Cell!File, Cell!Handles,
           Cell!Steps, Cell!Gps, Cell!Free, Cell!NoFile, Cell!Torn, Cell!VoiceConstants, Cell!JournalHeld, Cell!Muted,
           Cell!NoOrphan, Cell!Voice, OwnCall, Cell!Restore, Cell!Sets, Cell!Failure, Cell!Command, Cell!Attached,
           Cell!Goto, Cell!Rest, Cell!Mute, Cell!Port, Cell!Pcm
  <1> QED
    BY <1>1, <1>2, <1>3, <1>4 DEF CellInv

\* The file is removed.
LEMMA CellRemove ==
    ASSUME CellInv, Cell!VoiceConstants, Cell!Remove
    PROVE  CellInv'
  <1>1. CellTypes'
    <2>1. CellParts
      BY DEF CellInv, CellTypes, CellParts, Cell!TypeOK
    <2>2. cellCalls' \in [CallNumbers -> Cell!Call]
      BY <2>1 DEF CellParts, Cell!Call, Cell!Free, Cell!Voice, Cell!Remove, Cell!Failure, Cell!Goto, Cell!Rest,
             Cell!modemVars
    <2>3. sound' \in [pcm : BOOLEAN, gps : Cell!Gps, mic : BOOLEAN]
      BY <2>1 DEF CellParts, Cell!Gps, Cell!Handles, Cell!Remove, Cell!Failure, Cell!Goto, Cell!Rest, Cell!modemVars
    <2>4. disk' \in Cell!File
      BY <2>1 DEF CellParts, Cell!File, Cell!NoFile, Cell!Torn, Cell!Handles, Cell!Remove, Cell!Failure, Cell!Goto,
             Cell!Rest, Cell!modemVars
    <2>5. handle' \in Cell!Handles /\ handle'.session <= generation'
      BY <2>1 DEF CellParts, Cell!Handles, Cell!Gps, Cell!File, Cell!NoFile, Cell!Torn, Cell!Voice, Cell!Remove,
             Cell!Failure, Cell!Goto, Cell!Rest, Cell!modemVars
    <2>6. pc' \in Cell!Steps
      BY Zenon, <2>1 DEF CellParts, Cell!Steps, Cell!Remove, Cell!Failure, Cell!Goto, Cell!Rest, Cell!modemVars
    <2>7. /\ generation' \in 0 .. CellularTroubles /\ cellTroubles' \in 0 .. CellularTroubles
          /\ generation' <= cellTroubles' /\ others' \in 0 .. MaxCalls /\ home' \in Cell!Gps
      BY <2>1 DEF CellParts, Cell!VoiceConstants, Cell!Remove, Cell!Failure, Cell!Goto, Cell!Rest, Cell!modemVars
    <2> QED
      BY <2>2, <2>3, <2>4, <2>5, <2>6, <2>7 DEF CellTypes, Cell!TypeOK
  <1>2. CellFile'
    BY DEF CellInv, CellTypes, CellFile, CellSound, CellOver, Cell!TypeOK, Cell!Call, Cell!File, Cell!Handles,
           Cell!Steps, Cell!Gps, Cell!Free, Cell!NoFile, Cell!Torn, Cell!VoiceConstants, Cell!JournalHeld, Cell!Muted,
           Cell!NoOrphan, Cell!Voice, OwnCall, Cell!Remove, Cell!Failure, Cell!Goto, Cell!Rest, Cell!modemVars
  <1>3. CellSound'
    BY Zenon DEF CellInv, CellTypes, CellFile, CellSound, CellOver, Cell!TypeOK, Cell!Call, Cell!File, Cell!Handles,
           Cell!Steps, Cell!Gps, Cell!Free, Cell!NoFile, Cell!Torn, Cell!VoiceConstants, Cell!JournalHeld, Cell!Muted,
           Cell!NoOrphan, Cell!Voice, OwnCall, Cell!Remove, Cell!Failure, Cell!Goto, Cell!Rest, Cell!modemVars
  <1>4. CellOver'
    BY Zenon DEF CellInv, CellTypes, CellFile, CellSound, CellOver, Cell!TypeOK, Cell!Call, Cell!File, Cell!Handles,
           Cell!Steps, Cell!Gps, Cell!Free, Cell!NoFile, Cell!Torn, Cell!VoiceConstants, Cell!JournalHeld, Cell!Muted,
           Cell!NoOrphan, Cell!Voice, OwnCall, Cell!Remove, Cell!Failure, Cell!Goto, Cell!Rest, Cell!modemVars
  <1> QED
    BY <1>1, <1>2, <1>3, <1>4 DEF CellInv

\* The handle is given up.
LEMMA CellClose ==
    ASSUME CellInv, Cell!VoiceConstants, Cell!Close
    PROVE  CellInv'
  <1>1. CellTypes'
    <2>1. CellParts
      BY DEF CellInv, CellTypes, CellParts, Cell!TypeOK
    <2>2. cellCalls' \in [CallNumbers -> Cell!Call]
      BY <2>1 DEF CellParts, Cell!Call, Cell!Free, Cell!Voice, Cell!Close, Cell!Goto, Cell!Rest, Cell!modemVars,
             Cell!NoHandle
    <2>3. sound' \in [pcm : BOOLEAN, gps : Cell!Gps, mic : BOOLEAN]
      BY <2>1 DEF CellParts, Cell!Gps, Cell!Handles, Cell!Close, Cell!Goto, Cell!Rest, Cell!modemVars, Cell!NoHandle
    <2>4. disk' \in Cell!File
      BY <2>1 DEF CellParts, Cell!File, Cell!NoFile, Cell!Torn, Cell!Handles, Cell!Close, Cell!Goto, Cell!Rest,
             Cell!modemVars, Cell!NoHandle
    <2>5. handle' \in Cell!Handles /\ handle'.session <= generation'
      <3>1. Cell!NoHandle \in Cell!Handles /\ Cell!NoHandle.session = 0
        BY CellNobody
      <3>2. generation \in 0 .. CellularTroubles /\ generation \in Nat /\ disk \in Cell!File
        BY <2>1 DEF CellParts
      <3>3. handle' = Cell!NoHandle /\ UNCHANGED generation
        BY DEF Cell!Close, Cell!modemVars
      <3> QED
        BY <3>1, <3>2, <3>3 DEF Cell!Handles, Cell!Gps, Cell!File, Cell!NoFile, Cell!Torn
    <2>6. pc' \in Cell!Steps
      BY <2>1 DEF CellParts, Cell!Steps, Cell!Close, Cell!Goto, Cell!Rest, Cell!modemVars, Cell!NoHandle
    <2>7. /\ generation' \in 0 .. CellularTroubles /\ cellTroubles' \in 0 .. CellularTroubles
          /\ generation' <= cellTroubles' /\ others' \in 0 .. MaxCalls /\ home' \in Cell!Gps
      BY <2>1 DEF CellParts, Cell!VoiceConstants, Cell!Close, Cell!Goto, Cell!Rest, Cell!modemVars, Cell!NoHandle
    <2> QED
      BY <2>2, <2>3, <2>4, <2>5, <2>6, <2>7 DEF CellTypes, Cell!TypeOK
  <1>2. CellFile'
    BY DEF CellInv, CellTypes, CellFile, CellSound, CellOver, Cell!TypeOK, Cell!Call, Cell!File, Cell!Handles,
           Cell!Steps, Cell!Gps, Cell!Free, Cell!NoFile, Cell!Torn, Cell!VoiceConstants, Cell!JournalHeld, Cell!Muted,
           Cell!NoOrphan, Cell!Voice, OwnCall, Cell!Close, Cell!Goto, Cell!Rest, Cell!modemVars, Cell!NoHandle
  <1>3. CellSound'
    BY DEF CellInv, CellTypes, CellFile, CellSound, CellOver, Cell!TypeOK, Cell!Call, Cell!File, Cell!Handles,
           Cell!Steps, Cell!Gps, Cell!Free, Cell!NoFile, Cell!Torn, Cell!VoiceConstants, Cell!JournalHeld, Cell!Muted,
           Cell!NoOrphan, Cell!Voice, OwnCall, Cell!Close, Cell!Goto, Cell!Rest, Cell!modemVars, Cell!NoHandle
  <1>4. CellOver'
    BY DEF CellInv, CellTypes, CellFile, CellSound, CellOver, Cell!TypeOK, Cell!Call, Cell!File, Cell!Handles,
           Cell!Steps, Cell!Gps, Cell!Free, Cell!NoFile, Cell!Torn, Cell!VoiceConstants, Cell!JournalHeld, Cell!Muted,
           Cell!NoOrphan, Cell!Voice, OwnCall, Cell!Close, Cell!Goto, Cell!Rest, Cell!modemVars, Cell!NoHandle
  <1> QED
    BY <1>1, <1>2, <1>3, <1>4 DEF CellInv

\* A file is found.
LEMMA CellRecover ==
    ASSUME CellInv, Cell!VoiceConstants, Cell!Recover
    PROVE  CellInv'
  <1>1. CellTypes'
    <2>1. CellParts
      BY DEF CellInv, CellTypes, CellParts, Cell!TypeOK
    <2>2. cellCalls' \in [CallNumbers -> Cell!Call]
      BY <2>1 DEF CellParts, Cell!Call, Cell!Free, Cell!Voice, Cell!Recover, Cell!Goto, Cell!Rest, Cell!modemVars,
             Cell!NoHandle
    <2>3. sound' \in [pcm : BOOLEAN, gps : Cell!Gps, mic : BOOLEAN]
      BY <2>1 DEF CellParts, Cell!Gps, Cell!Handles, Cell!Recover, Cell!Goto, Cell!Rest, Cell!modemVars,
             Cell!NoHandle
    <2>4. disk' \in Cell!File
      BY <2>1 DEF CellParts, Cell!File, Cell!NoFile, Cell!Torn, Cell!Handles, Cell!Recover, Cell!Goto, Cell!Rest,
             Cell!modemVars, Cell!NoHandle
    <2>5. handle' \in Cell!Handles /\ handle'.session <= generation'
      <3>1. generation \in 0 .. CellularTroubles /\ generation <= generation /\ disk.gps \in Cell!Gps
        BY <2>1 DEF CellParts, Cell!File, Cell!NoFile, Cell!Torn, Cell!Gps
      <3>2. handle' = [Cell!NoHandle EXCEPT !.kind = "recovery", !.gps = disk.gps, !.generation = generation,
                                     !.session = generation] /\ UNCHANGED generation
        BY DEF Cell!Recover, Cell!modemVars
      <3> QED
        BY Zenon, <3>1, <3>2, CellTakes
    <2>6. pc' \in Cell!Steps
      BY <2>1 DEF CellParts, Cell!Steps, Cell!Recover, Cell!Goto, Cell!Rest, Cell!modemVars, Cell!NoHandle
    <2>7. /\ generation' \in 0 .. CellularTroubles /\ cellTroubles' \in 0 .. CellularTroubles
          /\ generation' <= cellTroubles' /\ others' \in 0 .. MaxCalls /\ home' \in Cell!Gps
      BY <2>1 DEF CellParts, Cell!VoiceConstants, Cell!Recover, Cell!Goto, Cell!Rest, Cell!modemVars, Cell!NoHandle
    <2> QED
      BY <2>2, <2>3, <2>4, <2>5, <2>6, <2>7 DEF CellTypes, Cell!TypeOK
  <1>2. CellFile'
    BY DEF CellInv, CellTypes, CellFile, CellSound, CellOver, Cell!TypeOK, Cell!Call, Cell!File, Cell!Handles,
           Cell!Steps, Cell!Gps, Cell!Free, Cell!NoFile, Cell!Torn, Cell!VoiceConstants, Cell!JournalHeld, Cell!Muted,
           Cell!NoOrphan, Cell!Voice, OwnCall, Cell!Recover, Cell!Goto, Cell!Rest, Cell!modemVars, Cell!NoHandle
  <1>3. CellSound'
    BY DEF CellInv, CellTypes, CellFile, CellSound, CellOver, Cell!TypeOK, Cell!Call, Cell!File, Cell!Handles,
           Cell!Steps, Cell!Gps, Cell!Free, Cell!NoFile, Cell!Torn, Cell!VoiceConstants, Cell!JournalHeld, Cell!Muted,
           Cell!NoOrphan, Cell!Voice, OwnCall, Cell!Recover, Cell!Goto, Cell!Rest, Cell!modemVars, Cell!NoHandle
  <1>4. CellOver'
    BY DEF CellInv, CellTypes, CellFile, CellSound, CellOver, Cell!TypeOK, Cell!Call, Cell!File, Cell!Handles,
           Cell!Steps, Cell!Gps, Cell!Free, Cell!NoFile, Cell!Torn, Cell!VoiceConstants, Cell!JournalHeld, Cell!Muted,
           Cell!NoOrphan, Cell!Voice, OwnCall, Cell!Recover, Cell!Goto, Cell!Rest, Cell!modemVars, Cell!NoHandle
  <1> QED
    BY <1>1, <1>2, <1>3, <1>4 DEF CellInv

\* A call comes in.
LEMMA CellRings ==
    ASSUME CellInv, Cell!VoiceConstants, Cell!Rings
    PROVE  CellInv'
  <1>1. CellTypes'
    <2>1. CellParts
      BY DEF CellInv, CellTypes, CellParts, Cell!TypeOK
    <2>2. cellCalls' \in [CallNumbers -> Cell!Call]
      BY <2>1 DEF CellParts, Cell!Call, Cell!Free, Cell!Voice, Cell!Rings, Cell!NextId
    <2>3. sound' \in [pcm : BOOLEAN, gps : Cell!Gps, mic : BOOLEAN]
      BY <2>1 DEF CellParts, Cell!Gps, Cell!Handles, Cell!Rings, Cell!NextId
    <2>4. disk' \in Cell!File
      BY <2>1 DEF CellParts, Cell!File, Cell!NoFile, Cell!Torn, Cell!Handles, Cell!Rings, Cell!NextId
    <2>5. handle' \in Cell!Handles /\ handle'.session <= generation'
      BY <2>1 DEF CellParts, Cell!Handles, Cell!Gps, Cell!File, Cell!NoFile, Cell!Torn, Cell!Voice, Cell!Rings,
             Cell!NextId
    <2>6. pc' \in Cell!Steps
      BY Zenon, <2>1 DEF CellParts, Cell!Steps, Cell!Rings, Cell!NextId
    <2>7. /\ generation' \in 0 .. CellularTroubles /\ cellTroubles' \in 0 .. CellularTroubles
          /\ generation' <= cellTroubles' /\ others' \in 0 .. MaxCalls /\ home' \in Cell!Gps
      BY <2>1 DEF CellParts, Cell!VoiceConstants, Cell!Rings, Cell!NextId
    <2> QED
      BY <2>2, <2>3, <2>4, <2>5, <2>6, <2>7 DEF CellTypes, Cell!TypeOK
  <1>2. CellFile'
    BY Zenon DEF CellInv, CellTypes, CellFile, CellSound, CellOver, Cell!TypeOK, Cell!Call, Cell!File, Cell!Handles,
           Cell!Steps, Cell!Gps, Cell!Free, Cell!NoFile, Cell!Torn, Cell!VoiceConstants, Cell!JournalHeld, Cell!Muted,
           Cell!NoOrphan, Cell!Voice, OwnCall, Cell!Rings, Cell!NextId
  <1>3. CellSound'
    BY Zenon DEF CellInv, CellTypes, CellFile, CellSound, CellOver, Cell!TypeOK, Cell!Call, Cell!File, Cell!Handles,
           Cell!Steps, Cell!Gps, Cell!Free, Cell!NoFile, Cell!Torn, Cell!VoiceConstants, Cell!JournalHeld, Cell!Muted,
           Cell!NoOrphan, Cell!Voice, OwnCall, Cell!Rings, Cell!NextId
  <1>4. CellOver'
    BY Zenon DEF CellInv, CellTypes, CellFile, CellSound, CellOver, Cell!TypeOK, Cell!Call, Cell!File, Cell!Handles,
           Cell!Steps, Cell!Gps, Cell!Free, Cell!NoFile, Cell!Torn, Cell!VoiceConstants, Cell!JournalHeld, Cell!Muted,
           Cell!NoOrphan, Cell!Voice, OwnCall, Cell!Rings, Cell!NextId
  <1> QED
    BY <1>1, <1>2, <1>3, <1>4 DEF CellInv

\* The other side answers.
LEMMA CellPeerAnswers ==
    ASSUME CellInv, Cell!VoiceConstants, Cell!PeerAnswers
    PROVE  CellInv'
  <1>1. CellTypes'
    <2>1. CellParts
      BY DEF CellInv, CellTypes, CellParts, Cell!TypeOK
    <2>2. cellCalls' \in [CallNumbers -> Cell!Call]
      BY <2>1 DEF CellParts, Cell!Call, Cell!Free, Cell!Voice, Cell!PeerAnswers
    <2>3. sound' \in [pcm : BOOLEAN, gps : Cell!Gps, mic : BOOLEAN]
      BY <2>1 DEF CellParts, Cell!Gps, Cell!Handles, Cell!PeerAnswers
    <2>4. disk' \in Cell!File
      BY <2>1 DEF CellParts, Cell!File, Cell!NoFile, Cell!Torn, Cell!Handles, Cell!PeerAnswers
    <2>5. handle' \in Cell!Handles /\ handle'.session <= generation'
      BY <2>1 DEF CellParts, Cell!Handles, Cell!Gps, Cell!File, Cell!NoFile, Cell!Torn, Cell!Voice, Cell!PeerAnswers
    <2>6. pc' \in Cell!Steps
      BY Zenon, <2>1 DEF CellParts, Cell!Steps, Cell!PeerAnswers
    <2>7. /\ generation' \in 0 .. CellularTroubles /\ cellTroubles' \in 0 .. CellularTroubles
          /\ generation' <= cellTroubles' /\ others' \in 0 .. MaxCalls /\ home' \in Cell!Gps
      BY <2>1 DEF CellParts, Cell!VoiceConstants, Cell!PeerAnswers
    <2> QED
      BY <2>2, <2>3, <2>4, <2>5, <2>6, <2>7 DEF CellTypes, Cell!TypeOK
  <1>2. CellFile'
    BY Zenon DEF CellInv, CellTypes, CellFile, CellSound, CellOver, Cell!TypeOK, Cell!Call, Cell!File, Cell!Handles,
           Cell!Steps, Cell!Gps, Cell!Free, Cell!NoFile, Cell!Torn, Cell!VoiceConstants, Cell!JournalHeld, Cell!Muted,
           Cell!NoOrphan, Cell!Voice, OwnCall, Cell!PeerAnswers
  <1>3. CellSound'
    BY Zenon DEF CellInv, CellTypes, CellFile, CellSound, CellOver, Cell!TypeOK, Cell!Call, Cell!File, Cell!Handles,
           Cell!Steps, Cell!Gps, Cell!Free, Cell!NoFile, Cell!Torn, Cell!VoiceConstants, Cell!JournalHeld, Cell!Muted,
           Cell!NoOrphan, Cell!Voice, OwnCall, Cell!PeerAnswers
  <1>4. CellOver'
    <2>1. \A i \in CallNumbers : cellCalls'[i].own /\ cellCalls'[i].state \in {"dialing", "active"}
                                 => cellCalls[i].own /\ cellCalls[i].state \in {"dialing", "active"}
      BY DEF CellInv, CellTypes, Cell!TypeOK, Cell!Call, Cell!Free, Cell!Voice, Cell!Ringing, Cell!PeerAnswers
    <2>2. OwnCall' => OwnCall
      BY <2>1, CellKeeps
    <2>3. /\ disk'.file = disk.file \/ disk.file # "saved"
          /\ pc' \in {"pcm off", "port back", "mute again", "remove"} => pc' = pc
      BY DEF CellInv, CellFile, Cell!NoFile, Cell!Torn, Cell!PeerAnswers
    <2> QED
      BY Zenon, <2>2, <2>3 DEF CellInv, CellOver, Cell!NoOrphan, OwnCall
  <1> QED
    BY <1>1, <1>2, <1>3, <1>4 DEF CellInv

\* A call ends.
LEMMA CellPeerEnds ==
    ASSUME CellInv, Cell!VoiceConstants, Cell!PeerEnds
    PROVE  CellInv'
  <1>1. CellTypes'
    <2>1. CellParts
      BY DEF CellInv, CellTypes, CellParts, Cell!TypeOK
    <2>2. cellCalls' \in [CallNumbers -> Cell!Call]
      BY <2>1 DEF CellParts, Cell!Call, Cell!Free, Cell!Voice, Cell!PeerEnds
    <2>3. sound' \in [pcm : BOOLEAN, gps : Cell!Gps, mic : BOOLEAN]
      BY <2>1 DEF CellParts, Cell!Gps, Cell!Handles, Cell!PeerEnds
    <2>4. disk' \in Cell!File
      BY <2>1 DEF CellParts, Cell!File, Cell!NoFile, Cell!Torn, Cell!Handles, Cell!PeerEnds
    <2>5. handle' \in Cell!Handles /\ handle'.session <= generation'
      BY <2>1 DEF CellParts, Cell!Handles, Cell!Gps, Cell!File, Cell!NoFile, Cell!Torn, Cell!Voice, Cell!PeerEnds
    <2>6. pc' \in Cell!Steps
      BY Zenon, <2>1 DEF CellParts, Cell!Steps, Cell!PeerEnds
    <2>7. /\ generation' \in 0 .. CellularTroubles /\ cellTroubles' \in 0 .. CellularTroubles
          /\ generation' <= cellTroubles' /\ others' \in 0 .. MaxCalls /\ home' \in Cell!Gps
      BY <2>1 DEF CellParts, Cell!VoiceConstants, Cell!PeerEnds
    <2> QED
      BY <2>2, <2>3, <2>4, <2>5, <2>6, <2>7 DEF CellTypes, Cell!TypeOK
  <1>2. CellFile'
    BY Zenon DEF CellInv, CellTypes, CellFile, CellSound, CellOver, Cell!TypeOK, Cell!Call, Cell!File, Cell!Handles,
           Cell!Steps, Cell!Gps, Cell!Free, Cell!NoFile, Cell!Torn, Cell!VoiceConstants, Cell!JournalHeld, Cell!Muted,
           Cell!NoOrphan, Cell!Voice, OwnCall, Cell!PeerEnds
  <1>3. CellSound'
    BY Zenon DEF CellInv, CellTypes, CellFile, CellSound, CellOver, Cell!TypeOK, Cell!Call, Cell!File, Cell!Handles,
           Cell!Steps, Cell!Gps, Cell!Free, Cell!NoFile, Cell!Torn, Cell!VoiceConstants, Cell!JournalHeld, Cell!Muted,
           Cell!NoOrphan, Cell!Voice, OwnCall, Cell!PeerEnds
  <1>4. CellOver'
    <2>1. \A i \in CallNumbers : cellCalls'[i].own /\ cellCalls'[i].state \in {"dialing", "active"}
                                 => cellCalls[i].own /\ cellCalls[i].state \in {"dialing", "active"}
      BY DEF CellInv, CellTypes, Cell!TypeOK, Cell!Call, Cell!Free, Cell!Voice, Cell!Ringing, Cell!PeerEnds
    <2>2. OwnCall' => OwnCall
      BY <2>1, CellKeeps
    <2>3. /\ disk'.file = disk.file \/ disk.file # "saved"
          /\ pc' \in {"pcm off", "port back", "mute again", "remove"} => pc' = pc
      BY DEF CellInv, CellFile, Cell!NoFile, Cell!Torn, Cell!PeerEnds
    <2> QED
      BY Zenon, <2>2, <2>3 DEF CellInv, CellOver, Cell!NoOrphan, OwnCall
  <1> QED
    BY <1>1, <1>2, <1>3, <1>4 DEF CellInv

\* The device enumerates again.
LEMMA CellEnumerates ==
    ASSUME CellInv, Cell!VoiceConstants, Cell!Enumerates
    PROVE  CellInv'
  <1>1. CellTypes'
    <2>1. CellParts
      BY DEF CellInv, CellTypes, CellParts, Cell!TypeOK
    <2>2. cellCalls' \in [CallNumbers -> Cell!Call]
      BY <2>1 DEF CellParts, Cell!Call, Cell!Free, Cell!Voice, Cell!Enumerates
    <2>3. sound' \in [pcm : BOOLEAN, gps : Cell!Gps, mic : BOOLEAN]
      BY <2>1 DEF CellParts, Cell!Gps, Cell!Handles, Cell!Enumerates
    <2>4. disk' \in Cell!File
      BY <2>1 DEF CellParts, Cell!File, Cell!NoFile, Cell!Torn, Cell!Handles, Cell!Enumerates
    <2>5. handle' \in Cell!Handles /\ handle'.session <= generation'
      BY <2>1 DEF CellParts, Cell!Handles, Cell!Gps, Cell!File, Cell!NoFile, Cell!Torn, Cell!Voice, Cell!Enumerates
    <2>6. pc' \in Cell!Steps
      BY Zenon, <2>1 DEF CellParts, Cell!Steps, Cell!Enumerates
    <2>7. /\ generation' \in 0 .. CellularTroubles /\ cellTroubles' \in 0 .. CellularTroubles
          /\ generation' <= cellTroubles' /\ others' \in 0 .. MaxCalls /\ home' \in Cell!Gps
      BY <2>1 DEF CellParts, Cell!VoiceConstants, Cell!Enumerates
    <2> QED
      BY <2>2, <2>3, <2>4, <2>5, <2>6, <2>7 DEF CellTypes, Cell!TypeOK
  <1>2. CellFile'
    BY Zenon DEF CellInv, CellTypes, CellFile, CellSound, CellOver, Cell!TypeOK, Cell!Call, Cell!File, Cell!Handles,
           Cell!Steps, Cell!Gps, Cell!Free, Cell!NoFile, Cell!Torn, Cell!VoiceConstants, Cell!JournalHeld, Cell!Muted,
           Cell!NoOrphan, Cell!Voice, OwnCall, Cell!Enumerates
  <1>3. CellSound'
    <2>1. handle.session # generation' /\ UNCHANGED <<home, disk, pc, handle>>
      BY DEF CellInv, CellTypes, Cell!TypeOK, Cell!Handles, Cell!Enumerates
    <2>2. sound \in [pcm : BOOLEAN, gps : Cell!Gps, mic : BOOLEAN]
      BY DEF CellInv, CellTypes, Cell!TypeOK
    <2>3. UNCHANGED sound \/ (~ sound'.pcm /\ sound'.gps = sound.gps)
      BY <2>2 DEF Cell!Enumerates
    <2> QED
      BY Zenon, <2>1, <2>3 DEF CellInv, CellSound, Cell!JournalHeld, Cell!Muted
  <1>4. CellOver'
    <2>1. UNCHANGED <<disk, pc>> /\ (UNCHANGED cellCalls \/ cellCalls' = [i \in CallNumbers |-> Cell!Free])
      BY DEF Cell!Enumerates
    <2>2. ASSUME UNCHANGED cellCalls
          PROVE  OwnCall' = OwnCall
      BY <2>2 DEF OwnCall, Cell!Voice
    <2>3. ASSUME cellCalls' = [i \in CallNumbers |-> Cell!Free]
          PROVE  ~ OwnCall'
      BY <2>3 DEF OwnCall, Cell!Voice
    <2>4. CellOver /\ (OwnCall => disk.file = "saved")
      BY DEF CellInv, CellOver, Cell!NoOrphan, OwnCall
    <2>5. OwnCall' => disk'.file = "saved"
      BY <2>1, <2>2, <2>3, <2>4
    <2> QED
      BY <2>1, <2>2, <2>3, <2>4, <2>5 DEF CellOver, Cell!NoOrphan, OwnCall
  <1> QED
    BY <1>1, <1>2, <1>3, <1>4 DEF CellInv

\* The firmware switches the sound off.
LEMMA CellFirmwareStops ==
    ASSUME CellInv, Cell!VoiceConstants, Cell!FirmwareStops
    PROVE  CellInv'
  <1>1. CellTypes'
    <2>1. CellParts
      BY DEF CellInv, CellTypes, CellParts, Cell!TypeOK
    <2>2. cellCalls' \in [CallNumbers -> Cell!Call]
      BY <2>1 DEF CellParts, Cell!Call, Cell!Free, Cell!Voice, Cell!FirmwareStops, Cell!Pcm
    <2>3. sound' \in [pcm : BOOLEAN, gps : Cell!Gps, mic : BOOLEAN]
      BY <2>1 DEF CellParts, Cell!Gps, Cell!Handles, Cell!FirmwareStops, Cell!Pcm
    <2>4. disk' \in Cell!File
      BY <2>1 DEF CellParts, Cell!File, Cell!NoFile, Cell!Torn, Cell!Handles, Cell!FirmwareStops, Cell!Pcm
    <2>5. handle' \in Cell!Handles /\ handle'.session <= generation'
      BY <2>1 DEF CellParts, Cell!Handles, Cell!Gps, Cell!File, Cell!NoFile, Cell!Torn, Cell!Voice,
             Cell!FirmwareStops, Cell!Pcm
    <2>6. pc' \in Cell!Steps
      BY Zenon, <2>1 DEF CellParts, Cell!Steps, Cell!FirmwareStops, Cell!Pcm
    <2>7. /\ generation' \in 0 .. CellularTroubles /\ cellTroubles' \in 0 .. CellularTroubles
          /\ generation' <= cellTroubles' /\ others' \in 0 .. MaxCalls /\ home' \in Cell!Gps
      BY <2>1 DEF CellParts, Cell!VoiceConstants, Cell!FirmwareStops, Cell!Pcm
    <2> QED
      BY <2>2, <2>3, <2>4, <2>5, <2>6, <2>7 DEF CellTypes, Cell!TypeOK
  <1>2. CellFile'
    BY Zenon DEF CellInv, CellTypes, CellFile, CellSound, CellOver, Cell!TypeOK, Cell!Call, Cell!File, Cell!Handles,
           Cell!Steps, Cell!Gps, Cell!Free, Cell!NoFile, Cell!Torn, Cell!VoiceConstants, Cell!JournalHeld, Cell!Muted,
           Cell!NoOrphan, Cell!Voice, OwnCall, Cell!FirmwareStops, Cell!Pcm
  <1>3. CellSound'
    BY Zenon DEF CellInv, CellTypes, CellFile, CellSound, CellOver, Cell!TypeOK, Cell!Call, Cell!File, Cell!Handles,
           Cell!Steps, Cell!Gps, Cell!Free, Cell!NoFile, Cell!Torn, Cell!VoiceConstants, Cell!JournalHeld, Cell!Muted,
           Cell!NoOrphan, Cell!Voice, OwnCall, Cell!FirmwareStops, Cell!Pcm
  <1>4. CellOver'
    BY Zenon DEF CellInv, CellTypes, CellFile, CellSound, CellOver, Cell!TypeOK, Cell!Call, Cell!File, Cell!Handles,
           Cell!Steps, Cell!Gps, Cell!Free, Cell!NoFile, Cell!Torn, Cell!VoiceConstants, Cell!JournalHeld, Cell!Muted,
           Cell!NoOrphan, Cell!Voice, OwnCall, Cell!FirmwareStops, Cell!Pcm
  <1> QED
    BY <1>1, <1>2, <1>3, <1>4 DEF CellInv

\* The program ends.
LEMMA CellStop ==
    ASSUME CellInv, Cell!VoiceConstants, Cell!Stop
    PROVE  CellInv'
  <1>1. CellTypes'
    <2>1. CellParts
      BY DEF CellInv, CellTypes, CellParts, Cell!TypeOK
    <2>2. cellCalls' \in [CallNumbers -> Cell!Call]
      BY <2>1 DEF CellParts, Cell!Call, Cell!Free, Cell!Voice, Cell!Stop, Cell!Goto, Cell!Rest, Cell!modemVars,
             Cell!NoHandle
    <2>3. sound' \in [pcm : BOOLEAN, gps : Cell!Gps, mic : BOOLEAN]
      BY <2>1 DEF CellParts, Cell!Gps, Cell!Handles, Cell!Stop, Cell!Goto, Cell!Rest, Cell!modemVars, Cell!NoHandle
    <2>4. disk' \in Cell!File
      BY <2>1 DEF CellParts, Cell!File, Cell!NoFile, Cell!Torn, Cell!Handles, Cell!Stop, Cell!Goto, Cell!Rest,
             Cell!modemVars, Cell!NoHandle
    <2>5. handle' \in Cell!Handles /\ handle'.session <= generation'
      <3>1. Cell!NoHandle \in Cell!Handles /\ Cell!NoHandle.session = 0
        BY CellNobody
      <3>2. generation \in 0 .. CellularTroubles /\ generation \in Nat /\ disk \in Cell!File
        BY <2>1 DEF CellParts
      <3>3. handle' = Cell!NoHandle /\ UNCHANGED generation
        BY DEF Cell!Stop, Cell!modemVars
      <3> QED
        BY <3>1, <3>2, <3>3 DEF Cell!Handles, Cell!Gps, Cell!File, Cell!NoFile, Cell!Torn
    <2>6. pc' \in Cell!Steps
      BY Zenon, <2>1 DEF CellParts, Cell!Steps, Cell!Stop, Cell!Goto, Cell!Rest, Cell!modemVars, Cell!NoHandle
    <2>7. /\ generation' \in 0 .. CellularTroubles /\ cellTroubles' \in 0 .. CellularTroubles
          /\ generation' <= cellTroubles' /\ others' \in 0 .. MaxCalls /\ home' \in Cell!Gps
      BY <2>1 DEF CellParts, Cell!VoiceConstants, Cell!Stop, Cell!Goto, Cell!Rest, Cell!modemVars, Cell!NoHandle
    <2> QED
      BY <2>2, <2>3, <2>4, <2>5, <2>6, <2>7 DEF CellTypes, Cell!TypeOK
  <1>2. CellFile'
    BY Zenon DEF CellInv, CellTypes, CellFile, CellSound, CellOver, Cell!TypeOK, Cell!Call, Cell!File, Cell!Handles,
           Cell!Steps, Cell!Gps, Cell!Free, Cell!NoFile, Cell!Torn, Cell!VoiceConstants, Cell!JournalHeld, Cell!Muted,
           Cell!NoOrphan, Cell!Voice, OwnCall, Cell!Stop, Cell!Goto, Cell!Rest, Cell!modemVars, Cell!NoHandle
  <1>3. CellSound'
    BY Zenon DEF CellInv, CellTypes, CellFile, CellSound, CellOver, Cell!TypeOK, Cell!Call, Cell!File, Cell!Handles,
           Cell!Steps, Cell!Gps, Cell!Free, Cell!NoFile, Cell!Torn, Cell!VoiceConstants, Cell!JournalHeld, Cell!Muted,
           Cell!NoOrphan, Cell!Voice, OwnCall, Cell!Stop, Cell!Goto, Cell!Rest, Cell!modemVars, Cell!NoHandle
  <1>4. CellOver'
    BY Zenon DEF CellInv, CellTypes, CellFile, CellSound, CellOver, Cell!TypeOK, Cell!Call, Cell!File, Cell!Handles,
           Cell!Steps, Cell!Gps, Cell!Free, Cell!NoFile, Cell!Torn, Cell!VoiceConstants, Cell!JournalHeld, Cell!Muted,
           Cell!NoOrphan, Cell!Voice, OwnCall, Cell!Stop, Cell!Goto, Cell!Rest, Cell!modemVars, Cell!NoHandle
  <1> QED
    BY <1>1, <1>2, <1>3, <1>4 DEF CellInv

\* No call, no file, and the settings of the user.
LEMMA CellInit ==
    ASSUME Cell!VoiceConstants, Cell!Init
    PROVE  CellInv
  <1>1. CellParts
    <2>1. 0 \in 0 .. CellularTroubles /\ 0 \in 0 .. MaxCalls /\ generation = 0 /\ cellTroubles = 0 /\ others = 0
      BY DEF Cell!VoiceConstants, Cell!Init
    <2>2. cellCalls \in [CallNumbers -> Cell!Call] /\ disk \in Cell!File /\ pc \in Cell!Steps /\ home \in Cell!Gps
      BY DEF Cell!Init, Cell!Call, Cell!File, Cell!Steps
    <2>3. sound \in [pcm : BOOLEAN, gps : Cell!Gps, mic : BOOLEAN]
      BY DEF Cell!Init
    <2>4. handle \in Cell!Handles /\ handle.session <= generation
      BY <2>1, CellNobody DEF Cell!Init
    <2> QED
      BY <2>1, <2>2, <2>3, <2>4 DEF CellParts
  <1>2. CellTypes
    BY <1>1 DEF CellParts, CellTypes, Cell!TypeOK
  <1>3. ~ OwnCall
    BY DEF Cell!Init, OwnCall, Cell!Voice
  <1>4. CellFile /\ CellSound
    BY DEF Cell!Init, CellFile, CellSound, Cell!NoFile, Cell!Torn, Cell!JournalHeld, Cell!Muted
  <1> QED
    BY Zenon, <1>2, <1>3, <1>4 DEF CellInv, CellOver, Cell!NoOrphan, OwnCall

\* Every step of a cellular call.
LEMMA CellNext ==
    ASSUME CellInv, Cell!VoiceConstants, Cell!Next
    PROVE  CellInv'
  BY CellOpen, CellCheck, CellRead, CellSave, CellWritten, CellPrepare, CellDial, CellAnswer, CellAnswerSent, CellState,
     CellReject, CellHangup, CellReopen, CellEnding, CellSendEnd, CellConfirm, CellRestore, CellRemove, CellClose,
     CellRecover, CellRings, CellPeerAnswers, CellPeerEnds, CellEnumerates, CellFirmwareStops, CellStop
  DEF Cell!Next, Cell!HandleStep

\* A step of another part.
LEMMA CellRests ==
    ASSUME CellInv, UNCHANGED varsCell
    PROVE  CellInv'
  BY Zenon DEF varsCell, CellInv, CellTypes, Cell!TypeOK, CellFile, CellSound, CellOver, Cell!JournalHeld, Cell!Muted,
         Cell!NoOrphan, Cell!Voice, OwnCall

\* A call of ours has its file, and the user's settings are in it, for any number of calls, failures and enumerations.
LEMMA CellGood ==
    ASSUME CellInv
    PROVE  Cell!VoiceSound
  BY Zenon DEF CellInv, CellTypes, CellSound, CellOver, Cell!VoiceSound

\* The inductive invariant of a cellular call holds for any number of calls, failures and enumerations.
THEOREM CellularInvariant == Behaviour => []CellInv
  <1>1. Cell!VoiceConstants
    BY CellularBounds
  <1>2. InitAll => CellInv
    BY <1>1, CellInit DEF InitAll
  <1>3. CellInv /\ [NextAll]_all => CellInv'
    <2>1. ASSUME CellInv, NextAll
          PROVE  CellInv'
      BY <1>1, <2>1, CellNext, CellRests DEF NextAll
    <2>2. ASSUME CellInv, UNCHANGED all
          PROVE  CellInv'
      BY <2>2, CellRests DEF all
    <2> QED
      BY <2>1, <2>2
  <1> QED
    BY <1>2, <1>3, PTL DEF Behaviour

-----------------------------------------------------------------------------
(* A call over Wi-Fi                                                         *)

Opens == request.op \in {"open", "attach"}

\* The slot is its stream's, and the stream knows its handle's call.
WifiSlot ==
    /\ stream.at = "none" <=> slot = Wifi!None
    /\ stream.at = "none" => stream = Wifi!NoStream
    /\ slot # Wifi!None =>
          /\ client[slot].at # "idle"
          /\ stream.call = client[slot].call \/ (client[slot].call = Wifi!None /\ stream.call = slot)
    /\ stream.at = "accept" => stream.call = client[slot].call

\* The command in flight: an open is a handle's first, and a list that found nothing tells of the handle's call.
WifiRequest ==
    /\ request.at # "none" => request.by \in Handle
    /\ \A h \in Handle : client[h].at = "listing" =>
          request.by = h /\ request.op = "list" /\ request.at # "none"
    /\ request.at \in {"sent", "run", "listed"} => ~ request.ok
    /\ request.at \in {"sent", "run"} /\ Opens =>
          /\ client[request.by].at \in {"opening", "failed"} /\ client[request.by].seen = "none"
          /\ wire[request.by].sent = "none" /\ slot # request.by
          /\ request.at = "run" => slot = Wifi!None
    /\ request.op = "list" /\ (request.at = "listed" \/ (request.at = "reply" /\ request.ok)) =>
          /\ ~ request.busy => ~ Wifi!Live(client[request.by].call)
          /\ request.at = "reply" /\ request.stream # request.by => slot # request.by

\* What a handle is told of its call is true.
WifiClient(h) ==
    /\ wifiCalls[h] # "ringing"
    /\ client[h].call # Wifi!None => wifiCalls[client[h].call] # "none"
    /\ client[h].at = "idle" => client[h].call = Wifi!None /\ client[h].seen = "none" /\ wire[h].sent = "none"
    /\ Wifi!WorkerRuns /\ (client[h].at = "released" \/ client[h].seen = "ended" \/ wire[h].sent = "ended") =>
          slot # h /\ ~ Wifi!Live(Wifi!CallOf(h))

\* A call that was never answered is not the stream's to hold yet.
WifiHeld ==
    /\ Wifi!SlotHeld
    /\ Wifi!WorkerRuns /\ stream.at = "accept" => \A c \in DOMAIN wifiCalls : wifiCalls[c] # "live"

WifiTypes == Wifi!TypeOK
WifiClients == \A h \in Handle : WifiClient(h)
WifiInv == WifiTypes /\ WifiSlot /\ WifiRequest /\ WifiClients /\ WifiHeld
\* The types, part by part, of a state and of the next one.
WifiRequests == [by : Handle \cup {Wifi!None}, at : {"none", "sent", "run", "listed", "reply"},
                 op : {"none", "open", "attach", "list"}, ok : BOOLEAN,
                 stream : Handle \cup {Wifi!None}, busy : BOOLEAN]
WifiStreams == [at : {"none", "accept", "serve", "ending"}, incoming : BOOLEAN,
                call : Handle \cup Incoming \cup {Wifi!None}, fresh : BOOLEAN]
WifiWires == [frames : Seq({"dial", "answer", "end"}), sent : {"none", "initial", "live", "ended"},
              program : BOOLEAN, worker : BOOLEAN]
WifiClientele == [at : {"idle", "opening", "joining", "up", "waiting", "listing", "again", "released", "failed"},
                  call : Incoming \cup {Wifi!None}, dialed : BOOLEAN, ended : BOOLEAN,
                  seen : {"none", "initial", "live", "ended"}]
WifiParts ==
    /\ wifiCalls \in [Handle \cup Incoming -> {"none", "ringing", "live", "ended", "gone"}]
    /\ wifiWorker \in {"up", "rebuilding", "stopping", "clean", "unclean"}
    /\ request \in WifiRequests /\ slot \in Handle \cup {Wifi!None} /\ stream \in WifiStreams
    /\ wire \in [Handle -> WifiWires] /\ client \in [Handle -> WifiClientele]
    /\ wifiTroubles \in 0 .. WifiTroubles

\* The type invariant is its parts, in a state and in the next one.
LEMMA WifiTyped ==
    /\ Wifi!TypeOK <=> WifiParts
    /\ Wifi!TypeOK' <=> WifiParts'
  BY DEF Wifi!TypeOK, WifiParts, WifiRequests, WifiStreams, WifiWires, WifiClientele

\* A handle's record and a connection's stay in their types when one field of them changes.
LEMMA WifiFields ==
    ASSUME WifiParts
    PROVE  /\ \A h \in Handle : client[h] \in WifiClientele /\ wire[h] \in WifiWires
           /\ \A r \in WifiClientele :
                 /\ r.call \in Incoming \cup {Wifi!None}
                 /\ \A t \in {"idle", "opening", "joining", "up", "waiting", "listing", "again", "released", "failed"} :
                       [r EXCEPT !.at = t] \in WifiClientele
                 /\ \A t \in {"none", "initial", "live", "ended"} : [r EXCEPT !.seen = t] \in WifiClientele
                 /\ [r EXCEPT !.dialed = TRUE] \in WifiClientele
                 /\ [r EXCEPT !.at = "waiting", !.ended = TRUE] \in WifiClientele
                 /\ \A c \in Incoming \cup {Wifi!None}, b \in BOOLEAN :
                       [r EXCEPT !.at = "opening", !.call = c, !.dialed = b] \in WifiClientele
           /\ \A r \in WifiWires :
                 /\ r.frames \in Seq({"dial", "answer", "end"}) /\ r.sent \in {"none", "initial", "live", "ended"}
                 /\ \A b \in BOOLEAN : [r EXCEPT !.program = b] \in WifiWires
                 /\ \A b \in BOOLEAN : [r EXCEPT !.worker = b] \in WifiWires
                 /\ \A b, d \in BOOLEAN : [r EXCEPT !.program = b, !.worker = d] \in WifiWires
                 /\ \A t \in {"none", "initial", "live", "ended"} : [r EXCEPT !.sent = t] \in WifiWires
                 /\ \A b \in BOOLEAN, t \in {"none", "initial", "live", "ended"} :
                       [r EXCEPT !.worker = b, !.sent = t] \in WifiWires
                 /\ \A f \in {"dial", "answer", "end"} : [r EXCEPT !.frames = Append(@, f)] \in WifiWires
                 /\ r.frames # <<>> => /\ Head(r.frames) \in {"dial", "answer", "end"}
                                       /\ [r EXCEPT !.frames = Tail(@)] \in WifiWires
  <1>1. \A h \in Handle : client[h] \in WifiClientele /\ wire[h] \in WifiWires
    BY DEF WifiParts
  <1>2. ASSUME NEW r \in WifiClientele
        PROVE  /\ r.call \in Incoming \cup {Wifi!None}
               /\ \A t \in {"idle", "opening", "joining", "up", "waiting", "listing", "again", "released", "failed"} :
                     [r EXCEPT !.at = t] \in WifiClientele
               /\ \A t \in {"none", "initial", "live", "ended"} : [r EXCEPT !.seen = t] \in WifiClientele
               /\ [r EXCEPT !.dialed = TRUE] \in WifiClientele
               /\ [r EXCEPT !.at = "waiting", !.ended = TRUE] \in WifiClientele
               /\ \A c \in Incoming \cup {Wifi!None}, b \in BOOLEAN :
                     [r EXCEPT !.at = "opening", !.call = c, !.dialed = b] \in WifiClientele
    BY Zenon, <1>2 DEF WifiClientele
  <1>3. ASSUME NEW r \in WifiWires
        PROVE  /\ r.frames \in Seq({"dial", "answer", "end"}) /\ r.sent \in {"none", "initial", "live", "ended"}
               /\ \A b \in BOOLEAN : [r EXCEPT !.program = b] \in WifiWires
               /\ \A b \in BOOLEAN : [r EXCEPT !.worker = b] \in WifiWires
               /\ \A b, d \in BOOLEAN : [r EXCEPT !.program = b, !.worker = d] \in WifiWires
               /\ \A t \in {"none", "initial", "live", "ended"} : [r EXCEPT !.sent = t] \in WifiWires
               /\ \A b \in BOOLEAN, t \in {"none", "initial", "live", "ended"} :
                     [r EXCEPT !.worker = b, !.sent = t] \in WifiWires
    BY Zenon, <1>3 DEF WifiWires
  <1>4. ASSUME NEW r \in WifiWires
        PROVE  /\ \A f \in {"dial", "answer", "end"} : [r EXCEPT !.frames = Append(@, f)] \in WifiWires
               /\ r.frames # <<>> => /\ Head(r.frames) \in {"dial", "answer", "end"}
                                     /\ [r EXCEPT !.frames = Tail(@)] \in WifiWires
    <2>1. r.frames \in Seq({"dial", "answer", "end"})
      BY <1>4 DEF WifiWires
    <2>2. \A f \in {"dial", "answer", "end"} : Append(r.frames, f) \in Seq({"dial", "answer", "end"})
      BY <2>1
    <2>3. r.frames # <<>> => /\ Head(r.frames) \in {"dial", "answer", "end"}
                             /\ Tail(r.frames) \in Seq({"dial", "answer", "end"})
      BY <2>1
    <2>4. \A s \in Seq({"dial", "answer", "end"}) : [r EXCEPT !.frames = s] \in WifiWires
      BY <1>4 DEF WifiWires
    <2> QED
      BY <2>2, <2>3, <2>4
  <1> QED
    BY Zenon, <1>1, <1>2, <1>3, <1>4

\* A handle asks for a stream.
LEMMA WifiOpen ==
    ASSUME WifiInv, Wifi!VoiceStreamConstants,
           NEW h \in Handle, NEW c \in Incoming \cup {Wifi!None}, Wifi!OpenWiFiCall(h, c)
    PROVE  WifiInv'
  <1>1. WifiTypes'
    <2>1. WifiParts
      BY WifiTyped DEF WifiInv, WifiTypes
    <2>2. wifiCalls' \in [Handle \cup Incoming -> {"none", "ringing", "live", "ended", "gone"}]
      BY <2>1 DEF WifiParts, WifiInv, WifiSlot, WifiRequest, Wifi!OpenWiFiCall, Wifi!MayOpen, Wifi!Sends, Wifi!Quiet,
             Wifi!NoRequest
    <2>3. wifiWorker' \in {"up", "rebuilding", "stopping", "clean", "unclean"}
      BY <2>1 DEF WifiParts, WifiInv, WifiSlot, WifiRequest, Wifi!OpenWiFiCall, Wifi!MayOpen, Wifi!Sends, Wifi!Quiet,
             Wifi!NoRequest
    <2>4. request' \in WifiRequests
      BY <2>1 DEF WifiParts, WifiInv, WifiSlot, WifiRequest, WifiRequests, Wifi!OpenWiFiCall, Wifi!MayOpen,
             Wifi!Sends, Wifi!Quiet, Wifi!NoRequest
    <2>5. slot' \in Handle \cup {Wifi!None}
      BY <2>1 DEF WifiParts, WifiInv, WifiSlot, WifiRequest, WifiRequests, Wifi!OpenWiFiCall, Wifi!MayOpen,
             Wifi!Sends, Wifi!Quiet, Wifi!NoRequest
    <2>6. stream' \in WifiStreams
      BY <2>1 DEF WifiParts, WifiInv, WifiSlot, WifiRequest, WifiStreams, WifiClientele, WifiRequests,
             Wifi!OpenWiFiCall, Wifi!MayOpen, Wifi!Sends, Wifi!Quiet, Wifi!NoRequest
    <2>7. wire' \in [Handle -> WifiWires]
      BY Zenon, <2>1, WifiFields DEF WifiParts, Wifi!OpenWiFiCall, Wifi!MayOpen, Wifi!Sends, Wifi!Quiet,
         Wifi!NoRequest
    <2>8. client' \in [Handle -> WifiClientele]
      BY Zenon, <2>1, WifiFields DEF WifiParts, Wifi!OpenWiFiCall, Wifi!MayOpen, Wifi!Sends, Wifi!Quiet,
         Wifi!NoRequest
    <2>9. wifiTroubles' \in 0 .. WifiTroubles
      BY <2>1 DEF WifiParts, WifiInv, WifiSlot, WifiRequest, Wifi!VoiceStreamConstants, Wifi!OpenWiFiCall,
             Wifi!MayOpen, Wifi!Sends, Wifi!Quiet, Wifi!NoRequest
    <2> QED
      BY <2>2, <2>3, <2>4, <2>5, <2>6, <2>7, <2>8, <2>9, WifiTyped DEF WifiTypes, WifiParts
  <1>2. WifiSlot'
    BY DEF WifiInv, WifiTypes, WifiSlot, WifiRequest, WifiClients, WifiClient, WifiHeld, Opens, Wifi!TypeOK,
           Wifi!SlotHeld, Wifi!Live, Wifi!WorkerRuns, Wifi!CallOf, Wifi!VoiceStreamConstants, Wifi!OpenWiFiCall,
           Wifi!MayOpen, Wifi!Sends, Wifi!Quiet, Wifi!NoRequest
  <1>3. WifiRequest'
    BY DEF WifiInv, WifiTypes, WifiSlot, WifiRequest, WifiClients, WifiClient, WifiHeld, Opens, Wifi!TypeOK,
           Wifi!SlotHeld, Wifi!Live, Wifi!WorkerRuns, Wifi!CallOf, Wifi!VoiceStreamConstants, Wifi!OpenWiFiCall,
           Wifi!MayOpen, Wifi!Sends, Wifi!Quiet, Wifi!NoRequest
  <1>4. ASSUME NEW g \in Handle
        PROVE  WifiClient(g)'
    BY DEF WifiInv, WifiTypes, WifiSlot, WifiRequest, WifiClients, WifiClient, WifiHeld, Opens, Wifi!TypeOK,
           Wifi!SlotHeld, Wifi!Live, Wifi!WorkerRuns, Wifi!CallOf, Wifi!VoiceStreamConstants, Wifi!OpenWiFiCall,
           Wifi!MayOpen, Wifi!Sends, Wifi!Quiet, Wifi!NoRequest
  <1>5. WifiHeld'
    BY DEF WifiInv, WifiTypes, WifiSlot, WifiRequest, WifiClients, WifiClient, WifiHeld, Opens, Wifi!TypeOK,
           Wifi!SlotHeld, Wifi!Live, Wifi!WorkerRuns, Wifi!CallOf, Wifi!VoiceStreamConstants, Wifi!OpenWiFiCall,
           Wifi!MayOpen, Wifi!Sends, Wifi!Quiet, Wifi!NoRequest
  <1> QED
    BY <1>1, <1>2, <1>3, <1>4, <1>5 DEF WifiInv, WifiClients

\* The stream is connected.
LEMMA WifiConnectWell ==
    ASSUME WifiInv, Wifi!VoiceStreamConstants,
           NEW h \in Handle, client[h].at = "opening", request.by = h, request.at = "reply", request' =
           Wifi!NoRequest, request.ok, slot = h, stream.at = "accept", stream' = [stream EXCEPT !.at =
           "serve", !.fresh = TRUE], wire' = [wire EXCEPT ![h].program = TRUE, ![h].worker = TRUE], client' =
           [client EXCEPT ![h].at = "joining"], UNCHANGED <<wifiCalls, wifiWorker, slot, wifiTroubles>>
    PROVE  WifiInv'
  <1>1. WifiTypes'
    <2>1. WifiParts
      BY WifiTyped DEF WifiInv, WifiTypes
    <2>2. wifiCalls' \in [Handle \cup Incoming -> {"none", "ringing", "live", "ended", "gone"}]
      BY <2>1 DEF WifiParts, WifiInv, WifiSlot, WifiRequest, Wifi!NoRequest
    <2>3. wifiWorker' \in {"up", "rebuilding", "stopping", "clean", "unclean"}
      BY <2>1 DEF WifiParts, WifiInv, WifiSlot, WifiRequest, Wifi!NoRequest
    <2>4. request' \in WifiRequests
      BY <2>1 DEF WifiParts, WifiInv, WifiSlot, WifiRequest, WifiRequests, Wifi!NoRequest
    <2>5. slot' \in Handle \cup {Wifi!None}
      BY <2>1 DEF WifiParts, WifiInv, WifiSlot, WifiRequest, WifiRequests, Wifi!NoRequest
    <2>6. stream' \in WifiStreams
      BY Zenon, <2>1 DEF WifiParts, WifiInv, WifiSlot, WifiRequest, WifiStreams, WifiClientele, WifiRequests,
         Wifi!NoRequest
    <2>7. wire' \in [Handle -> WifiWires]
      BY Zenon, <2>1, WifiFields DEF WifiParts, Wifi!NoRequest
    <2>8. client' \in [Handle -> WifiClientele]
      BY Zenon, <2>1, WifiFields DEF WifiParts, Wifi!NoRequest
    <2>9. wifiTroubles' \in 0 .. WifiTroubles
      BY <2>1 DEF WifiParts, WifiInv, WifiSlot, WifiRequest, Wifi!VoiceStreamConstants, Wifi!NoRequest
    <2> QED
      BY <2>2, <2>3, <2>4, <2>5, <2>6, <2>7, <2>8, <2>9, WifiTyped DEF WifiTypes, WifiParts
  <1>2. WifiSlot'
    BY DEF WifiInv, WifiTypes, WifiSlot, WifiRequest, WifiClients, WifiClient, WifiHeld, Opens, Wifi!TypeOK,
           Wifi!SlotHeld, Wifi!Live, Wifi!WorkerRuns, Wifi!CallOf, Wifi!VoiceStreamConstants, Wifi!NoRequest
  <1>3. WifiRequest'
    BY DEF WifiInv, WifiTypes, WifiSlot, WifiRequest, WifiClients, WifiClient, WifiHeld, Opens, Wifi!TypeOK,
           Wifi!SlotHeld, Wifi!Live, Wifi!WorkerRuns, Wifi!CallOf, Wifi!VoiceStreamConstants, Wifi!NoRequest
  <1>4. ASSUME NEW g \in Handle
        PROVE  WifiClient(g)'
    BY DEF WifiInv, WifiTypes, WifiSlot, WifiRequest, WifiClients, WifiClient, WifiHeld, Opens, Wifi!TypeOK,
           Wifi!SlotHeld, Wifi!Live, Wifi!WorkerRuns, Wifi!CallOf, Wifi!VoiceStreamConstants, Wifi!NoRequest
  <1>5. WifiHeld'
    BY DEF WifiInv, WifiTypes, WifiSlot, WifiRequest, WifiClients, WifiClient, WifiHeld, Opens, Wifi!TypeOK,
           Wifi!SlotHeld, Wifi!Live, Wifi!WorkerRuns, Wifi!CallOf, Wifi!VoiceStreamConstants, Wifi!NoRequest
  <1> QED
    BY <1>1, <1>2, <1>3, <1>4, <1>5 DEF WifiInv, WifiClients

\* The stream cannot be connected.
LEMMA WifiConnectIll ==
    ASSUME WifiInv, Wifi!VoiceStreamConstants,
           NEW h \in Handle, client[h].at = "opening", request.by = h, request.at = "reply", request' =
           Wifi!NoRequest, client' = [client EXCEPT ![h].at = "failed"], UNCHANGED <<wifiCalls, wifiWorker,
           slot, stream, wire, wifiTroubles>>
    PROVE  WifiInv'
  <1>1. WifiTypes'
    <2>1. WifiParts
      BY WifiTyped DEF WifiInv, WifiTypes
    <2>2. wifiCalls' \in [Handle \cup Incoming -> {"none", "ringing", "live", "ended", "gone"}]
      BY <2>1 DEF WifiParts, WifiInv, WifiSlot, WifiRequest, Wifi!NoRequest
    <2>3. wifiWorker' \in {"up", "rebuilding", "stopping", "clean", "unclean"}
      BY <2>1 DEF WifiParts, WifiInv, WifiSlot, WifiRequest, Wifi!NoRequest
    <2>4. request' \in WifiRequests
      BY <2>1 DEF WifiParts, WifiInv, WifiSlot, WifiRequest, WifiRequests, Wifi!NoRequest
    <2>5. slot' \in Handle \cup {Wifi!None}
      BY <2>1 DEF WifiParts, WifiInv, WifiSlot, WifiRequest, WifiRequests, Wifi!NoRequest
    <2>6. stream' \in WifiStreams
      BY <2>1 DEF WifiParts, WifiInv, WifiSlot, WifiRequest, WifiStreams, WifiClientele, WifiRequests, Wifi!NoRequest
    <2>7. wire' \in [Handle -> WifiWires]
      BY Zenon, <2>1, WifiFields DEF WifiParts, Wifi!NoRequest
    <2>8. client' \in [Handle -> WifiClientele]
      BY Zenon, <2>1, WifiFields DEF WifiParts, Wifi!NoRequest
    <2>9. wifiTroubles' \in 0 .. WifiTroubles
      BY <2>1 DEF WifiParts, WifiInv, WifiSlot, WifiRequest, Wifi!VoiceStreamConstants, Wifi!NoRequest
    <2> QED
      BY <2>2, <2>3, <2>4, <2>5, <2>6, <2>7, <2>8, <2>9, WifiTyped DEF WifiTypes, WifiParts
  <1>2. WifiSlot'
    BY DEF WifiInv, WifiTypes, WifiSlot, WifiRequest, WifiClients, WifiClient, WifiHeld, Opens, Wifi!TypeOK,
           Wifi!SlotHeld, Wifi!Live, Wifi!WorkerRuns, Wifi!CallOf, Wifi!VoiceStreamConstants, Wifi!NoRequest
  <1>3. WifiRequest'
    BY DEF WifiInv, WifiTypes, WifiSlot, WifiRequest, WifiClients, WifiClient, WifiHeld, Opens, Wifi!TypeOK,
           Wifi!SlotHeld, Wifi!Live, Wifi!WorkerRuns, Wifi!CallOf, Wifi!VoiceStreamConstants, Wifi!NoRequest
  <1>4. ASSUME NEW g \in Handle
        PROVE  WifiClient(g)'
    BY DEF WifiInv, WifiTypes, WifiSlot, WifiRequest, WifiClients, WifiClient, WifiHeld, Opens, Wifi!TypeOK,
           Wifi!SlotHeld, Wifi!Live, Wifi!WorkerRuns, Wifi!CallOf, Wifi!VoiceStreamConstants, Wifi!NoRequest
  <1>5. WifiHeld'
    BY DEF WifiInv, WifiTypes, WifiSlot, WifiRequest, WifiClients, WifiClient, WifiHeld, Opens, Wifi!TypeOK,
           Wifi!SlotHeld, Wifi!Live, Wifi!WorkerRuns, Wifi!CallOf, Wifi!VoiceStreamConstants, Wifi!NoRequest
  <1> QED
    BY <1>1, <1>2, <1>3, <1>4, <1>5 DEF WifiInv, WifiClients

\* A hang-up is tried again.
LEMMA WifiHangupTwice ==
    ASSUME WifiInv, Wifi!VoiceStreamConstants,
           NEW h \in Handle, client[h].at \in {"up", "again"}, client' = [client EXCEPT ![h].at = "waiting",
           ![h].ended = TRUE], UNCHANGED <<wifiCalls, wifiWorker, request, slot, stream, wire, wifiTroubles>>
    PROVE  WifiInv'
  <1>1. WifiTypes'
    <2>1. WifiParts
      BY WifiTyped DEF WifiInv, WifiTypes
    <2>2. wifiCalls' \in [Handle \cup Incoming -> {"none", "ringing", "live", "ended", "gone"}]
      BY <2>1 DEF WifiParts, WifiInv, WifiSlot, WifiRequest, Wifi!NoRequest
    <2>3. wifiWorker' \in {"up", "rebuilding", "stopping", "clean", "unclean"}
      BY <2>1 DEF WifiParts, WifiInv, WifiSlot, WifiRequest, Wifi!NoRequest
    <2>4. request' \in WifiRequests
      BY <2>1 DEF WifiParts, WifiInv, WifiSlot, WifiRequest, WifiRequests, Wifi!NoRequest
    <2>5. slot' \in Handle \cup {Wifi!None}
      BY <2>1 DEF WifiParts, WifiInv, WifiSlot, WifiRequest, WifiRequests, Wifi!NoRequest
    <2>6. stream' \in WifiStreams
      BY <2>1 DEF WifiParts, WifiInv, WifiSlot, WifiRequest, WifiStreams, WifiClientele, WifiRequests, Wifi!NoRequest
    <2>7. wire' \in [Handle -> WifiWires]
      BY Zenon, <2>1, WifiFields DEF WifiParts, Wifi!NoRequest
    <2>8. client' \in [Handle -> WifiClientele]
      BY Zenon, <2>1, WifiFields DEF WifiParts, Wifi!NoRequest
    <2>9. wifiTroubles' \in 0 .. WifiTroubles
      BY <2>1 DEF WifiParts, WifiInv, WifiSlot, WifiRequest, Wifi!VoiceStreamConstants, Wifi!NoRequest
    <2> QED
      BY <2>2, <2>3, <2>4, <2>5, <2>6, <2>7, <2>8, <2>9, WifiTyped DEF WifiTypes, WifiParts
  <1>2. WifiSlot'
    BY DEF WifiInv, WifiTypes, WifiSlot, WifiRequest, WifiClients, WifiClient, WifiHeld, Opens, Wifi!TypeOK,
           Wifi!SlotHeld, Wifi!Live, Wifi!WorkerRuns, Wifi!CallOf, Wifi!VoiceStreamConstants, Wifi!NoRequest
  <1>3. WifiRequest'
    BY DEF WifiInv, WifiTypes, WifiSlot, WifiRequest, WifiClients, WifiClient, WifiHeld, Opens, Wifi!TypeOK,
           Wifi!SlotHeld, Wifi!Live, Wifi!WorkerRuns, Wifi!CallOf, Wifi!VoiceStreamConstants, Wifi!NoRequest
  <1>4. ASSUME NEW g \in Handle
        PROVE  WifiClient(g)'
    BY DEF WifiInv, WifiTypes, WifiSlot, WifiRequest, WifiClients, WifiClient, WifiHeld, Opens, Wifi!TypeOK,
           Wifi!SlotHeld, Wifi!Live, Wifi!WorkerRuns, Wifi!CallOf, Wifi!VoiceStreamConstants, Wifi!NoRequest
  <1>5. WifiHeld'
    BY DEF WifiInv, WifiTypes, WifiSlot, WifiRequest, WifiClients, WifiClient, WifiHeld, Opens, Wifi!TypeOK,
           Wifi!SlotHeld, Wifi!Live, Wifi!WorkerRuns, Wifi!CallOf, Wifi!VoiceStreamConstants, Wifi!NoRequest
  <1> QED
    BY <1>1, <1>2, <1>3, <1>4, <1>5 DEF WifiInv, WifiClients

\* The end is written.
LEMMA WifiHangupWrites ==
    ASSUME WifiInv, Wifi!VoiceStreamConstants,
           NEW h \in Handle, client[h].at \in {"up", "again"}, client' = [client EXCEPT ![h].at = "waiting",
           ![h].ended = TRUE], wire' = [wire EXCEPT ![h].frames = Append(@, "end")], UNCHANGED <<wifiCalls,
           wifiWorker, request, slot, stream, wifiTroubles>>
    PROVE  WifiInv'
  <1>1. WifiTypes'
    <2>1. WifiParts
      BY WifiTyped DEF WifiInv, WifiTypes
    <2>2. wifiCalls' \in [Handle \cup Incoming -> {"none", "ringing", "live", "ended", "gone"}]
      BY <2>1 DEF WifiParts, WifiInv, WifiSlot, WifiRequest, Wifi!NoRequest
    <2>3. wifiWorker' \in {"up", "rebuilding", "stopping", "clean", "unclean"}
      BY <2>1 DEF WifiParts, WifiInv, WifiSlot, WifiRequest, Wifi!NoRequest
    <2>4. request' \in WifiRequests
      BY <2>1 DEF WifiParts, WifiInv, WifiSlot, WifiRequest, WifiRequests, Wifi!NoRequest
    <2>5. slot' \in Handle \cup {Wifi!None}
      BY <2>1 DEF WifiParts, WifiInv, WifiSlot, WifiRequest, WifiRequests, Wifi!NoRequest
    <2>6. stream' \in WifiStreams
      BY <2>1 DEF WifiParts, WifiInv, WifiSlot, WifiRequest, WifiStreams, WifiClientele, WifiRequests, Wifi!NoRequest
    <2>7. wire' \in [Handle -> WifiWires]
      BY Zenon, <2>1, WifiFields DEF WifiParts, Wifi!NoRequest
    <2>8. client' \in [Handle -> WifiClientele]
      BY Zenon, <2>1, WifiFields DEF WifiParts, Wifi!NoRequest
    <2>9. wifiTroubles' \in 0 .. WifiTroubles
      BY <2>1 DEF WifiParts, WifiInv, WifiSlot, WifiRequest, Wifi!VoiceStreamConstants, Wifi!NoRequest
    <2> QED
      BY <2>2, <2>3, <2>4, <2>5, <2>6, <2>7, <2>8, <2>9, WifiTyped DEF WifiTypes, WifiParts
  <1>2. WifiSlot'
    BY DEF WifiInv, WifiTypes, WifiSlot, WifiRequest, WifiClients, WifiClient, WifiHeld, Opens, Wifi!TypeOK,
           Wifi!SlotHeld, Wifi!Live, Wifi!WorkerRuns, Wifi!CallOf, Wifi!VoiceStreamConstants, Wifi!NoRequest
  <1>3. WifiRequest'
    BY DEF WifiInv, WifiTypes, WifiSlot, WifiRequest, WifiClients, WifiClient, WifiHeld, Opens, Wifi!TypeOK,
           Wifi!SlotHeld, Wifi!Live, Wifi!WorkerRuns, Wifi!CallOf, Wifi!VoiceStreamConstants, Wifi!NoRequest
  <1>4. ASSUME NEW g \in Handle
        PROVE  WifiClient(g)'
    BY DEF WifiInv, WifiTypes, WifiSlot, WifiRequest, WifiClients, WifiClient, WifiHeld, Opens, Wifi!TypeOK,
           Wifi!SlotHeld, Wifi!Live, Wifi!WorkerRuns, Wifi!CallOf, Wifi!VoiceStreamConstants, Wifi!NoRequest
  <1>5. WifiHeld'
    BY DEF WifiInv, WifiTypes, WifiSlot, WifiRequest, WifiClients, WifiClient, WifiHeld, Opens, Wifi!TypeOK,
           Wifi!SlotHeld, Wifi!Live, Wifi!WorkerRuns, Wifi!CallOf, Wifi!VoiceStreamConstants, Wifi!NoRequest
  <1> QED
    BY <1>1, <1>2, <1>3, <1>4, <1>5 DEF WifiInv, WifiClients

\* The end cannot be written.
LEMMA WifiHangupCuts ==
    ASSUME WifiInv, Wifi!VoiceStreamConstants,
           NEW h \in Handle, client[h].at \in {"up", "again"}, client' = [client EXCEPT ![h].at = "waiting",
           ![h].ended = TRUE], wire' = [wire EXCEPT ![h].program = FALSE], UNCHANGED <<wifiCalls, wifiWorker,
           request, slot, stream, wifiTroubles>>
    PROVE  WifiInv'
  <1>1. WifiTypes'
    <2>1. WifiParts
      BY WifiTyped DEF WifiInv, WifiTypes
    <2>2. wifiCalls' \in [Handle \cup Incoming -> {"none", "ringing", "live", "ended", "gone"}]
      BY <2>1 DEF WifiParts, WifiInv, WifiSlot, WifiRequest, Wifi!NoRequest
    <2>3. wifiWorker' \in {"up", "rebuilding", "stopping", "clean", "unclean"}
      BY <2>1 DEF WifiParts, WifiInv, WifiSlot, WifiRequest, Wifi!NoRequest
    <2>4. request' \in WifiRequests
      BY <2>1 DEF WifiParts, WifiInv, WifiSlot, WifiRequest, WifiRequests, Wifi!NoRequest
    <2>5. slot' \in Handle \cup {Wifi!None}
      BY <2>1 DEF WifiParts, WifiInv, WifiSlot, WifiRequest, WifiRequests, Wifi!NoRequest
    <2>6. stream' \in WifiStreams
      BY <2>1 DEF WifiParts, WifiInv, WifiSlot, WifiRequest, WifiStreams, WifiClientele, WifiRequests, Wifi!NoRequest
    <2>7. wire' \in [Handle -> WifiWires]
      BY Zenon, <2>1, WifiFields DEF WifiParts, Wifi!NoRequest
    <2>8. client' \in [Handle -> WifiClientele]
      BY Zenon, <2>1, WifiFields DEF WifiParts, Wifi!NoRequest
    <2>9. wifiTroubles' \in 0 .. WifiTroubles
      BY <2>1 DEF WifiParts, WifiInv, WifiSlot, WifiRequest, Wifi!VoiceStreamConstants, Wifi!NoRequest
    <2> QED
      BY <2>2, <2>3, <2>4, <2>5, <2>6, <2>7, <2>8, <2>9, WifiTyped DEF WifiTypes, WifiParts
  <1>2. WifiSlot'
    BY DEF WifiInv, WifiTypes, WifiSlot, WifiRequest, WifiClients, WifiClient, WifiHeld, Opens, Wifi!TypeOK,
           Wifi!SlotHeld, Wifi!Live, Wifi!WorkerRuns, Wifi!CallOf, Wifi!VoiceStreamConstants, Wifi!NoRequest
  <1>3. WifiRequest'
    BY DEF WifiInv, WifiTypes, WifiSlot, WifiRequest, WifiClients, WifiClient, WifiHeld, Opens, Wifi!TypeOK,
           Wifi!SlotHeld, Wifi!Live, Wifi!WorkerRuns, Wifi!CallOf, Wifi!VoiceStreamConstants, Wifi!NoRequest
  <1>4. ASSUME NEW g \in Handle
        PROVE  WifiClient(g)'
    BY DEF WifiInv, WifiTypes, WifiSlot, WifiRequest, WifiClients, WifiClient, WifiHeld, Opens, Wifi!TypeOK,
           Wifi!SlotHeld, Wifi!Live, Wifi!WorkerRuns, Wifi!CallOf, Wifi!VoiceStreamConstants, Wifi!NoRequest
  <1>5. WifiHeld'
    BY DEF WifiInv, WifiTypes, WifiSlot, WifiRequest, WifiClients, WifiClient, WifiHeld, Opens, Wifi!TypeOK,
           Wifi!SlotHeld, Wifi!Live, Wifi!WorkerRuns, Wifi!CallOf, Wifi!VoiceStreamConstants, Wifi!NoRequest
  <1> QED
    BY <1>1, <1>2, <1>3, <1>4, <1>5 DEF WifiInv, WifiClients

\* A status is received.
LEMMA WifiReceiveNews ==
    ASSUME WifiInv, Wifi!VoiceStreamConstants,
           NEW h \in Handle, wire[h].program, client' = [client EXCEPT ![h].seen = wire[h].sent], UNCHANGED
           <<wifiCalls, wifiWorker, request, slot, stream, wire, wifiTroubles>>
    PROVE  WifiInv'
  <1>1. WifiTypes'
    <2>1. WifiParts
      BY WifiTyped DEF WifiInv, WifiTypes
    <2>2. wifiCalls' \in [Handle \cup Incoming -> {"none", "ringing", "live", "ended", "gone"}]
      BY <2>1 DEF WifiParts, WifiInv, WifiSlot, WifiRequest, Wifi!NoRequest
    <2>3. wifiWorker' \in {"up", "rebuilding", "stopping", "clean", "unclean"}
      BY <2>1 DEF WifiParts, WifiInv, WifiSlot, WifiRequest, Wifi!NoRequest
    <2>4. request' \in WifiRequests
      BY <2>1 DEF WifiParts, WifiInv, WifiSlot, WifiRequest, WifiRequests, Wifi!NoRequest
    <2>5. slot' \in Handle \cup {Wifi!None}
      BY <2>1 DEF WifiParts, WifiInv, WifiSlot, WifiRequest, WifiRequests, Wifi!NoRequest
    <2>6. stream' \in WifiStreams
      BY <2>1 DEF WifiParts, WifiInv, WifiSlot, WifiRequest, WifiStreams, WifiClientele, WifiRequests, Wifi!NoRequest
    <2>7. wire' \in [Handle -> WifiWires]
      BY Zenon, <2>1, WifiFields DEF WifiParts, Wifi!NoRequest
    <2>8. client' \in [Handle -> WifiClientele]
      BY Zenon, <2>1, WifiFields DEF WifiParts, Wifi!NoRequest
    <2>9. wifiTroubles' \in 0 .. WifiTroubles
      BY <2>1 DEF WifiParts, WifiInv, WifiSlot, WifiRequest, Wifi!VoiceStreamConstants, Wifi!NoRequest
    <2> QED
      BY <2>2, <2>3, <2>4, <2>5, <2>6, <2>7, <2>8, <2>9, WifiTyped DEF WifiTypes, WifiParts
  <1>2. WifiSlot'
    BY DEF WifiInv, WifiTypes, WifiSlot, WifiRequest, WifiClients, WifiClient, WifiHeld, Opens, Wifi!TypeOK,
           Wifi!SlotHeld, Wifi!Live, Wifi!WorkerRuns, Wifi!CallOf, Wifi!VoiceStreamConstants, Wifi!NoRequest
  <1>3. WifiRequest'
    BY DEF WifiInv, WifiTypes, WifiSlot, WifiRequest, WifiClients, WifiClient, WifiHeld, Opens, Wifi!TypeOK,
           Wifi!SlotHeld, Wifi!Live, Wifi!WorkerRuns, Wifi!CallOf, Wifi!VoiceStreamConstants, Wifi!NoRequest
  <1>4. ASSUME NEW g \in Handle
        PROVE  WifiClient(g)'
    BY DEF WifiInv, WifiTypes, WifiSlot, WifiRequest, WifiClients, WifiClient, WifiHeld, Opens, Wifi!TypeOK,
           Wifi!SlotHeld, Wifi!Live, Wifi!WorkerRuns, Wifi!CallOf, Wifi!VoiceStreamConstants, Wifi!NoRequest
  <1>5. WifiHeld'
    BY DEF WifiInv, WifiTypes, WifiSlot, WifiRequest, WifiClients, WifiClient, WifiHeld, Opens, Wifi!TypeOK,
           Wifi!SlotHeld, Wifi!Live, Wifi!WorkerRuns, Wifi!CallOf, Wifi!VoiceStreamConstants, Wifi!NoRequest
  <1> QED
    BY <1>1, <1>2, <1>3, <1>4, <1>5 DEF WifiInv, WifiClients

\* The end of the connection is received.
LEMMA WifiReceiveEnd ==
    ASSUME WifiInv, Wifi!VoiceStreamConstants,
           NEW h \in Handle, wire[h].program, wire' = [wire EXCEPT ![h].program = FALSE], UNCHANGED
           <<wifiCalls, wifiWorker, request, slot, stream, client, wifiTroubles>>
    PROVE  WifiInv'
  <1>1. WifiTypes'
    <2>1. WifiParts
      BY WifiTyped DEF WifiInv, WifiTypes
    <2>2. wifiCalls' \in [Handle \cup Incoming -> {"none", "ringing", "live", "ended", "gone"}]
      BY <2>1 DEF WifiParts, WifiInv, WifiSlot, WifiRequest, Wifi!NoRequest
    <2>3. wifiWorker' \in {"up", "rebuilding", "stopping", "clean", "unclean"}
      BY <2>1 DEF WifiParts, WifiInv, WifiSlot, WifiRequest, Wifi!NoRequest
    <2>4. request' \in WifiRequests
      BY <2>1 DEF WifiParts, WifiInv, WifiSlot, WifiRequest, WifiRequests, Wifi!NoRequest
    <2>5. slot' \in Handle \cup {Wifi!None}
      BY <2>1 DEF WifiParts, WifiInv, WifiSlot, WifiRequest, WifiRequests, Wifi!NoRequest
    <2>6. stream' \in WifiStreams
      BY <2>1 DEF WifiParts, WifiInv, WifiSlot, WifiRequest, WifiStreams, WifiClientele, WifiRequests, Wifi!NoRequest
    <2>7. wire' \in [Handle -> WifiWires]
      BY Zenon, <2>1, WifiFields DEF WifiParts, Wifi!NoRequest
    <2>8. client' \in [Handle -> WifiClientele]
      BY Zenon, <2>1, WifiFields DEF WifiParts, Wifi!NoRequest
    <2>9. wifiTroubles' \in 0 .. WifiTroubles
      BY <2>1 DEF WifiParts, WifiInv, WifiSlot, WifiRequest, Wifi!VoiceStreamConstants, Wifi!NoRequest
    <2> QED
      BY <2>2, <2>3, <2>4, <2>5, <2>6, <2>7, <2>8, <2>9, WifiTyped DEF WifiTypes, WifiParts
  <1>2. WifiSlot'
    BY DEF WifiInv, WifiTypes, WifiSlot, WifiRequest, WifiClients, WifiClient, WifiHeld, Opens, Wifi!TypeOK,
           Wifi!SlotHeld, Wifi!Live, Wifi!WorkerRuns, Wifi!CallOf, Wifi!VoiceStreamConstants, Wifi!NoRequest
  <1>3. WifiRequest'
    BY DEF WifiInv, WifiTypes, WifiSlot, WifiRequest, WifiClients, WifiClient, WifiHeld, Opens, Wifi!TypeOK,
           Wifi!SlotHeld, Wifi!Live, Wifi!WorkerRuns, Wifi!CallOf, Wifi!VoiceStreamConstants, Wifi!NoRequest
  <1>4. ASSUME NEW g \in Handle
        PROVE  WifiClient(g)'
    BY DEF WifiInv, WifiTypes, WifiSlot, WifiRequest, WifiClients, WifiClient, WifiHeld, Opens, Wifi!TypeOK,
           Wifi!SlotHeld, Wifi!Live, Wifi!WorkerRuns, Wifi!CallOf, Wifi!VoiceStreamConstants, Wifi!NoRequest
  <1>5. WifiHeld'
    BY DEF WifiInv, WifiTypes, WifiSlot, WifiRequest, WifiClients, WifiClient, WifiHeld, Opens, Wifi!TypeOK,
           Wifi!SlotHeld, Wifi!Live, Wifi!WorkerRuns, Wifi!CallOf, Wifi!VoiceStreamConstants, Wifi!NoRequest
  <1> QED
    BY <1>1, <1>2, <1>3, <1>4, <1>5 DEF WifiInv, WifiClients

\* The open is given up.
LEMMA WifiGiveUp ==
    ASSUME WifiInv, Wifi!VoiceStreamConstants,
           NEW h \in Handle, Wifi!GiveUpOpening(h)
    PROVE  WifiInv'
  <1>1. WifiTypes'
    <2>1. WifiParts
      BY WifiTyped DEF WifiInv, WifiTypes
    <2>2. wifiCalls' \in [Handle \cup Incoming -> {"none", "ringing", "live", "ended", "gone"}]
      BY <2>1 DEF WifiParts, WifiInv, WifiSlot, WifiRequest, Wifi!GiveUpOpening, Wifi!At, Wifi!Trouble
    <2>3. wifiWorker' \in {"up", "rebuilding", "stopping", "clean", "unclean"}
      BY <2>1 DEF WifiParts, WifiInv, WifiSlot, WifiRequest, Wifi!GiveUpOpening, Wifi!At, Wifi!Trouble
    <2>4. request' \in WifiRequests
      BY <2>1 DEF WifiParts, WifiInv, WifiSlot, WifiRequest, WifiRequests, Wifi!GiveUpOpening, Wifi!At, Wifi!Trouble
    <2>5. slot' \in Handle \cup {Wifi!None}
      BY <2>1 DEF WifiParts, WifiInv, WifiSlot, WifiRequest, WifiRequests, Wifi!GiveUpOpening, Wifi!At, Wifi!Trouble
    <2>6. stream' \in WifiStreams
      BY <2>1 DEF WifiParts, WifiInv, WifiSlot, WifiRequest, WifiStreams, WifiClientele, WifiRequests,
             Wifi!GiveUpOpening, Wifi!At, Wifi!Trouble
    <2>7. wire' \in [Handle -> WifiWires]
      BY Zenon, <2>1, WifiFields DEF WifiParts, Wifi!GiveUpOpening, Wifi!At, Wifi!Trouble
    <2>8. client' \in [Handle -> WifiClientele]
      BY Zenon, <2>1, WifiFields DEF WifiParts, Wifi!GiveUpOpening, Wifi!At, Wifi!Trouble
    <2>9. wifiTroubles' \in 0 .. WifiTroubles
      BY <2>1 DEF WifiParts, WifiInv, WifiSlot, WifiRequest, Wifi!VoiceStreamConstants, Wifi!GiveUpOpening, Wifi!At,
             Wifi!Trouble
    <2> QED
      BY <2>2, <2>3, <2>4, <2>5, <2>6, <2>7, <2>8, <2>9, WifiTyped DEF WifiTypes, WifiParts
  <1>2. WifiSlot'
    BY DEF WifiInv, WifiTypes, WifiSlot, WifiRequest, WifiClients, WifiClient, WifiHeld, Opens, Wifi!TypeOK,
           Wifi!SlotHeld, Wifi!Live, Wifi!WorkerRuns, Wifi!CallOf, Wifi!VoiceStreamConstants, Wifi!GiveUpOpening,
           Wifi!At, Wifi!Trouble
  <1>3. WifiRequest'
    BY DEF WifiInv, WifiTypes, WifiSlot, WifiRequest, WifiClients, WifiClient, WifiHeld, Opens, Wifi!TypeOK,
           Wifi!SlotHeld, Wifi!Live, Wifi!WorkerRuns, Wifi!CallOf, Wifi!VoiceStreamConstants, Wifi!GiveUpOpening,
           Wifi!At, Wifi!Trouble
  <1>4. ASSUME NEW g \in Handle
        PROVE  WifiClient(g)'
    BY DEF WifiInv, WifiTypes, WifiSlot, WifiRequest, WifiClients, WifiClient, WifiHeld, Opens, Wifi!TypeOK,
           Wifi!SlotHeld, Wifi!Live, Wifi!WorkerRuns, Wifi!CallOf, Wifi!VoiceStreamConstants, Wifi!GiveUpOpening,
           Wifi!At, Wifi!Trouble
  <1>5. WifiHeld'
    BY DEF WifiInv, WifiTypes, WifiSlot, WifiRequest, WifiClients, WifiClient, WifiHeld, Opens, Wifi!TypeOK,
           Wifi!SlotHeld, Wifi!Live, Wifi!WorkerRuns, Wifi!CallOf, Wifi!VoiceStreamConstants, Wifi!GiveUpOpening,
           Wifi!At, Wifi!Trouble
  <1> QED
    BY <1>1, <1>2, <1>3, <1>4, <1>5 DEF WifiInv, WifiClients

\* The first status has come.
LEMMA WifiJoined ==
    ASSUME WifiInv, Wifi!VoiceStreamConstants,
           NEW h \in Handle, Wifi!Joined(h)
    PROVE  WifiInv'
  <1>1. WifiTypes'
    <2>1. WifiParts
      BY WifiTyped DEF WifiInv, WifiTypes
    <2>2. wifiCalls' \in [Handle \cup Incoming -> {"none", "ringing", "live", "ended", "gone"}]
      BY <2>1 DEF WifiParts, WifiInv, WifiSlot, WifiRequest, Wifi!Joined, Wifi!At, Wifi!Quiet
    <2>3. wifiWorker' \in {"up", "rebuilding", "stopping", "clean", "unclean"}
      BY <2>1 DEF WifiParts, WifiInv, WifiSlot, WifiRequest, Wifi!Joined, Wifi!At, Wifi!Quiet
    <2>4. request' \in WifiRequests
      BY <2>1 DEF WifiParts, WifiInv, WifiSlot, WifiRequest, WifiRequests, Wifi!Joined, Wifi!At, Wifi!Quiet
    <2>5. slot' \in Handle \cup {Wifi!None}
      BY <2>1 DEF WifiParts, WifiInv, WifiSlot, WifiRequest, WifiRequests, Wifi!Joined, Wifi!At, Wifi!Quiet
    <2>6. stream' \in WifiStreams
      BY <2>1 DEF WifiParts, WifiInv, WifiSlot, WifiRequest, WifiStreams, WifiClientele, WifiRequests, Wifi!Joined,
             Wifi!At, Wifi!Quiet
    <2>7. wire' \in [Handle -> WifiWires]
      BY Zenon, <2>1, WifiFields DEF WifiParts, Wifi!Joined, Wifi!At, Wifi!Quiet
    <2>8. client' \in [Handle -> WifiClientele]
      BY Zenon, <2>1, WifiFields DEF WifiParts, Wifi!Joined, Wifi!At, Wifi!Quiet
    <2>9. wifiTroubles' \in 0 .. WifiTroubles
      BY <2>1 DEF WifiParts, WifiInv, WifiSlot, WifiRequest, Wifi!VoiceStreamConstants, Wifi!Joined, Wifi!At,
             Wifi!Quiet
    <2> QED
      BY <2>2, <2>3, <2>4, <2>5, <2>6, <2>7, <2>8, <2>9, WifiTyped DEF WifiTypes, WifiParts
  <1>2. WifiSlot'
    BY DEF WifiInv, WifiTypes, WifiSlot, WifiRequest, WifiClients, WifiClient, WifiHeld, Opens, Wifi!TypeOK,
           Wifi!SlotHeld, Wifi!Live, Wifi!WorkerRuns, Wifi!CallOf, Wifi!VoiceStreamConstants, Wifi!Joined, Wifi!At,
           Wifi!Quiet
  <1>3. WifiRequest'
    BY DEF WifiInv, WifiTypes, WifiSlot, WifiRequest, WifiClients, WifiClient, WifiHeld, Opens, Wifi!TypeOK,
           Wifi!SlotHeld, Wifi!Live, Wifi!WorkerRuns, Wifi!CallOf, Wifi!VoiceStreamConstants, Wifi!Joined, Wifi!At,
           Wifi!Quiet
  <1>4. ASSUME NEW g \in Handle
        PROVE  WifiClient(g)'
    BY DEF WifiInv, WifiTypes, WifiSlot, WifiRequest, WifiClients, WifiClient, WifiHeld, Opens, Wifi!TypeOK,
           Wifi!SlotHeld, Wifi!Live, Wifi!WorkerRuns, Wifi!CallOf, Wifi!VoiceStreamConstants, Wifi!Joined, Wifi!At,
           Wifi!Quiet
  <1>5. WifiHeld'
    BY DEF WifiInv, WifiTypes, WifiSlot, WifiRequest, WifiClients, WifiClient, WifiHeld, Opens, Wifi!TypeOK,
           Wifi!SlotHeld, Wifi!Live, Wifi!WorkerRuns, Wifi!CallOf, Wifi!VoiceStreamConstants, Wifi!Joined, Wifi!At,
           Wifi!Quiet
  <1> QED
    BY <1>1, <1>2, <1>3, <1>4, <1>5 DEF WifiInv, WifiClients

\* The handle dials.
LEMMA WifiDial ==
    ASSUME WifiInv, Wifi!VoiceStreamConstants,
           NEW h \in Handle, Wifi!Dial(h)
    PROVE  WifiInv'
  <1>1. WifiTypes'
    <2>1. WifiParts
      BY WifiTyped DEF WifiInv, WifiTypes
    <2>2. wifiCalls' \in [Handle \cup Incoming -> {"none", "ringing", "live", "ended", "gone"}]
      BY <2>1 DEF WifiParts, WifiInv, WifiSlot, WifiRequest, Wifi!Dial, Wifi!Writes, Wifi!Quiet
    <2>3. wifiWorker' \in {"up", "rebuilding", "stopping", "clean", "unclean"}
      BY <2>1 DEF WifiParts, WifiInv, WifiSlot, WifiRequest, Wifi!Dial, Wifi!Writes, Wifi!Quiet
    <2>4. request' \in WifiRequests
      BY <2>1 DEF WifiParts, WifiInv, WifiSlot, WifiRequest, WifiRequests, Wifi!Dial, Wifi!Writes, Wifi!Quiet
    <2>5. slot' \in Handle \cup {Wifi!None}
      BY <2>1 DEF WifiParts, WifiInv, WifiSlot, WifiRequest, WifiRequests, Wifi!Dial, Wifi!Writes, Wifi!Quiet
    <2>6. stream' \in WifiStreams
      BY <2>1 DEF WifiParts, WifiInv, WifiSlot, WifiRequest, WifiStreams, WifiClientele, WifiRequests, Wifi!Dial,
             Wifi!Writes, Wifi!Quiet
    <2>7. wire' \in [Handle -> WifiWires]
      BY Zenon, <2>1, WifiFields DEF WifiParts, Wifi!Dial, Wifi!Writes, Wifi!Quiet
    <2>8. client' \in [Handle -> WifiClientele]
      BY Zenon, <2>1, WifiFields DEF WifiParts, Wifi!Dial, Wifi!Writes, Wifi!Quiet
    <2>9. wifiTroubles' \in 0 .. WifiTroubles
      BY <2>1 DEF WifiParts, WifiInv, WifiSlot, WifiRequest, Wifi!VoiceStreamConstants, Wifi!Dial, Wifi!Writes,
             Wifi!Quiet
    <2> QED
      BY <2>2, <2>3, <2>4, <2>5, <2>6, <2>7, <2>8, <2>9, WifiTyped DEF WifiTypes, WifiParts
  <1>2. WifiSlot'
    BY DEF WifiInv, WifiTypes, WifiSlot, WifiRequest, WifiClients, WifiClient, WifiHeld, Opens, Wifi!TypeOK,
           Wifi!SlotHeld, Wifi!Live, Wifi!WorkerRuns, Wifi!CallOf, Wifi!VoiceStreamConstants, Wifi!Dial, Wifi!Writes,
           Wifi!Quiet
  <1>3. WifiRequest'
    BY DEF WifiInv, WifiTypes, WifiSlot, WifiRequest, WifiClients, WifiClient, WifiHeld, Opens, Wifi!TypeOK,
           Wifi!SlotHeld, Wifi!Live, Wifi!WorkerRuns, Wifi!CallOf, Wifi!VoiceStreamConstants, Wifi!Dial, Wifi!Writes,
           Wifi!Quiet
  <1>4. ASSUME NEW g \in Handle
        PROVE  WifiClient(g)'
    BY DEF WifiInv, WifiTypes, WifiSlot, WifiRequest, WifiClients, WifiClient, WifiHeld, Opens, Wifi!TypeOK,
           Wifi!SlotHeld, Wifi!Live, Wifi!WorkerRuns, Wifi!CallOf, Wifi!VoiceStreamConstants, Wifi!Dial, Wifi!Writes,
           Wifi!Quiet
  <1>5. WifiHeld'
    BY DEF WifiInv, WifiTypes, WifiSlot, WifiRequest, WifiClients, WifiClient, WifiHeld, Opens, Wifi!TypeOK,
           Wifi!SlotHeld, Wifi!Live, Wifi!WorkerRuns, Wifi!CallOf, Wifi!VoiceStreamConstants, Wifi!Dial, Wifi!Writes,
           Wifi!Quiet
  <1> QED
    BY <1>1, <1>2, <1>3, <1>4, <1>5 DEF WifiInv, WifiClients

\* The handle answers.
LEMMA WifiAnswer ==
    ASSUME WifiInv, Wifi!VoiceStreamConstants,
           NEW h \in Handle, Wifi!Answer(h)
    PROVE  WifiInv'
  <1>1. WifiTypes'
    <2>1. WifiParts
      BY WifiTyped DEF WifiInv, WifiTypes
    <2>2. wifiCalls' \in [Handle \cup Incoming -> {"none", "ringing", "live", "ended", "gone"}]
      BY <2>1 DEF WifiParts, WifiInv, WifiSlot, WifiRequest, Wifi!Answer, Wifi!Writes, Wifi!Quiet
    <2>3. wifiWorker' \in {"up", "rebuilding", "stopping", "clean", "unclean"}
      BY <2>1 DEF WifiParts, WifiInv, WifiSlot, WifiRequest, Wifi!Answer, Wifi!Writes, Wifi!Quiet
    <2>4. request' \in WifiRequests
      BY <2>1 DEF WifiParts, WifiInv, WifiSlot, WifiRequest, WifiRequests, Wifi!Answer, Wifi!Writes, Wifi!Quiet
    <2>5. slot' \in Handle \cup {Wifi!None}
      BY <2>1 DEF WifiParts, WifiInv, WifiSlot, WifiRequest, WifiRequests, Wifi!Answer, Wifi!Writes, Wifi!Quiet
    <2>6. stream' \in WifiStreams
      BY <2>1 DEF WifiParts, WifiInv, WifiSlot, WifiRequest, WifiStreams, WifiClientele, WifiRequests, Wifi!Answer,
             Wifi!Writes, Wifi!Quiet
    <2>7. wire' \in [Handle -> WifiWires]
      BY Zenon, <2>1, WifiFields DEF WifiParts, Wifi!Answer, Wifi!Writes, Wifi!Quiet
    <2>8. client' \in [Handle -> WifiClientele]
      BY Zenon, <2>1, WifiFields DEF WifiParts, Wifi!Answer, Wifi!Writes, Wifi!Quiet
    <2>9. wifiTroubles' \in 0 .. WifiTroubles
      BY <2>1 DEF WifiParts, WifiInv, WifiSlot, WifiRequest, Wifi!VoiceStreamConstants, Wifi!Answer, Wifi!Writes,
             Wifi!Quiet
    <2> QED
      BY <2>2, <2>3, <2>4, <2>5, <2>6, <2>7, <2>8, <2>9, WifiTyped DEF WifiTypes, WifiParts
  <1>2. WifiSlot'
    BY DEF WifiInv, WifiTypes, WifiSlot, WifiRequest, WifiClients, WifiClient, WifiHeld, Opens, Wifi!TypeOK,
           Wifi!SlotHeld, Wifi!Live, Wifi!WorkerRuns, Wifi!CallOf, Wifi!VoiceStreamConstants, Wifi!Answer,
           Wifi!Writes, Wifi!Quiet
  <1>3. WifiRequest'
    BY DEF WifiInv, WifiTypes, WifiSlot, WifiRequest, WifiClients, WifiClient, WifiHeld, Opens, Wifi!TypeOK,
           Wifi!SlotHeld, Wifi!Live, Wifi!WorkerRuns, Wifi!CallOf, Wifi!VoiceStreamConstants, Wifi!Answer,
           Wifi!Writes, Wifi!Quiet
  <1>4. ASSUME NEW g \in Handle
        PROVE  WifiClient(g)'
    BY DEF WifiInv, WifiTypes, WifiSlot, WifiRequest, WifiClients, WifiClient, WifiHeld, Opens, Wifi!TypeOK,
           Wifi!SlotHeld, Wifi!Live, Wifi!WorkerRuns, Wifi!CallOf, Wifi!VoiceStreamConstants, Wifi!Answer,
           Wifi!Writes, Wifi!Quiet
  <1>5. WifiHeld'
    BY DEF WifiInv, WifiTypes, WifiSlot, WifiRequest, WifiClients, WifiClient, WifiHeld, Opens, Wifi!TypeOK,
           Wifi!SlotHeld, Wifi!Live, Wifi!WorkerRuns, Wifi!CallOf, Wifi!VoiceStreamConstants, Wifi!Answer,
           Wifi!Writes, Wifi!Quiet
  <1> QED
    BY <1>1, <1>2, <1>3, <1>4, <1>5 DEF WifiInv, WifiClients

\* The end has been seen.
LEMMA WifiHangupSeen ==
    ASSUME WifiInv, Wifi!VoiceStreamConstants,
           NEW h \in Handle, Wifi!HangupSeen(h)
    PROVE  WifiInv'
  <1>1. WifiTypes'
    <2>1. WifiParts
      BY WifiTyped DEF WifiInv, WifiTypes
    <2>2. wifiCalls' \in [Handle \cup Incoming -> {"none", "ringing", "live", "ended", "gone"}]
      BY <2>1 DEF WifiParts, WifiInv, WifiSlot, WifiRequest, Wifi!HangupSeen, Wifi!At, Wifi!Quiet
    <2>3. wifiWorker' \in {"up", "rebuilding", "stopping", "clean", "unclean"}
      BY <2>1 DEF WifiParts, WifiInv, WifiSlot, WifiRequest, Wifi!HangupSeen, Wifi!At, Wifi!Quiet
    <2>4. request' \in WifiRequests
      BY <2>1 DEF WifiParts, WifiInv, WifiSlot, WifiRequest, WifiRequests, Wifi!HangupSeen, Wifi!At, Wifi!Quiet
    <2>5. slot' \in Handle \cup {Wifi!None}
      BY <2>1 DEF WifiParts, WifiInv, WifiSlot, WifiRequest, WifiRequests, Wifi!HangupSeen, Wifi!At, Wifi!Quiet
    <2>6. stream' \in WifiStreams
      BY <2>1 DEF WifiParts, WifiInv, WifiSlot, WifiRequest, WifiStreams, WifiClientele, WifiRequests,
             Wifi!HangupSeen, Wifi!At, Wifi!Quiet
    <2>7. wire' \in [Handle -> WifiWires]
      BY Zenon, <2>1, WifiFields DEF WifiParts, Wifi!HangupSeen, Wifi!At, Wifi!Quiet
    <2>8. client' \in [Handle -> WifiClientele]
      BY Zenon, <2>1, WifiFields DEF WifiParts, Wifi!HangupSeen, Wifi!At, Wifi!Quiet
    <2>9. wifiTroubles' \in 0 .. WifiTroubles
      BY <2>1 DEF WifiParts, WifiInv, WifiSlot, WifiRequest, Wifi!VoiceStreamConstants, Wifi!HangupSeen, Wifi!At,
             Wifi!Quiet
    <2> QED
      BY <2>2, <2>3, <2>4, <2>5, <2>6, <2>7, <2>8, <2>9, WifiTyped DEF WifiTypes, WifiParts
  <1>2. WifiSlot'
    BY DEF WifiInv, WifiTypes, WifiSlot, WifiRequest, WifiClients, WifiClient, WifiHeld, Opens, Wifi!TypeOK,
           Wifi!SlotHeld, Wifi!Live, Wifi!WorkerRuns, Wifi!CallOf, Wifi!VoiceStreamConstants, Wifi!HangupSeen,
           Wifi!At, Wifi!Quiet
  <1>3. WifiRequest'
    BY DEF WifiInv, WifiTypes, WifiSlot, WifiRequest, WifiClients, WifiClient, WifiHeld, Opens, Wifi!TypeOK,
           Wifi!SlotHeld, Wifi!Live, Wifi!WorkerRuns, Wifi!CallOf, Wifi!VoiceStreamConstants, Wifi!HangupSeen,
           Wifi!At, Wifi!Quiet
  <1>4. ASSUME NEW g \in Handle
        PROVE  WifiClient(g)'
    BY DEF WifiInv, WifiTypes, WifiSlot, WifiRequest, WifiClients, WifiClient, WifiHeld, Opens, Wifi!TypeOK,
           Wifi!SlotHeld, Wifi!Live, Wifi!WorkerRuns, Wifi!CallOf, Wifi!VoiceStreamConstants, Wifi!HangupSeen,
           Wifi!At, Wifi!Quiet
  <1>5. WifiHeld'
    BY DEF WifiInv, WifiTypes, WifiSlot, WifiRequest, WifiClients, WifiClient, WifiHeld, Opens, Wifi!TypeOK,
           Wifi!SlotHeld, Wifi!Live, Wifi!WorkerRuns, Wifi!CallOf, Wifi!VoiceStreamConstants, Wifi!HangupSeen,
           Wifi!At, Wifi!Quiet
  <1> QED
    BY <1>1, <1>2, <1>3, <1>4, <1>5 DEF WifiInv, WifiClients

\* The worker is asked for its calls.
LEMMA WifiHangupAsks ==
    ASSUME WifiInv, Wifi!VoiceStreamConstants,
           NEW h \in Handle, Wifi!HangupAsks(h)
    PROVE  WifiInv'
  <1>1. WifiTypes'
    <2>1. WifiParts
      BY WifiTyped DEF WifiInv, WifiTypes
    <2>2. wifiCalls' \in [Handle \cup Incoming -> {"none", "ringing", "live", "ended", "gone"}]
      BY <2>1 DEF WifiParts, WifiInv, WifiSlot, WifiRequest, Wifi!HangupAsks, Wifi!Sends, Wifi!NoRequest, Wifi!At,
             Wifi!Quiet
    <2>3. wifiWorker' \in {"up", "rebuilding", "stopping", "clean", "unclean"}
      BY <2>1 DEF WifiParts, WifiInv, WifiSlot, WifiRequest, Wifi!HangupAsks, Wifi!Sends, Wifi!NoRequest, Wifi!At,
             Wifi!Quiet
    <2>4. request' \in WifiRequests
      BY <2>1 DEF WifiParts, WifiInv, WifiSlot, WifiRequest, WifiRequests, Wifi!HangupAsks, Wifi!Sends,
             Wifi!NoRequest, Wifi!At, Wifi!Quiet
    <2>5. slot' \in Handle \cup {Wifi!None}
      BY <2>1 DEF WifiParts, WifiInv, WifiSlot, WifiRequest, WifiRequests, Wifi!HangupAsks, Wifi!Sends,
             Wifi!NoRequest, Wifi!At, Wifi!Quiet
    <2>6. stream' \in WifiStreams
      BY <2>1 DEF WifiParts, WifiInv, WifiSlot, WifiRequest, WifiStreams, WifiClientele, WifiRequests,
             Wifi!HangupAsks, Wifi!Sends, Wifi!NoRequest, Wifi!At, Wifi!Quiet
    <2>7. wire' \in [Handle -> WifiWires]
      BY Zenon, <2>1, WifiFields DEF WifiParts, Wifi!HangupAsks, Wifi!Sends, Wifi!NoRequest, Wifi!At, Wifi!Quiet
    <2>8. client' \in [Handle -> WifiClientele]
      BY Zenon, <2>1, WifiFields DEF WifiParts, Wifi!HangupAsks, Wifi!Sends, Wifi!NoRequest, Wifi!At, Wifi!Quiet
    <2>9. wifiTroubles' \in 0 .. WifiTroubles
      BY <2>1 DEF WifiParts, WifiInv, WifiSlot, WifiRequest, Wifi!VoiceStreamConstants, Wifi!HangupAsks, Wifi!Sends,
             Wifi!NoRequest, Wifi!At, Wifi!Quiet
    <2> QED
      BY <2>2, <2>3, <2>4, <2>5, <2>6, <2>7, <2>8, <2>9, WifiTyped DEF WifiTypes, WifiParts
  <1>2. WifiSlot'
    BY DEF WifiInv, WifiTypes, WifiSlot, WifiRequest, WifiClients, WifiClient, WifiHeld, Opens, Wifi!TypeOK,
           Wifi!SlotHeld, Wifi!Live, Wifi!WorkerRuns, Wifi!CallOf, Wifi!VoiceStreamConstants, Wifi!HangupAsks,
           Wifi!Sends, Wifi!NoRequest, Wifi!At, Wifi!Quiet
  <1>3. WifiRequest'
    BY DEF WifiInv, WifiTypes, WifiSlot, WifiRequest, WifiClients, WifiClient, WifiHeld, Opens, Wifi!TypeOK,
           Wifi!SlotHeld, Wifi!Live, Wifi!WorkerRuns, Wifi!CallOf, Wifi!VoiceStreamConstants, Wifi!HangupAsks,
           Wifi!Sends, Wifi!NoRequest, Wifi!At, Wifi!Quiet
  <1>4. ASSUME NEW g \in Handle
        PROVE  WifiClient(g)'
    BY DEF WifiInv, WifiTypes, WifiSlot, WifiRequest, WifiClients, WifiClient, WifiHeld, Opens, Wifi!TypeOK,
           Wifi!SlotHeld, Wifi!Live, Wifi!WorkerRuns, Wifi!CallOf, Wifi!VoiceStreamConstants, Wifi!HangupAsks,
           Wifi!Sends, Wifi!NoRequest, Wifi!At, Wifi!Quiet
  <1>5. WifiHeld'
    BY DEF WifiInv, WifiTypes, WifiSlot, WifiRequest, WifiClients, WifiClient, WifiHeld, Opens, Wifi!TypeOK,
           Wifi!SlotHeld, Wifi!Live, Wifi!WorkerRuns, Wifi!CallOf, Wifi!VoiceStreamConstants, Wifi!HangupAsks,
           Wifi!Sends, Wifi!NoRequest, Wifi!At, Wifi!Quiet
  <1> QED
    BY <1>1, <1>2, <1>3, <1>4, <1>5 DEF WifiInv, WifiClients

\* A hang-up runs out of time.
LEMMA WifiHangupExpires ==
    ASSUME WifiInv, Wifi!VoiceStreamConstants,
           NEW h \in Handle, Wifi!HangupExpires(h)
    PROVE  WifiInv'
  <1>1. WifiTypes'
    <2>1. WifiParts
      BY WifiTyped DEF WifiInv, WifiTypes
    <2>2. wifiCalls' \in [Handle \cup Incoming -> {"none", "ringing", "live", "ended", "gone"}]
      BY <2>1 DEF WifiParts, WifiInv, WifiSlot, WifiRequest, Wifi!HangupExpires, Wifi!At, Wifi!Trouble
    <2>3. wifiWorker' \in {"up", "rebuilding", "stopping", "clean", "unclean"}
      BY <2>1 DEF WifiParts, WifiInv, WifiSlot, WifiRequest, Wifi!HangupExpires, Wifi!At, Wifi!Trouble
    <2>4. request' \in WifiRequests
      BY <2>1 DEF WifiParts, WifiInv, WifiSlot, WifiRequest, WifiRequests, Wifi!HangupExpires, Wifi!At, Wifi!Trouble
    <2>5. slot' \in Handle \cup {Wifi!None}
      BY <2>1 DEF WifiParts, WifiInv, WifiSlot, WifiRequest, WifiRequests, Wifi!HangupExpires, Wifi!At, Wifi!Trouble
    <2>6. stream' \in WifiStreams
      BY <2>1 DEF WifiParts, WifiInv, WifiSlot, WifiRequest, WifiStreams, WifiClientele, WifiRequests,
             Wifi!HangupExpires, Wifi!At, Wifi!Trouble
    <2>7. wire' \in [Handle -> WifiWires]
      BY Zenon, <2>1, WifiFields DEF WifiParts, Wifi!HangupExpires, Wifi!At, Wifi!Trouble
    <2>8. client' \in [Handle -> WifiClientele]
      BY Zenon, <2>1, WifiFields DEF WifiParts, Wifi!HangupExpires, Wifi!At, Wifi!Trouble
    <2>9. wifiTroubles' \in 0 .. WifiTroubles
      BY <2>1 DEF WifiParts, WifiInv, WifiSlot, WifiRequest, Wifi!VoiceStreamConstants, Wifi!HangupExpires, Wifi!At,
             Wifi!Trouble
    <2> QED
      BY <2>2, <2>3, <2>4, <2>5, <2>6, <2>7, <2>8, <2>9, WifiTyped DEF WifiTypes, WifiParts
  <1>2. WifiSlot'
    BY DEF WifiInv, WifiTypes, WifiSlot, WifiRequest, WifiClients, WifiClient, WifiHeld, Opens, Wifi!TypeOK,
           Wifi!SlotHeld, Wifi!Live, Wifi!WorkerRuns, Wifi!CallOf, Wifi!VoiceStreamConstants, Wifi!HangupExpires,
           Wifi!At, Wifi!Trouble
  <1>3. WifiRequest'
    BY DEF WifiInv, WifiTypes, WifiSlot, WifiRequest, WifiClients, WifiClient, WifiHeld, Opens, Wifi!TypeOK,
           Wifi!SlotHeld, Wifi!Live, Wifi!WorkerRuns, Wifi!CallOf, Wifi!VoiceStreamConstants, Wifi!HangupExpires,
           Wifi!At, Wifi!Trouble
  <1>4. ASSUME NEW g \in Handle
        PROVE  WifiClient(g)'
    BY DEF WifiInv, WifiTypes, WifiSlot, WifiRequest, WifiClients, WifiClient, WifiHeld, Opens, Wifi!TypeOK,
           Wifi!SlotHeld, Wifi!Live, Wifi!WorkerRuns, Wifi!CallOf, Wifi!VoiceStreamConstants, Wifi!HangupExpires,
           Wifi!At, Wifi!Trouble
  <1>5. WifiHeld'
    BY DEF WifiInv, WifiTypes, WifiSlot, WifiRequest, WifiClients, WifiClient, WifiHeld, Opens, Wifi!TypeOK,
           Wifi!SlotHeld, Wifi!Live, Wifi!WorkerRuns, Wifi!CallOf, Wifi!VoiceStreamConstants, Wifi!HangupExpires,
           Wifi!At, Wifi!Trouble
  <1> QED
    BY <1>1, <1>2, <1>3, <1>4, <1>5 DEF WifiInv, WifiClients

\* The list has come.
LEMMA WifiHangupListed ==
    ASSUME WifiInv, Wifi!VoiceStreamConstants,
           NEW h \in Handle, Wifi!HangupListed(h)
    PROVE  WifiInv'
  <1>1. WifiTypes'
    <2>1. WifiParts
      BY WifiTyped DEF WifiInv, WifiTypes
    <2>2. wifiCalls' \in [Handle \cup Incoming -> {"none", "ringing", "live", "ended", "gone"}]
      BY <2>1 DEF WifiParts, WifiInv, WifiSlot, WifiRequest, Wifi!HangupListed, Wifi!NothingLeft, Wifi!NoRequest,
             Wifi!At, Wifi!Quiet
    <2>3. wifiWorker' \in {"up", "rebuilding", "stopping", "clean", "unclean"}
      BY <2>1 DEF WifiParts, WifiInv, WifiSlot, WifiRequest, Wifi!HangupListed, Wifi!NothingLeft, Wifi!NoRequest,
             Wifi!At, Wifi!Quiet
    <2>4. request' \in WifiRequests
      BY <2>1 DEF WifiParts, WifiInv, WifiSlot, WifiRequest, WifiRequests, Wifi!HangupListed, Wifi!NothingLeft,
             Wifi!NoRequest, Wifi!At, Wifi!Quiet
    <2>5. slot' \in Handle \cup {Wifi!None}
      BY <2>1 DEF WifiParts, WifiInv, WifiSlot, WifiRequest, WifiRequests, Wifi!HangupListed, Wifi!NothingLeft,
             Wifi!NoRequest, Wifi!At, Wifi!Quiet
    <2>6. stream' \in WifiStreams
      BY <2>1 DEF WifiParts, WifiInv, WifiSlot, WifiRequest, WifiStreams, WifiClientele, WifiRequests,
             Wifi!HangupListed, Wifi!NothingLeft, Wifi!NoRequest, Wifi!At, Wifi!Quiet
    <2>7. wire' \in [Handle -> WifiWires]
      BY Zenon, <2>1, WifiFields DEF WifiParts, Wifi!HangupListed, Wifi!NothingLeft, Wifi!NoRequest, Wifi!At,
         Wifi!Quiet
    <2>8. client' \in [Handle -> WifiClientele]
      BY Zenon, <2>1, WifiFields DEF WifiParts, Wifi!HangupListed, Wifi!NothingLeft, Wifi!NoRequest, Wifi!At,
         Wifi!Quiet
    <2>9. wifiTroubles' \in 0 .. WifiTroubles
      BY <2>1 DEF WifiParts, WifiInv, WifiSlot, WifiRequest, Wifi!VoiceStreamConstants, Wifi!HangupListed,
             Wifi!NothingLeft, Wifi!NoRequest, Wifi!At, Wifi!Quiet
    <2> QED
      BY <2>2, <2>3, <2>4, <2>5, <2>6, <2>7, <2>8, <2>9, WifiTyped DEF WifiTypes, WifiParts
  <1>2. WifiSlot'
    BY DEF WifiInv, WifiTypes, WifiSlot, WifiRequest, WifiClients, WifiClient, WifiHeld, Opens, Wifi!TypeOK,
           Wifi!SlotHeld, Wifi!Live, Wifi!WorkerRuns, Wifi!CallOf, Wifi!VoiceStreamConstants, Wifi!HangupListed,
           Wifi!NothingLeft, Wifi!NoRequest, Wifi!At, Wifi!Quiet
  <1>3. WifiRequest'
    BY DEF WifiInv, WifiTypes, WifiSlot, WifiRequest, WifiClients, WifiClient, WifiHeld, Opens, Wifi!TypeOK,
           Wifi!SlotHeld, Wifi!Live, Wifi!WorkerRuns, Wifi!CallOf, Wifi!VoiceStreamConstants, Wifi!HangupListed,
           Wifi!NothingLeft, Wifi!NoRequest, Wifi!At, Wifi!Quiet
  <1>4. ASSUME NEW g \in Handle
        PROVE  WifiClient(g)'
    <2>1. WifiParts
      BY WifiTyped DEF WifiInv, WifiTypes
    <2>2. CASE Wifi!NothingLeft(h)
      <3>1. request.op = "list" /\ request.at = "reply" /\ request.ok /\ ~ request.busy /\ request.stream # h
        BY <2>2 DEF WifiInv, WifiRequest, Wifi!HangupListed, Wifi!NothingLeft
      <3>2. slot # h /\ ~ Wifi!Live(client[h].call)
        BY <3>1 DEF WifiInv, WifiRequest, Wifi!HangupListed
      <3>3. client[h].call \in Incoming \cup {Wifi!None} /\ client[h].at # "idle"
        BY Zenon, <2>1, WifiFields DEF Wifi!HangupListed
      <3>4. Wifi!WorkerRuns => ~ Wifi!Live(Wifi!CallOf(h))
        <4>1. SUFFICES ASSUME Wifi!WorkerRuns, client[h].call = Wifi!None, Wifi!Live(h)
                       PROVE  FALSE
          BY <3>2 DEF Wifi!CallOf
        <4>2. wifiCalls[h] = "live" /\ h \in DOMAIN wifiCalls
          BY <2>1, <4>1 DEF WifiInv, WifiClients, WifiClient, Wifi!Live, WifiParts
        <4>3. stream.call = h
          BY <4>1, <4>2 DEF WifiInv, WifiHeld, Wifi!SlotHeld
        <4>4. slot # Wifi!None
          BY <4>3 DEF WifiInv, WifiSlot, Wifi!NoStream, Wifi!VoiceStreamConstants
        <4>5. slot \in Handle /\ client[slot].call \in Incoming \cup {Wifi!None}
          BY Zenon, <2>1, <4>4, WifiFields DEF WifiParts
        <4> QED
          BY <3>2, <4>3, <4>4, <4>5 DEF WifiInv, WifiSlot, Wifi!VoiceStreamConstants
      <3>5. client' = [client EXCEPT ![h].at = "released"] /\ UNCHANGED <<wifiCalls, wifiWorker, slot, wire>>
        BY <2>2 DEF Wifi!HangupListed, Wifi!At
      <3>6. client \in [Handle -> WifiClientele]
        BY <2>1 DEF WifiParts
      <3>7. g # h => client'[g] = client[g]
        BY <3>5, <3>6
      <3>8. client'[h].at = "released" /\ client'[h].call = client[h].call /\ client'[h].seen = client[h].seen
        BY <3>5, <3>6 DEF WifiClientele
      <3>9. CASE g = h
        BY <3>2, <3>4, <3>5, <3>8, <3>9
           DEF WifiInv, WifiClients, WifiClient, Wifi!Live, Wifi!WorkerRuns, Wifi!CallOf
      <3>10. CASE g # h
        BY <3>5, <3>7, <3>10
           DEF WifiInv, WifiClients, WifiClient, Wifi!Live, Wifi!WorkerRuns, Wifi!CallOf
      <3> QED
        BY <3>9, <3>10
    <2>3. CASE ~ Wifi!NothingLeft(h)
      <3>5. client' = [client EXCEPT ![h].at = "again"] /\ UNCHANGED <<wifiCalls, wifiWorker, slot, wire>>
        BY <2>3 DEF Wifi!HangupListed, Wifi!At
      <3>6. client \in [Handle -> WifiClientele]
        BY <2>1 DEF WifiParts
      <3>7. g # h => client'[g] = client[g]
        BY <3>5, <3>6
      <3>8. client'[h].at = "again" /\ client'[h].call = client[h].call /\ client'[h].seen = client[h].seen
        BY <3>5, <3>6 DEF WifiClientele
      <3> QED
        BY <3>5, <3>7, <3>8
           DEF WifiInv, WifiClients, WifiClient, Wifi!Live, Wifi!WorkerRuns, Wifi!CallOf
    <2> QED
      BY <2>2, <2>3
  <1>5. WifiHeld'
    BY DEF WifiInv, WifiTypes, WifiSlot, WifiRequest, WifiClients, WifiClient, WifiHeld, Opens, Wifi!TypeOK,
           Wifi!SlotHeld, Wifi!Live, Wifi!WorkerRuns, Wifi!CallOf, Wifi!VoiceStreamConstants, Wifi!HangupListed,
           Wifi!NothingLeft, Wifi!NoRequest, Wifi!At, Wifi!Quiet
  <1> QED
    BY <1>1, <1>2, <1>3, <1>4, <1>5 DEF WifiInv, WifiClients

\* An answer is dropped.
LEMMA WifiDrop ==
    ASSUME WifiInv, Wifi!VoiceStreamConstants,
           Wifi!Drop
    PROVE  WifiInv'
  <1>1. WifiTypes'
    <2>1. WifiParts
      BY WifiTyped DEF WifiInv, WifiTypes
    <2>2. wifiCalls' \in [Handle \cup Incoming -> {"none", "ringing", "live", "ended", "gone"}]
      BY <2>1 DEF WifiParts, WifiInv, WifiSlot, WifiRequest, Wifi!Drop, Wifi!NoRequest, Wifi!Quiet
    <2>3. wifiWorker' \in {"up", "rebuilding", "stopping", "clean", "unclean"}
      BY <2>1 DEF WifiParts, WifiInv, WifiSlot, WifiRequest, Wifi!Drop, Wifi!NoRequest, Wifi!Quiet
    <2>4. request' \in WifiRequests
      BY <2>1 DEF WifiParts, WifiInv, WifiSlot, WifiRequest, WifiRequests, Wifi!Drop, Wifi!NoRequest, Wifi!Quiet
    <2>5. slot' \in Handle \cup {Wifi!None}
      BY <2>1 DEF WifiParts, WifiInv, WifiSlot, WifiRequest, WifiRequests, Wifi!Drop, Wifi!NoRequest, Wifi!Quiet
    <2>6. stream' \in WifiStreams
      BY <2>1 DEF WifiParts, WifiInv, WifiSlot, WifiRequest, WifiStreams, WifiClientele, WifiRequests, Wifi!Drop,
             Wifi!NoRequest, Wifi!Quiet
    <2>7. wire' \in [Handle -> WifiWires]
      BY Zenon, <2>1, WifiFields DEF WifiParts, Wifi!Drop, Wifi!NoRequest, Wifi!Quiet
    <2>8. client' \in [Handle -> WifiClientele]
      BY Zenon, <2>1, WifiFields DEF WifiParts, Wifi!Drop, Wifi!NoRequest, Wifi!Quiet
    <2>9. wifiTroubles' \in 0 .. WifiTroubles
      BY <2>1 DEF WifiParts, WifiInv, WifiSlot, WifiRequest, Wifi!VoiceStreamConstants, Wifi!Drop, Wifi!NoRequest,
             Wifi!Quiet
    <2> QED
      BY <2>2, <2>3, <2>4, <2>5, <2>6, <2>7, <2>8, <2>9, WifiTyped DEF WifiTypes, WifiParts
  <1>2. WifiSlot'
    BY DEF WifiInv, WifiTypes, WifiSlot, WifiRequest, WifiClients, WifiClient, WifiHeld, Opens, Wifi!TypeOK,
           Wifi!SlotHeld, Wifi!Live, Wifi!WorkerRuns, Wifi!CallOf, Wifi!VoiceStreamConstants, Wifi!Drop,
           Wifi!NoRequest, Wifi!Quiet
  <1>3. WifiRequest'
    BY DEF WifiInv, WifiTypes, WifiSlot, WifiRequest, WifiClients, WifiClient, WifiHeld, Opens, Wifi!TypeOK,
           Wifi!SlotHeld, Wifi!Live, Wifi!WorkerRuns, Wifi!CallOf, Wifi!VoiceStreamConstants, Wifi!Drop,
           Wifi!NoRequest, Wifi!Quiet
  <1>4. ASSUME NEW g \in Handle
        PROVE  WifiClient(g)'
    BY DEF WifiInv, WifiTypes, WifiSlot, WifiRequest, WifiClients, WifiClient, WifiHeld, Opens, Wifi!TypeOK,
           Wifi!SlotHeld, Wifi!Live, Wifi!WorkerRuns, Wifi!CallOf, Wifi!VoiceStreamConstants, Wifi!Drop,
           Wifi!NoRequest, Wifi!Quiet
  <1>5. WifiHeld'
    BY DEF WifiInv, WifiTypes, WifiSlot, WifiRequest, WifiClients, WifiClient, WifiHeld, Opens, Wifi!TypeOK,
           Wifi!SlotHeld, Wifi!Live, Wifi!WorkerRuns, Wifi!CallOf, Wifi!VoiceStreamConstants, Wifi!Drop,
           Wifi!NoRequest, Wifi!Quiet
  <1> QED
    BY <1>1, <1>2, <1>3, <1>4, <1>5 DEF WifiInv, WifiClients

\* The connection breaks.
LEMMA WifiBreak ==
    ASSUME WifiInv, Wifi!VoiceStreamConstants,
           NEW h \in Handle, Wifi!Break(h)
    PROVE  WifiInv'
  <1>1. WifiTypes'
    <2>1. WifiParts
      BY WifiTyped DEF WifiInv, WifiTypes
    <2>2. wifiCalls' \in [Handle \cup Incoming -> {"none", "ringing", "live", "ended", "gone"}]
      BY <2>1 DEF WifiParts, WifiInv, WifiSlot, WifiRequest, Wifi!Break, Wifi!Trouble
    <2>3. wifiWorker' \in {"up", "rebuilding", "stopping", "clean", "unclean"}
      BY <2>1 DEF WifiParts, WifiInv, WifiSlot, WifiRequest, Wifi!Break, Wifi!Trouble
    <2>4. request' \in WifiRequests
      BY <2>1 DEF WifiParts, WifiInv, WifiSlot, WifiRequest, WifiRequests, Wifi!Break, Wifi!Trouble
    <2>5. slot' \in Handle \cup {Wifi!None}
      BY <2>1 DEF WifiParts, WifiInv, WifiSlot, WifiRequest, WifiRequests, Wifi!Break, Wifi!Trouble
    <2>6. stream' \in WifiStreams
      BY <2>1 DEF WifiParts, WifiInv, WifiSlot, WifiRequest, WifiStreams, WifiClientele, WifiRequests, Wifi!Break,
             Wifi!Trouble
    <2>7. wire' \in [Handle -> WifiWires]
      BY Zenon, <2>1, WifiFields DEF WifiParts, Wifi!Break, Wifi!Trouble
    <2>8. client' \in [Handle -> WifiClientele]
      BY Zenon, <2>1, WifiFields DEF WifiParts, Wifi!Break, Wifi!Trouble
    <2>9. wifiTroubles' \in 0 .. WifiTroubles
      BY <2>1 DEF WifiParts, WifiInv, WifiSlot, WifiRequest, Wifi!VoiceStreamConstants, Wifi!Break, Wifi!Trouble
    <2> QED
      BY <2>2, <2>3, <2>4, <2>5, <2>6, <2>7, <2>8, <2>9, WifiTyped DEF WifiTypes, WifiParts
  <1>2. WifiSlot'
    BY DEF WifiInv, WifiTypes, WifiSlot, WifiRequest, WifiClients, WifiClient, WifiHeld, Opens, Wifi!TypeOK,
           Wifi!SlotHeld, Wifi!Live, Wifi!WorkerRuns, Wifi!CallOf, Wifi!VoiceStreamConstants, Wifi!Break, Wifi!Trouble
  <1>3. WifiRequest'
    BY DEF WifiInv, WifiTypes, WifiSlot, WifiRequest, WifiClients, WifiClient, WifiHeld, Opens, Wifi!TypeOK,
           Wifi!SlotHeld, Wifi!Live, Wifi!WorkerRuns, Wifi!CallOf, Wifi!VoiceStreamConstants, Wifi!Break, Wifi!Trouble
  <1>4. ASSUME NEW g \in Handle
        PROVE  WifiClient(g)'
    BY DEF WifiInv, WifiTypes, WifiSlot, WifiRequest, WifiClients, WifiClient, WifiHeld, Opens, Wifi!TypeOK,
           Wifi!SlotHeld, Wifi!Live, Wifi!WorkerRuns, Wifi!CallOf, Wifi!VoiceStreamConstants, Wifi!Break, Wifi!Trouble
  <1>5. WifiHeld'
    BY DEF WifiInv, WifiTypes, WifiSlot, WifiRequest, WifiClients, WifiClient, WifiHeld, Opens, Wifi!TypeOK,
           Wifi!SlotHeld, Wifi!Live, Wifi!WorkerRuns, Wifi!CallOf, Wifi!VoiceStreamConstants, Wifi!Break, Wifi!Trouble
  <1> QED
    BY <1>1, <1>2, <1>3, <1>4, <1>5 DEF WifiInv, WifiClients

\* The worker takes a command.
LEMMA WifiCommand ==
    ASSUME WifiInv, Wifi!VoiceStreamConstants,
           Wifi!Command
    PROVE  WifiInv'
  <1>1. WifiTypes'
    <2>1. WifiParts
      BY WifiTyped DEF WifiInv, WifiTypes
    <2>2. wifiCalls' \in [Handle \cup Incoming -> {"none", "ringing", "live", "ended", "gone"}]
      BY <2>1 DEF WifiParts, WifiInv, WifiSlot, WifiRequest, Wifi!Command, Wifi!Quiet
    <2>3. wifiWorker' \in {"up", "rebuilding", "stopping", "clean", "unclean"}
      BY <2>1 DEF WifiParts, WifiInv, WifiSlot, WifiRequest, Wifi!Command, Wifi!Quiet
    <2>4. request' \in WifiRequests
      BY <2>1 DEF WifiParts, WifiInv, WifiSlot, WifiRequest, WifiRequests, Wifi!Command, Wifi!Quiet
    <2>5. slot' \in Handle \cup {Wifi!None}
      BY <2>1 DEF WifiParts, WifiInv, WifiSlot, WifiRequest, WifiRequests, Wifi!Command, Wifi!Quiet
    <2>6. stream' \in WifiStreams
      BY <2>1 DEF WifiParts, WifiInv, WifiSlot, WifiRequest, WifiStreams, WifiClientele, WifiRequests, Wifi!Command,
             Wifi!Quiet
    <2>7. wire' \in [Handle -> WifiWires]
      BY Zenon, <2>1, WifiFields DEF WifiParts, Wifi!Command, Wifi!Quiet
    <2>8. client' \in [Handle -> WifiClientele]
      BY Zenon, <2>1, WifiFields DEF WifiParts, Wifi!Command, Wifi!Quiet
    <2>9. wifiTroubles' \in 0 .. WifiTroubles
      BY <2>1 DEF WifiParts, WifiInv, WifiSlot, WifiRequest, Wifi!VoiceStreamConstants, Wifi!Command, Wifi!Quiet
    <2> QED
      BY <2>2, <2>3, <2>4, <2>5, <2>6, <2>7, <2>8, <2>9, WifiTyped DEF WifiTypes, WifiParts
  <1>2. WifiSlot'
    BY DEF WifiInv, WifiTypes, WifiSlot, WifiRequest, WifiClients, WifiClient, WifiHeld, Opens, Wifi!TypeOK,
           Wifi!SlotHeld, Wifi!Live, Wifi!WorkerRuns, Wifi!CallOf, Wifi!VoiceStreamConstants, Wifi!Command, Wifi!Quiet
  <1>3. WifiRequest'
    BY DEF WifiInv, WifiTypes, WifiSlot, WifiRequest, WifiClients, WifiClient, WifiHeld, Opens, Wifi!TypeOK,
           Wifi!SlotHeld, Wifi!Live, Wifi!WorkerRuns, Wifi!CallOf, Wifi!VoiceStreamConstants, Wifi!Command, Wifi!Quiet
  <1>4. ASSUME NEW g \in Handle
        PROVE  WifiClient(g)'
    BY DEF WifiInv, WifiTypes, WifiSlot, WifiRequest, WifiClients, WifiClient, WifiHeld, Opens, Wifi!TypeOK,
           Wifi!SlotHeld, Wifi!Live, Wifi!WorkerRuns, Wifi!CallOf, Wifi!VoiceStreamConstants, Wifi!Command, Wifi!Quiet
  <1>5. WifiHeld'
    BY DEF WifiInv, WifiTypes, WifiSlot, WifiRequest, WifiClients, WifiClient, WifiHeld, Opens, Wifi!TypeOK,
           Wifi!SlotHeld, Wifi!Live, Wifi!WorkerRuns, Wifi!CallOf, Wifi!VoiceStreamConstants, Wifi!Command, Wifi!Quiet
  <1> QED
    BY <1>1, <1>2, <1>3, <1>4, <1>5 DEF WifiInv, WifiClients

\* The worker grants a stream or not.
LEMMA WifiRunOpen ==
    ASSUME WifiInv, Wifi!VoiceStreamConstants,
           Wifi!RunOpen
    PROVE  WifiInv'
  <1>1. WifiTypes'
    <2>1. WifiParts
      BY WifiTyped DEF WifiInv, WifiTypes
    <2>2. wifiCalls' \in [Handle \cup Incoming -> {"none", "ringing", "live", "ended", "gone"}]
      BY <2>1 DEF WifiParts, WifiInv, WifiSlot, WifiRequest, Wifi!RunOpen, Wifi!Answers, Wifi!Vacant, Wifi!Quiet
    <2>3. wifiWorker' \in {"up", "rebuilding", "stopping", "clean", "unclean"}
      BY <2>1 DEF WifiParts, WifiInv, WifiSlot, WifiRequest, Wifi!RunOpen, Wifi!Answers, Wifi!Vacant, Wifi!Quiet
    <2>4. request' \in WifiRequests
      BY <2>1 DEF WifiParts, WifiInv, WifiSlot, WifiRequest, WifiRequests, Wifi!RunOpen, Wifi!Answers, Wifi!Vacant,
             Wifi!Quiet
    <2>5. slot' \in Handle \cup {Wifi!None}
      BY <2>1 DEF WifiParts, WifiInv, WifiSlot, WifiRequest, WifiRequests, Wifi!RunOpen, Wifi!Answers, Wifi!Vacant,
             Wifi!Quiet
    <2>6. stream' \in WifiStreams
      BY <2>1 DEF WifiParts, WifiInv, WifiSlot, WifiRequest, WifiStreams, WifiClientele, WifiRequests, Wifi!RunOpen,
             Wifi!Answers, Wifi!Vacant, Wifi!Quiet
    <2>7. wire' \in [Handle -> WifiWires]
      BY Zenon, <2>1, WifiFields DEF WifiParts, Wifi!RunOpen, Wifi!Answers, Wifi!Vacant, Wifi!Quiet
    <2>8. client' \in [Handle -> WifiClientele]
      BY Zenon, <2>1, WifiFields DEF WifiParts, Wifi!RunOpen, Wifi!Answers, Wifi!Vacant, Wifi!Quiet
    <2>9. wifiTroubles' \in 0 .. WifiTroubles
      BY <2>1 DEF WifiParts, WifiInv, WifiSlot, WifiRequest, Wifi!VoiceStreamConstants, Wifi!RunOpen, Wifi!Answers,
             Wifi!Vacant, Wifi!Quiet
    <2> QED
      BY <2>2, <2>3, <2>4, <2>5, <2>6, <2>7, <2>8, <2>9, WifiTyped DEF WifiTypes, WifiParts
  <1>2. WifiSlot'
    BY DEF WifiInv, WifiTypes, WifiSlot, WifiRequest, WifiClients, WifiClient, WifiHeld, Opens, Wifi!TypeOK,
           Wifi!SlotHeld, Wifi!Live, Wifi!WorkerRuns, Wifi!CallOf, Wifi!VoiceStreamConstants, Wifi!RunOpen,
           Wifi!Answers, Wifi!Vacant, Wifi!Quiet
  <1>3. WifiRequest'
    BY DEF WifiInv, WifiTypes, WifiSlot, WifiRequest, WifiClients, WifiClient, WifiHeld, Opens, Wifi!TypeOK,
           Wifi!SlotHeld, Wifi!Live, Wifi!WorkerRuns, Wifi!CallOf, Wifi!VoiceStreamConstants, Wifi!RunOpen,
           Wifi!Answers, Wifi!Vacant, Wifi!Quiet
  <1>4. ASSUME NEW g \in Handle
        PROVE  WifiClient(g)'
    BY DEF WifiInv, WifiTypes, WifiSlot, WifiRequest, WifiClients, WifiClient, WifiHeld, Opens, Wifi!TypeOK,
           Wifi!SlotHeld, Wifi!Live, Wifi!WorkerRuns, Wifi!CallOf, Wifi!VoiceStreamConstants, Wifi!RunOpen,
           Wifi!Answers, Wifi!Vacant, Wifi!Quiet
  <1>5. WifiHeld'
    BY DEF WifiInv, WifiTypes, WifiSlot, WifiRequest, WifiClients, WifiClient, WifiHeld, Opens, Wifi!TypeOK,
           Wifi!SlotHeld, Wifi!Live, Wifi!WorkerRuns, Wifi!CallOf, Wifi!VoiceStreamConstants, Wifi!RunOpen,
           Wifi!Answers, Wifi!Vacant, Wifi!Quiet
  <1> QED
    BY <1>1, <1>2, <1>3, <1>4, <1>5 DEF WifiInv, WifiClients

\* The worker lists its calls.
LEMMA WifiRunList ==
    ASSUME WifiInv, Wifi!VoiceStreamConstants,
           Wifi!RunList
    PROVE  WifiInv'
  <1>1. WifiTypes'
    <2>1. WifiParts
      BY WifiTyped DEF WifiInv, WifiTypes
    <2>2. wifiCalls' \in [Handle \cup Incoming -> {"none", "ringing", "live", "ended", "gone"}]
      BY <2>1 DEF WifiParts, WifiInv, WifiSlot, WifiRequest, Wifi!RunList, Wifi!Answers, Wifi!SomeLive, Wifi!Quiet
    <2>3. wifiWorker' \in {"up", "rebuilding", "stopping", "clean", "unclean"}
      BY <2>1 DEF WifiParts, WifiInv, WifiSlot, WifiRequest, Wifi!RunList, Wifi!Answers, Wifi!SomeLive, Wifi!Quiet
    <2>4. request' \in WifiRequests
      BY <2>1 DEF WifiParts, WifiInv, WifiSlot, WifiRequest, WifiRequests, Wifi!RunList, Wifi!Answers, Wifi!SomeLive,
             Wifi!Quiet
    <2>5. slot' \in Handle \cup {Wifi!None}
      BY <2>1 DEF WifiParts, WifiInv, WifiSlot, WifiRequest, WifiRequests, Wifi!RunList, Wifi!Answers, Wifi!SomeLive,
             Wifi!Quiet
    <2>6. stream' \in WifiStreams
      BY <2>1 DEF WifiParts, WifiInv, WifiSlot, WifiRequest, WifiStreams, WifiClientele, WifiRequests, Wifi!RunList,
             Wifi!Answers, Wifi!SomeLive, Wifi!Quiet
    <2>7. wire' \in [Handle -> WifiWires]
      BY Zenon, <2>1, WifiFields DEF WifiParts, Wifi!RunList, Wifi!Answers, Wifi!SomeLive, Wifi!Quiet
    <2>8. client' \in [Handle -> WifiClientele]
      BY Zenon, <2>1, WifiFields DEF WifiParts, Wifi!RunList, Wifi!Answers, Wifi!SomeLive, Wifi!Quiet
    <2>9. wifiTroubles' \in 0 .. WifiTroubles
      BY <2>1 DEF WifiParts, WifiInv, WifiSlot, WifiRequest, Wifi!VoiceStreamConstants, Wifi!RunList, Wifi!Answers,
             Wifi!SomeLive, Wifi!Quiet
    <2> QED
      BY <2>2, <2>3, <2>4, <2>5, <2>6, <2>7, <2>8, <2>9, WifiTyped DEF WifiTypes, WifiParts
  <1>2. WifiSlot'
    BY DEF WifiInv, WifiTypes, WifiSlot, WifiRequest, WifiClients, WifiClient, WifiHeld, Opens, Wifi!TypeOK,
           Wifi!SlotHeld, Wifi!Live, Wifi!WorkerRuns, Wifi!CallOf, Wifi!VoiceStreamConstants, Wifi!RunList,
           Wifi!Answers, Wifi!SomeLive, Wifi!Quiet
  <1>3. WifiRequest'
    <2>1. WifiParts
      BY WifiTyped DEF WifiInv, WifiTypes
    <2>2. CASE request.at = "run"
      <3>1. ~ Wifi!SomeLive => ~ Wifi!Live(client[request.by].call)
        <4>1. request.by \in Handle
          BY <2>2 DEF WifiInv, WifiRequest
        <4>2. client[request.by].call \in Incoming \cup {Wifi!None}
          BY Zenon, <2>1, <4>1, WifiFields
        <4> QED
          BY <2>1, <4>2 DEF WifiParts, Wifi!SomeLive, Wifi!Live
      <3>2. request' = [request EXCEPT !.at = IF Wifi!Answers THEN "listed" ELSE "reply", !.busy = Wifi!SomeLive]
        BY <2>2 DEF Wifi!RunList
      <3>3. /\ request'.by = request.by /\ request'.op = "list" /\ request'.ok = request.ok
            /\ request'.busy = Wifi!SomeLive /\ request'.at \in {"listed", "reply"}
        BY <2>1, <3>2 DEF WifiParts, WifiRequests, Wifi!RunList
      <3>4. UNCHANGED <<wifiCalls, wifiWorker, slot, stream, wire, client>> /\ ~ request.ok
        BY <2>2 DEF WifiInv, WifiRequest, Wifi!RunList
      <3> QED
        BY <2>2, <3>1, <3>3, <3>4 DEF WifiInv, WifiRequest, Opens, Wifi!Live, Wifi!RunList
    <2>3. CASE request.at = "listed"
      <3>1. request' = [request EXCEPT !.at = "reply", !.ok = TRUE, !.stream = slot]
        BY <2>3 DEF Wifi!RunList
      <3>2. /\ request'.by = request.by /\ request'.op = "list" /\ request'.ok = TRUE
            /\ request'.busy = request.busy /\ request'.at = "reply" /\ request'.stream = slot
        BY <2>1, <3>1 DEF WifiParts, WifiRequests, Wifi!RunList
      <3>3. UNCHANGED <<wifiCalls, wifiWorker, slot, stream, wire, client>>
        BY DEF Wifi!RunList
      <3> QED
        BY <2>3, <3>2, <3>3 DEF WifiInv, WifiRequest, Opens, Wifi!Live, Wifi!RunList
    <2> QED
      BY <2>2, <2>3 DEF Wifi!RunList
  <1>4. ASSUME NEW g \in Handle
        PROVE  WifiClient(g)'
    BY DEF WifiInv, WifiTypes, WifiSlot, WifiRequest, WifiClients, WifiClient, WifiHeld, Opens, Wifi!TypeOK,
           Wifi!SlotHeld, Wifi!Live, Wifi!WorkerRuns, Wifi!CallOf, Wifi!VoiceStreamConstants, Wifi!RunList,
           Wifi!Answers, Wifi!SomeLive, Wifi!Quiet
  <1>5. WifiHeld'
    BY DEF WifiInv, WifiTypes, WifiSlot, WifiRequest, WifiClients, WifiClient, WifiHeld, Opens, Wifi!TypeOK,
           Wifi!SlotHeld, Wifi!Live, Wifi!WorkerRuns, Wifi!CallOf, Wifi!VoiceStreamConstants, Wifi!RunList,
           Wifi!Answers, Wifi!SomeLive, Wifi!Quiet
  <1> QED
    BY <1>1, <1>2, <1>3, <1>4, <1>5 DEF WifiInv, WifiClients

\* Nobody has connected.
LEMMA WifiAcceptExpires ==
    ASSUME WifiInv, Wifi!VoiceStreamConstants,
           Wifi!AcceptExpires
    PROVE  WifiInv'
  <1>1. WifiTypes'
    <2>1. WifiParts
      BY WifiTyped DEF WifiInv, WifiTypes
    <2>2. wifiCalls' \in [Handle \cup Incoming -> {"none", "ringing", "live", "ended", "gone"}]
      BY <2>1 DEF WifiParts, WifiInv, WifiSlot, WifiRequest, Wifi!AcceptExpires, Wifi!NoStream, Wifi!Quiet
    <2>3. wifiWorker' \in {"up", "rebuilding", "stopping", "clean", "unclean"}
      BY <2>1 DEF WifiParts, WifiInv, WifiSlot, WifiRequest, Wifi!AcceptExpires, Wifi!NoStream, Wifi!Quiet
    <2>4. request' \in WifiRequests
      BY <2>1 DEF WifiParts, WifiInv, WifiSlot, WifiRequest, WifiRequests, Wifi!AcceptExpires, Wifi!NoStream,
             Wifi!Quiet
    <2>5. slot' \in Handle \cup {Wifi!None}
      BY <2>1 DEF WifiParts, WifiInv, WifiSlot, WifiRequest, WifiRequests, Wifi!AcceptExpires, Wifi!NoStream,
             Wifi!Quiet
    <2>6. stream' \in WifiStreams
      BY <2>1 DEF WifiParts, WifiInv, WifiSlot, WifiRequest, WifiStreams, WifiClientele, WifiRequests,
             Wifi!AcceptExpires, Wifi!NoStream, Wifi!Quiet
    <2>7. wire' \in [Handle -> WifiWires]
      BY Zenon, <2>1, WifiFields DEF WifiParts, Wifi!AcceptExpires, Wifi!NoStream, Wifi!Quiet
    <2>8. client' \in [Handle -> WifiClientele]
      BY Zenon, <2>1, WifiFields DEF WifiParts, Wifi!AcceptExpires, Wifi!NoStream, Wifi!Quiet
    <2>9. wifiTroubles' \in 0 .. WifiTroubles
      BY <2>1 DEF WifiParts, WifiInv, WifiSlot, WifiRequest, Wifi!VoiceStreamConstants, Wifi!AcceptExpires,
             Wifi!NoStream, Wifi!Quiet
    <2> QED
      BY <2>2, <2>3, <2>4, <2>5, <2>6, <2>7, <2>8, <2>9, WifiTyped DEF WifiTypes, WifiParts
  <1>2. WifiSlot'
    BY DEF WifiInv, WifiTypes, WifiSlot, WifiRequest, WifiClients, WifiClient, WifiHeld, Opens, Wifi!TypeOK,
           Wifi!SlotHeld, Wifi!Live, Wifi!WorkerRuns, Wifi!CallOf, Wifi!VoiceStreamConstants, Wifi!AcceptExpires,
           Wifi!NoStream, Wifi!Quiet
  <1>3. WifiRequest'
    BY DEF WifiInv, WifiTypes, WifiSlot, WifiRequest, WifiClients, WifiClient, WifiHeld, Opens, Wifi!TypeOK,
           Wifi!SlotHeld, Wifi!Live, Wifi!WorkerRuns, Wifi!CallOf, Wifi!VoiceStreamConstants, Wifi!AcceptExpires,
           Wifi!NoStream, Wifi!Quiet
  <1>4. ASSUME NEW g \in Handle
        PROVE  WifiClient(g)'
    BY DEF WifiInv, WifiTypes, WifiSlot, WifiRequest, WifiClients, WifiClient, WifiHeld, Opens, Wifi!TypeOK,
           Wifi!SlotHeld, Wifi!Live, Wifi!WorkerRuns, Wifi!CallOf, Wifi!VoiceStreamConstants, Wifi!AcceptExpires,
           Wifi!NoStream, Wifi!Quiet
  <1>5. WifiHeld'
    BY DEF WifiInv, WifiTypes, WifiSlot, WifiRequest, WifiClients, WifiClient, WifiHeld, Opens, Wifi!TypeOK,
           Wifi!SlotHeld, Wifi!Live, Wifi!WorkerRuns, Wifi!CallOf, Wifi!VoiceStreamConstants, Wifi!AcceptExpires,
           Wifi!NoStream, Wifi!Quiet
  <1> QED
    BY <1>1, <1>2, <1>3, <1>4, <1>5 DEF WifiInv, WifiClients

\* A status is sent.
LEMMA WifiStatus ==
    ASSUME WifiInv, Wifi!VoiceStreamConstants,
           Wifi!Status
    PROVE  WifiInv'
  <1>1. WifiTypes'
    <2>1. WifiParts
      BY WifiTyped DEF WifiInv, WifiTypes
    <2>2. wifiCalls' \in [Handle \cup Incoming -> {"none", "ringing", "live", "ended", "gone"}]
      BY <2>1 DEF WifiParts, WifiInv, WifiSlot, WifiRequest, Wifi!Status, Wifi!Served, Wifi!Quiet
    <2>3. wifiWorker' \in {"up", "rebuilding", "stopping", "clean", "unclean"}
      BY <2>1 DEF WifiParts, WifiInv, WifiSlot, WifiRequest, Wifi!Status, Wifi!Served, Wifi!Quiet
    <2>4. request' \in WifiRequests
      BY <2>1 DEF WifiParts, WifiInv, WifiSlot, WifiRequest, WifiRequests, Wifi!Status, Wifi!Served, Wifi!Quiet
    <2>5. slot' \in Handle \cup {Wifi!None}
      BY <2>1 DEF WifiParts, WifiInv, WifiSlot, WifiRequest, WifiRequests, Wifi!Status, Wifi!Served, Wifi!Quiet
    <2>6. stream' \in WifiStreams
      BY <2>1 DEF WifiParts, WifiInv, WifiSlot, WifiRequest, WifiStreams, WifiClientele, WifiRequests, Wifi!Status,
             Wifi!Served, Wifi!Quiet
    <2>7. wire' \in [Handle -> WifiWires]
      BY Zenon, <2>1, WifiFields DEF WifiParts, Wifi!Status, Wifi!Served, Wifi!Quiet
    <2>8. client' \in [Handle -> WifiClientele]
      BY Zenon, <2>1, WifiFields DEF WifiParts, Wifi!Status, Wifi!Served, Wifi!Quiet
    <2>9. wifiTroubles' \in 0 .. WifiTroubles
      BY <2>1 DEF WifiParts, WifiInv, WifiSlot, WifiRequest, Wifi!VoiceStreamConstants, Wifi!Status, Wifi!Served,
             Wifi!Quiet
    <2> QED
      BY <2>2, <2>3, <2>4, <2>5, <2>6, <2>7, <2>8, <2>9, WifiTyped DEF WifiTypes, WifiParts
  <1>2. WifiSlot'
    BY DEF WifiInv, WifiTypes, WifiSlot, WifiRequest, WifiClients, WifiClient, WifiHeld, Opens, Wifi!TypeOK,
           Wifi!SlotHeld, Wifi!Live, Wifi!WorkerRuns, Wifi!CallOf, Wifi!VoiceStreamConstants, Wifi!Status,
           Wifi!Served, Wifi!Quiet
  <1>3. WifiRequest'
    BY DEF WifiInv, WifiTypes, WifiSlot, WifiRequest, WifiClients, WifiClient, WifiHeld, Opens, Wifi!TypeOK,
           Wifi!SlotHeld, Wifi!Live, Wifi!WorkerRuns, Wifi!CallOf, Wifi!VoiceStreamConstants, Wifi!Status,
           Wifi!Served, Wifi!Quiet
  <1>4. ASSUME NEW g \in Handle
        PROVE  WifiClient(g)'
    BY DEF WifiInv, WifiTypes, WifiSlot, WifiRequest, WifiClients, WifiClient, WifiHeld, Opens, Wifi!TypeOK,
           Wifi!SlotHeld, Wifi!Live, Wifi!WorkerRuns, Wifi!CallOf, Wifi!VoiceStreamConstants, Wifi!Status,
           Wifi!Served, Wifi!Quiet
  <1>5. WifiHeld'
    BY DEF WifiInv, WifiTypes, WifiSlot, WifiRequest, WifiClients, WifiClient, WifiHeld, Opens, Wifi!TypeOK,
           Wifi!SlotHeld, Wifi!Live, Wifi!WorkerRuns, Wifi!CallOf, Wifi!VoiceStreamConstants, Wifi!Status,
           Wifi!Served, Wifi!Quiet
  <1> QED
    BY <1>1, <1>2, <1>3, <1>4, <1>5 DEF WifiInv, WifiClients

\* A frame is read.
LEMMA WifiFrame ==
    ASSUME WifiInv, Wifi!VoiceStreamConstants,
           Wifi!Frame
    PROVE  WifiInv'
  <1>1. WifiTypes'
    <2>1. WifiParts
      BY WifiTyped DEF WifiInv, WifiTypes
    <2>2. wifiCalls' \in [Handle \cup Incoming -> {"none", "ringing", "live", "ended", "gone"}]
      BY <2>1 DEF WifiParts, WifiInv, WifiSlot, WifiRequest, Wifi!Frame, Wifi!Served, Wifi!Answers, Wifi!SomeLive,
             Wifi!Ends, Wifi!Quiet, Wifi!Trouble
    <2>3. wifiWorker' \in {"up", "rebuilding", "stopping", "clean", "unclean"}
      BY <2>1 DEF WifiParts, WifiInv, WifiSlot, WifiRequest, Wifi!Frame, Wifi!Served, Wifi!Answers, Wifi!SomeLive,
             Wifi!Ends, Wifi!Quiet, Wifi!Trouble
    <2>4. request' \in WifiRequests
      BY <2>1 DEF WifiParts, WifiInv, WifiSlot, WifiRequest, WifiRequests, Wifi!Frame, Wifi!Served, Wifi!Answers,
             Wifi!SomeLive, Wifi!Ends, Wifi!Quiet, Wifi!Trouble
    <2>5. slot' \in Handle \cup {Wifi!None}
      BY <2>1 DEF WifiParts, WifiInv, WifiSlot, WifiRequest, WifiRequests, Wifi!Frame, Wifi!Served, Wifi!Answers,
             Wifi!SomeLive, Wifi!Ends, Wifi!Quiet, Wifi!Trouble
    <2>6. stream' \in WifiStreams
      BY Zenon, <2>1 DEF WifiParts, WifiInv, WifiSlot, WifiRequest, WifiStreams, WifiClientele, WifiRequests,
         Wifi!Frame,
             Wifi!Served, Wifi!Answers, Wifi!SomeLive, Wifi!Ends, Wifi!Quiet, Wifi!Trouble
    <2>7. wire' \in [Handle -> WifiWires]
      BY Zenon, <2>1, WifiFields DEF WifiParts, Wifi!Frame, Wifi!Served, Wifi!Answers, Wifi!SomeLive, Wifi!Ends,
         Wifi!Quiet,
             Wifi!Trouble
    <2>8. client' \in [Handle -> WifiClientele]
      BY Zenon, <2>1, WifiFields DEF WifiParts, Wifi!Frame, Wifi!Served, Wifi!Answers, Wifi!SomeLive, Wifi!Ends,
         Wifi!Quiet,
             Wifi!Trouble
    <2>9. wifiTroubles' \in 0 .. WifiTroubles
      BY <2>1 DEF WifiParts, WifiInv, WifiSlot, WifiRequest, Wifi!VoiceStreamConstants, Wifi!Frame, Wifi!Served,
             Wifi!Answers, Wifi!SomeLive, Wifi!Ends, Wifi!Quiet, Wifi!Trouble
    <2> QED
      BY <2>2, <2>3, <2>4, <2>5, <2>6, <2>7, <2>8, <2>9, WifiTyped DEF WifiTypes, WifiParts
  <1>2. WifiSlot'
    <2>1. WifiParts
      BY WifiTyped DEF WifiInv, WifiTypes
    <2>2. slot \in Handle /\ stream \in WifiStreams /\ stream.at = "serve" /\ UNCHANGED <<slot, client>>
      BY <2>1 DEF WifiParts, WifiInv, WifiSlot, Wifi!Frame, Wifi!Served
    <2>3. /\ client[slot].at # "idle" /\ slot # Wifi!None
          /\ stream.call = client[slot].call \/ (client[slot].call = Wifi!None /\ stream.call = slot)
      BY <2>2 DEF WifiInv, WifiSlot, Wifi!VoiceStreamConstants
    <2>4. CASE stream.call = Wifi!None /\ stream' = [stream EXCEPT !.call = slot, !.fresh = FALSE]
      <3>1. stream'.at = "serve" /\ stream'.call = slot /\ client[slot].call = Wifi!None
        BY <2>2, <2>3, <2>4 DEF WifiStreams
      <3> QED
        BY <2>2, <2>3, <3>1 DEF WifiSlot
    <2>5. CASE stream' = [stream EXCEPT !.incoming = FALSE, !.fresh = FALSE]
      <3>1. stream'.at = "serve" /\ stream'.call = stream.call
        BY <2>2, <2>5 DEF WifiStreams
      <3> QED
        BY <2>2, <2>3, <3>1 DEF WifiSlot
    <2>6. CASE stream' = [stream EXCEPT !.at = "ending"]
      <3>1. stream'.at = "ending" /\ stream'.call = stream.call
        BY <2>2, <2>6 DEF WifiStreams
      <3> QED
        BY <2>2, <2>3, <3>1 DEF WifiSlot
    <2> QED
      BY <2>4, <2>5, <2>6 DEF Wifi!Frame, Wifi!Ends
  <1>3. WifiRequest'
    BY DEF WifiInv, WifiTypes, WifiSlot, WifiRequest, WifiClients, WifiClient, WifiHeld, Opens, Wifi!TypeOK,
           Wifi!SlotHeld, Wifi!Live, Wifi!WorkerRuns, Wifi!CallOf, Wifi!VoiceStreamConstants, Wifi!Frame, Wifi!Served,
           Wifi!Answers, Wifi!SomeLive, Wifi!Ends, Wifi!Quiet, Wifi!Trouble
  <1>4. ASSUME NEW g \in Handle
        PROVE  WifiClient(g)'
    BY DEF WifiInv, WifiTypes, WifiSlot, WifiRequest, WifiClients, WifiClient, WifiHeld, Opens, Wifi!TypeOK,
           Wifi!SlotHeld, Wifi!Live, Wifi!WorkerRuns, Wifi!CallOf, Wifi!VoiceStreamConstants, Wifi!Frame, Wifi!Served,
           Wifi!Answers, Wifi!SomeLive, Wifi!Ends, Wifi!Quiet, Wifi!Trouble
  <1>5. WifiHeld'
    <2>1. WifiParts
      BY WifiTyped DEF WifiInv, WifiTypes
    <2>2. slot \in Handle /\ stream \in WifiStreams /\ stream.at = "serve" /\ Wifi!WorkerRuns
      BY <2>1 DEF WifiParts, WifiInv, WifiSlot, Wifi!Frame, Wifi!Served
    <2>3. CASE /\ wifiCalls' = [wifiCalls EXCEPT ![slot] = "live"] /\ ~ Wifi!SomeLive
               /\ stream' = [stream EXCEPT !.call = slot, !.fresh = FALSE]
      <3>1. \A c \in DOMAIN wifiCalls : wifiCalls[c] # "live"
        BY <2>1, <2>3 DEF WifiParts, Wifi!SomeLive, Wifi!Live, Wifi!VoiceStreamConstants
      <3> QED
        BY <2>1, <2>2, <2>3, <3>1 DEF WifiParts, WifiStreams, WifiHeld, Wifi!SlotHeld
    <2>4. CASE /\ wifiCalls' = [wifiCalls EXCEPT ![stream.call] = "live"]
               /\ stream' = [stream EXCEPT !.incoming = FALSE, !.fresh = FALSE]
      BY <2>1, <2>2, <2>4 DEF WifiParts, WifiStreams, WifiHeld, WifiInv, Wifi!SlotHeld
    <2>5. CASE stream' = [stream EXCEPT !.at = "ending"] /\ UNCHANGED wifiCalls
      BY <2>1, <2>2, <2>5 DEF WifiParts, WifiStreams, WifiHeld, WifiInv, Wifi!SlotHeld
    <2> QED
      BY <2>3, <2>4, <2>5 DEF Wifi!Frame, Wifi!Ends
  <1> QED
    BY <1>1, <1>2, <1>3, <1>4, <1>5 DEF WifiInv, WifiClients

\* The stream sees its call over.
LEMMA WifiServeEnds ==
    ASSUME WifiInv, Wifi!VoiceStreamConstants,
           Wifi!ServeEnds
    PROVE  WifiInv'
  <1>1. WifiTypes'
    <2>1. WifiParts
      BY WifiTyped DEF WifiInv, WifiTypes
    <2>2. wifiCalls' \in [Handle \cup Incoming -> {"none", "ringing", "live", "ended", "gone"}]
      BY <2>1 DEF WifiParts, WifiInv, WifiSlot, WifiRequest, Wifi!ServeEnds, Wifi!Served, Wifi!Ends, Wifi!Answers,
             Wifi!Quiet
    <2>3. wifiWorker' \in {"up", "rebuilding", "stopping", "clean", "unclean"}
      BY <2>1 DEF WifiParts, WifiInv, WifiSlot, WifiRequest, Wifi!ServeEnds, Wifi!Served, Wifi!Ends, Wifi!Answers,
             Wifi!Quiet
    <2>4. request' \in WifiRequests
      BY <2>1 DEF WifiParts, WifiInv, WifiSlot, WifiRequest, WifiRequests, Wifi!ServeEnds, Wifi!Served, Wifi!Ends,
             Wifi!Answers, Wifi!Quiet
    <2>5. slot' \in Handle \cup {Wifi!None}
      BY <2>1 DEF WifiParts, WifiInv, WifiSlot, WifiRequest, WifiRequests, Wifi!ServeEnds, Wifi!Served, Wifi!Ends,
             Wifi!Answers, Wifi!Quiet
    <2>6. stream' \in WifiStreams
      BY <2>1 DEF WifiParts, WifiInv, WifiSlot, WifiRequest, WifiStreams, WifiClientele, WifiRequests, Wifi!ServeEnds,
             Wifi!Served, Wifi!Ends, Wifi!Answers, Wifi!Quiet
    <2>7. wire' \in [Handle -> WifiWires]
      BY Zenon, <2>1, WifiFields DEF WifiParts, Wifi!ServeEnds, Wifi!Served, Wifi!Ends, Wifi!Answers, Wifi!Quiet
    <2>8. client' \in [Handle -> WifiClientele]
      BY Zenon, <2>1, WifiFields DEF WifiParts, Wifi!ServeEnds, Wifi!Served, Wifi!Ends, Wifi!Answers, Wifi!Quiet
    <2>9. wifiTroubles' \in 0 .. WifiTroubles
      BY <2>1 DEF WifiParts, WifiInv, WifiSlot, WifiRequest, Wifi!VoiceStreamConstants, Wifi!ServeEnds, Wifi!Served,
             Wifi!Ends, Wifi!Answers, Wifi!Quiet
    <2> QED
      BY <2>2, <2>3, <2>4, <2>5, <2>6, <2>7, <2>8, <2>9, WifiTyped DEF WifiTypes, WifiParts
  <1>2. WifiSlot'
    BY DEF WifiInv, WifiTypes, WifiSlot, WifiRequest, WifiClients, WifiClient, WifiHeld, Opens, Wifi!TypeOK,
           Wifi!SlotHeld, Wifi!Live, Wifi!WorkerRuns, Wifi!CallOf, Wifi!VoiceStreamConstants, Wifi!ServeEnds,
           Wifi!Served, Wifi!Ends, Wifi!Answers, Wifi!Quiet
  <1>3. WifiRequest'
    BY DEF WifiInv, WifiTypes, WifiSlot, WifiRequest, WifiClients, WifiClient, WifiHeld, Opens, Wifi!TypeOK,
           Wifi!SlotHeld, Wifi!Live, Wifi!WorkerRuns, Wifi!CallOf, Wifi!VoiceStreamConstants, Wifi!ServeEnds,
           Wifi!Served, Wifi!Ends, Wifi!Answers, Wifi!Quiet
  <1>4. ASSUME NEW g \in Handle
        PROVE  WifiClient(g)'
    BY DEF WifiInv, WifiTypes, WifiSlot, WifiRequest, WifiClients, WifiClient, WifiHeld, Opens, Wifi!TypeOK,
           Wifi!SlotHeld, Wifi!Live, Wifi!WorkerRuns, Wifi!CallOf, Wifi!VoiceStreamConstants, Wifi!ServeEnds,
           Wifi!Served, Wifi!Ends, Wifi!Answers, Wifi!Quiet
  <1>5. WifiHeld'
    BY DEF WifiInv, WifiTypes, WifiSlot, WifiRequest, WifiClients, WifiClient, WifiHeld, Opens, Wifi!TypeOK,
           Wifi!SlotHeld, Wifi!Live, Wifi!WorkerRuns, Wifi!CallOf, Wifi!VoiceStreamConstants, Wifi!ServeEnds,
           Wifi!Served, Wifi!Ends, Wifi!Answers, Wifi!Quiet
  <1> QED
    BY <1>1, <1>2, <1>3, <1>4, <1>5 DEF WifiInv, WifiClients

\* The sound fails.
LEMMA WifiMediaFails ==
    ASSUME WifiInv, Wifi!VoiceStreamConstants,
           Wifi!MediaFails
    PROVE  WifiInv'
  <1>1. WifiTypes'
    <2>1. WifiParts
      BY WifiTyped DEF WifiInv, WifiTypes
    <2>2. wifiCalls' \in [Handle \cup Incoming -> {"none", "ringing", "live", "ended", "gone"}]
      BY <2>1 DEF WifiParts, WifiInv, WifiSlot, WifiRequest, Wifi!MediaFails, Wifi!Served, Wifi!Ends, Wifi!Trouble
    <2>3. wifiWorker' \in {"up", "rebuilding", "stopping", "clean", "unclean"}
      BY <2>1 DEF WifiParts, WifiInv, WifiSlot, WifiRequest, Wifi!MediaFails, Wifi!Served, Wifi!Ends, Wifi!Trouble
    <2>4. request' \in WifiRequests
      BY <2>1 DEF WifiParts, WifiInv, WifiSlot, WifiRequest, WifiRequests, Wifi!MediaFails, Wifi!Served, Wifi!Ends,
             Wifi!Trouble
    <2>5. slot' \in Handle \cup {Wifi!None}
      BY <2>1 DEF WifiParts, WifiInv, WifiSlot, WifiRequest, WifiRequests, Wifi!MediaFails, Wifi!Served, Wifi!Ends,
             Wifi!Trouble
    <2>6. stream' \in WifiStreams
      BY <2>1 DEF WifiParts, WifiInv, WifiSlot, WifiRequest, WifiStreams, WifiClientele, WifiRequests,
             Wifi!MediaFails, Wifi!Served, Wifi!Ends, Wifi!Trouble
    <2>7. wire' \in [Handle -> WifiWires]
      BY Zenon, <2>1, WifiFields DEF WifiParts, Wifi!MediaFails, Wifi!Served, Wifi!Ends, Wifi!Trouble
    <2>8. client' \in [Handle -> WifiClientele]
      BY Zenon, <2>1, WifiFields DEF WifiParts, Wifi!MediaFails, Wifi!Served, Wifi!Ends, Wifi!Trouble
    <2>9. wifiTroubles' \in 0 .. WifiTroubles
      BY <2>1 DEF WifiParts, WifiInv, WifiSlot, WifiRequest, Wifi!VoiceStreamConstants, Wifi!MediaFails, Wifi!Served,
             Wifi!Ends, Wifi!Trouble
    <2> QED
      BY <2>2, <2>3, <2>4, <2>5, <2>6, <2>7, <2>8, <2>9, WifiTyped DEF WifiTypes, WifiParts
  <1>2. WifiSlot'
    BY DEF WifiInv, WifiTypes, WifiSlot, WifiRequest, WifiClients, WifiClient, WifiHeld, Opens, Wifi!TypeOK,
           Wifi!SlotHeld, Wifi!Live, Wifi!WorkerRuns, Wifi!CallOf, Wifi!VoiceStreamConstants, Wifi!MediaFails,
           Wifi!Served, Wifi!Ends, Wifi!Trouble
  <1>3. WifiRequest'
    BY DEF WifiInv, WifiTypes, WifiSlot, WifiRequest, WifiClients, WifiClient, WifiHeld, Opens, Wifi!TypeOK,
           Wifi!SlotHeld, Wifi!Live, Wifi!WorkerRuns, Wifi!CallOf, Wifi!VoiceStreamConstants, Wifi!MediaFails,
           Wifi!Served, Wifi!Ends, Wifi!Trouble
  <1>4. ASSUME NEW g \in Handle
        PROVE  WifiClient(g)'
    BY DEF WifiInv, WifiTypes, WifiSlot, WifiRequest, WifiClients, WifiClient, WifiHeld, Opens, Wifi!TypeOK,
           Wifi!SlotHeld, Wifi!Live, Wifi!WorkerRuns, Wifi!CallOf, Wifi!VoiceStreamConstants, Wifi!MediaFails,
           Wifi!Served, Wifi!Ends, Wifi!Trouble
  <1>5. WifiHeld'
    BY DEF WifiInv, WifiTypes, WifiSlot, WifiRequest, WifiClients, WifiClient, WifiHeld, Opens, Wifi!TypeOK,
           Wifi!SlotHeld, Wifi!Live, Wifi!WorkerRuns, Wifi!CallOf, Wifi!VoiceStreamConstants, Wifi!MediaFails,
           Wifi!Served, Wifi!Ends, Wifi!Trouble
  <1> QED
    BY <1>1, <1>2, <1>3, <1>4, <1>5 DEF WifiInv, WifiClients

\* The call is ended.
LEMMA WifiTerminate ==
    ASSUME WifiInv, Wifi!VoiceStreamConstants,
           Wifi!Terminate
    PROVE  WifiInv'
  <1>1. WifiTypes'
    <2>1. WifiParts
      BY WifiTyped DEF WifiInv, WifiTypes
    <2>2. wifiCalls' \in [Handle \cup Incoming -> {"none", "ringing", "live", "ended", "gone"}]
      BY <2>1 DEF WifiParts, WifiInv, WifiSlot, WifiRequest, Wifi!Terminate, Wifi!Answers, Wifi!Quiet
    <2>3. wifiWorker' \in {"up", "rebuilding", "stopping", "clean", "unclean"}
      BY <2>1 DEF WifiParts, WifiInv, WifiSlot, WifiRequest, Wifi!Terminate, Wifi!Answers, Wifi!Quiet
    <2>4. request' \in WifiRequests
      BY <2>1 DEF WifiParts, WifiInv, WifiSlot, WifiRequest, WifiRequests, Wifi!Terminate, Wifi!Answers, Wifi!Quiet
    <2>5. slot' \in Handle \cup {Wifi!None}
      BY <2>1 DEF WifiParts, WifiInv, WifiSlot, WifiRequest, WifiRequests, Wifi!Terminate, Wifi!Answers, Wifi!Quiet
    <2>6. stream' \in WifiStreams
      BY <2>1 DEF WifiParts, WifiInv, WifiSlot, WifiRequest, WifiStreams, WifiClientele, WifiRequests, Wifi!Terminate,
             Wifi!Answers, Wifi!Quiet
    <2>7. wire' \in [Handle -> WifiWires]
      BY Zenon, <2>1, WifiFields DEF WifiParts, Wifi!Terminate, Wifi!Answers, Wifi!Quiet
    <2>8. client' \in [Handle -> WifiClientele]
      BY Zenon, <2>1, WifiFields DEF WifiParts, Wifi!Terminate, Wifi!Answers, Wifi!Quiet
    <2>9. wifiTroubles' \in 0 .. WifiTroubles
      BY <2>1 DEF WifiParts, WifiInv, WifiSlot, WifiRequest, Wifi!VoiceStreamConstants, Wifi!Terminate, Wifi!Answers,
             Wifi!Quiet
    <2> QED
      BY <2>2, <2>3, <2>4, <2>5, <2>6, <2>7, <2>8, <2>9, WifiTyped DEF WifiTypes, WifiParts
  <1>2. WifiSlot'
    BY DEF WifiInv, WifiTypes, WifiSlot, WifiRequest, WifiClients, WifiClient, WifiHeld, Opens, Wifi!TypeOK,
           Wifi!SlotHeld, Wifi!Live, Wifi!WorkerRuns, Wifi!CallOf, Wifi!VoiceStreamConstants, Wifi!Terminate,
           Wifi!Answers, Wifi!Quiet
  <1>3. WifiRequest'
    BY DEF WifiInv, WifiTypes, WifiSlot, WifiRequest, WifiClients, WifiClient, WifiHeld, Opens, Wifi!TypeOK,
           Wifi!SlotHeld, Wifi!Live, Wifi!WorkerRuns, Wifi!CallOf, Wifi!VoiceStreamConstants, Wifi!Terminate,
           Wifi!Answers, Wifi!Quiet
  <1>4. ASSUME NEW g \in Handle
        PROVE  WifiClient(g)'
    BY DEF WifiInv, WifiTypes, WifiSlot, WifiRequest, WifiClients, WifiClient, WifiHeld, Opens, Wifi!TypeOK,
           Wifi!SlotHeld, Wifi!Live, Wifi!WorkerRuns, Wifi!CallOf, Wifi!VoiceStreamConstants, Wifi!Terminate,
           Wifi!Answers, Wifi!Quiet
  <1>5. WifiHeld'
    BY DEF WifiInv, WifiTypes, WifiSlot, WifiRequest, WifiClients, WifiClient, WifiHeld, Opens, Wifi!TypeOK,
           Wifi!SlotHeld, Wifi!Live, Wifi!WorkerRuns, Wifi!CallOf, Wifi!VoiceStreamConstants, Wifi!Terminate,
           Wifi!Answers, Wifi!Quiet
  <1> QED
    BY <1>1, <1>2, <1>3, <1>4, <1>5 DEF WifiInv, WifiClients

\* The stream is over.
LEMMA WifiServeReturns ==
    ASSUME WifiInv, Wifi!VoiceStreamConstants,
           Wifi!ServeReturns
    PROVE  WifiInv'
  <1>1. WifiTypes'
    <2>1. WifiParts
      BY WifiTyped DEF WifiInv, WifiTypes
    <2>2. wifiCalls' \in [Handle \cup Incoming -> {"none", "ringing", "live", "ended", "gone"}]
      BY <2>1 DEF WifiParts, WifiInv, WifiSlot, WifiRequest, Wifi!ServeReturns, Wifi!Confirmed, Wifi!Answers,
             Wifi!NoStream, Wifi!Quiet
    <2>3. wifiWorker' \in {"up", "rebuilding", "stopping", "clean", "unclean"}
      BY <2>1 DEF WifiParts, WifiInv, WifiSlot, WifiRequest, Wifi!ServeReturns, Wifi!Confirmed, Wifi!Answers,
             Wifi!NoStream, Wifi!Quiet
    <2>4. request' \in WifiRequests
      BY <2>1 DEF WifiParts, WifiInv, WifiSlot, WifiRequest, WifiRequests, Wifi!ServeReturns, Wifi!Confirmed,
             Wifi!Answers, Wifi!NoStream, Wifi!Quiet
    <2>5. slot' \in Handle \cup {Wifi!None}
      BY <2>1 DEF WifiParts, WifiInv, WifiSlot, WifiRequest, WifiRequests, Wifi!ServeReturns, Wifi!Confirmed,
             Wifi!Answers, Wifi!NoStream, Wifi!Quiet
    <2>6. stream' \in WifiStreams
      BY <2>1 DEF WifiParts, WifiInv, WifiSlot, WifiRequest, WifiStreams, WifiClientele, WifiRequests,
             Wifi!ServeReturns, Wifi!Confirmed, Wifi!Answers, Wifi!NoStream, Wifi!Quiet
    <2>7. wire' \in [Handle -> WifiWires]
      <3>1. slot \in Handle
        BY <2>1 DEF WifiParts, WifiInv, WifiSlot, Wifi!ServeReturns
      <3>2. CASE wire' = [wire EXCEPT ![slot].worker = FALSE]
        BY Zenon, <2>1, <3>1, <3>2, WifiFields DEF WifiParts
      <3>3. CASE wire' = [wire EXCEPT ![slot].worker = FALSE,
                                      ![slot].sent = IF wire[slot].program THEN "ended" ELSE @]
        <4>1. CASE wire[slot].program
          BY Zenon, <2>1, <3>1, <3>3, <4>1, WifiFields DEF WifiParts
        <4>2. CASE ~ wire[slot].program
          BY Zenon, <2>1, <3>1, <3>3, <4>2, WifiFields DEF WifiParts
        <4> QED
          BY <4>1, <4>2
      <3> QED
        BY <3>2, <3>3 DEF Wifi!ServeReturns
    <2>8. client' \in [Handle -> WifiClientele]
      BY Zenon, <2>1, WifiFields DEF WifiParts, Wifi!ServeReturns, Wifi!Confirmed, Wifi!Answers, Wifi!NoStream,
         Wifi!Quiet
    <2>9. wifiTroubles' \in 0 .. WifiTroubles
      BY <2>1 DEF WifiParts, WifiInv, WifiSlot, WifiRequest, Wifi!VoiceStreamConstants, Wifi!ServeReturns,
             Wifi!Confirmed, Wifi!Answers, Wifi!NoStream, Wifi!Quiet
    <2> QED
      BY <2>2, <2>3, <2>4, <2>5, <2>6, <2>7, <2>8, <2>9, WifiTyped DEF WifiTypes, WifiParts
  <1>2. WifiSlot'
    BY DEF WifiInv, WifiTypes, WifiSlot, WifiRequest, WifiClients, WifiClient, WifiHeld, Opens, Wifi!TypeOK,
           Wifi!SlotHeld, Wifi!Live, Wifi!WorkerRuns, Wifi!CallOf, Wifi!VoiceStreamConstants, Wifi!ServeReturns,
           Wifi!Confirmed, Wifi!Answers, Wifi!NoStream, Wifi!Quiet
  <1>3. WifiRequest'
    BY DEF WifiInv, WifiTypes, WifiSlot, WifiRequest, WifiClients, WifiClient, WifiHeld, Opens, Wifi!TypeOK,
           Wifi!SlotHeld, Wifi!Live, Wifi!WorkerRuns, Wifi!CallOf, Wifi!VoiceStreamConstants, Wifi!ServeReturns,
           Wifi!Confirmed, Wifi!Answers, Wifi!NoStream, Wifi!Quiet
  <1>4. ASSUME NEW g \in Handle
        PROVE  WifiClient(g)'
    <2>1. WifiParts
      BY WifiTyped DEF WifiInv, WifiTypes
    <2>2. slot \in Handle /\ stream \in WifiStreams /\ stream.at = "ending" /\ wire \in [Handle -> WifiWires]
      BY <2>1 DEF WifiParts, WifiInv, WifiSlot, Wifi!ServeReturns
    <2>3. slot' = Wifi!None /\ UNCHANGED <<wifiCalls, wifiWorker, client>>
      BY DEF Wifi!ServeReturns
    <2>4. wire'[g].sent = wire[g].sent \/ (g = slot /\ wire'[g].sent = "ended" /\ Wifi!Confirmed)
                                      \/ (g = slot /\ ~ Wifi!WorkerRuns)
      <3>1. CASE ~ Wifi!WorkerRuns /\ wire' = [wire EXCEPT ![slot].worker = FALSE]
        BY <2>2, <3>1 DEF WifiWires
      <3>2. CASE /\ Wifi!Confirmed
                 /\ wire' = [wire EXCEPT ![slot].worker = FALSE,
                                         ![slot].sent = IF wire[slot].program THEN "ended" ELSE @]
        <4>1. CASE g # slot
          BY <2>2, <3>2, <4>1 DEF WifiWires
        <4>2. CASE g = slot
          BY <2>2, <3>2, <4>2 DEF WifiWires
        <4> QED
          BY <4>1, <4>2
      <3> QED
        BY <3>1, <3>2 DEF Wifi!ServeReturns
    <2>5. Wifi!Confirmed /\ Wifi!WorkerRuns => ~ Wifi!Live(Wifi!CallOf(slot))
      <3>1. SUFFICES ASSUME Wifi!Confirmed, Wifi!WorkerRuns
                     PROVE  ~ Wifi!Live(Wifi!CallOf(slot))
        OBVIOUS
      <3>2. stream.call = client[slot].call \/ (client[slot].call = Wifi!None /\ stream.call = slot)
        BY <2>2 DEF WifiInv, WifiSlot, Wifi!VoiceStreamConstants
      <3>3. CASE stream.call # Wifi!None
        BY <3>1, <3>2, <3>3 DEF Wifi!Confirmed, Wifi!CallOf
      <3>4. CASE stream.call = Wifi!None
        <4>1. Wifi!CallOf(slot) = slot
          BY <2>2, <3>2, <3>4 DEF Wifi!CallOf, Wifi!VoiceStreamConstants
        <4>2. wifiCalls[slot] # "ringing"
          BY <2>2 DEF WifiInv, WifiClients, WifiClient
        <4>3. wifiCalls[slot] # "live"
          BY <2>1, <2>2, <3>1, <3>4 DEF WifiParts, WifiInv, WifiHeld, Wifi!SlotHeld, Wifi!VoiceStreamConstants
        <4> QED
          BY <4>1, <4>2, <4>3 DEF Wifi!Live
      <3> QED
        BY <3>3, <3>4
    <2>6. client[slot].at # "idle"
      BY <2>2 DEF WifiInv, WifiSlot, Wifi!VoiceStreamConstants
    <2>7. WifiClient(g)
      BY DEF WifiInv, WifiClients
    <2>8. Wifi!Live(Wifi!CallOf(g))' = Wifi!Live(Wifi!CallOf(g)) /\ Wifi!WorkerRuns' = Wifi!WorkerRuns
      BY <2>3 DEF Wifi!Live, Wifi!CallOf, Wifi!WorkerRuns
    <2>9. slot' # g
      BY <2>3 DEF Wifi!VoiceStreamConstants
    <2>10. Wifi!CallOf(g)' = Wifi!CallOf(g)
      BY <2>3 DEF Wifi!CallOf
    <2>11. Wifi!WorkerRuns /\ (client[g].at = "released" \/ client[g].seen = "ended" \/ wire'[g].sent = "ended")
             => ~ Wifi!Live(Wifi!CallOf(g))
      BY <2>4, <2>5, <2>7 DEF WifiClient
    <2>12. client[g].at = "idle" => wire'[g].sent = "none"
      BY <2>4, <2>6, <2>7 DEF WifiClient
    <2> QED
      BY <2>3, <2>7, <2>8, <2>9, <2>11, <2>12 DEF WifiClient
  <1>5. WifiHeld'
    BY DEF WifiInv, WifiTypes, WifiSlot, WifiRequest, WifiClients, WifiClient, WifiHeld, Opens, Wifi!TypeOK,
           Wifi!SlotHeld, Wifi!Live, Wifi!WorkerRuns, Wifi!CallOf, Wifi!VoiceStreamConstants, Wifi!ServeReturns,
           Wifi!Confirmed, Wifi!Answers, Wifi!NoStream, Wifi!Quiet
  <1> QED
    BY <1>1, <1>2, <1>3, <1>4, <1>5 DEF WifiInv, WifiClients

\* The worker stops its stream.
LEMMA WifiStreamStops ==
    ASSUME WifiInv, Wifi!VoiceStreamConstants,
           Wifi!StreamStops
    PROVE  WifiInv'
  <1>1. WifiTypes'
    <2>1. WifiParts
      BY WifiTyped DEF WifiInv, WifiTypes
    <2>2. wifiCalls' \in [Handle \cup Incoming -> {"none", "ringing", "live", "ended", "gone"}]
      BY <2>1 DEF WifiParts, WifiInv, WifiSlot, WifiRequest, Wifi!StreamStops, Wifi!Ends, Wifi!Quiet
    <2>3. wifiWorker' \in {"up", "rebuilding", "stopping", "clean", "unclean"}
      BY <2>1 DEF WifiParts, WifiInv, WifiSlot, WifiRequest, Wifi!StreamStops, Wifi!Ends, Wifi!Quiet
    <2>4. request' \in WifiRequests
      BY <2>1 DEF WifiParts, WifiInv, WifiSlot, WifiRequest, WifiRequests, Wifi!StreamStops, Wifi!Ends, Wifi!Quiet
    <2>5. slot' \in Handle \cup {Wifi!None}
      BY <2>1 DEF WifiParts, WifiInv, WifiSlot, WifiRequest, WifiRequests, Wifi!StreamStops, Wifi!Ends, Wifi!Quiet
    <2>6. stream' \in WifiStreams
      BY <2>1 DEF WifiParts, WifiInv, WifiSlot, WifiRequest, WifiStreams, WifiClientele, WifiRequests,
             Wifi!StreamStops, Wifi!Ends, Wifi!Quiet
    <2>7. wire' \in [Handle -> WifiWires]
      BY Zenon, <2>1, WifiFields DEF WifiParts, Wifi!StreamStops, Wifi!Ends, Wifi!Quiet
    <2>8. client' \in [Handle -> WifiClientele]
      BY Zenon, <2>1, WifiFields DEF WifiParts, Wifi!StreamStops, Wifi!Ends, Wifi!Quiet
    <2>9. wifiTroubles' \in 0 .. WifiTroubles
      BY <2>1 DEF WifiParts, WifiInv, WifiSlot, WifiRequest, Wifi!VoiceStreamConstants, Wifi!StreamStops, Wifi!Ends,
             Wifi!Quiet
    <2> QED
      BY <2>2, <2>3, <2>4, <2>5, <2>6, <2>7, <2>8, <2>9, WifiTyped DEF WifiTypes, WifiParts
  <1>2. WifiSlot'
    BY DEF WifiInv, WifiTypes, WifiSlot, WifiRequest, WifiClients, WifiClient, WifiHeld, Opens, Wifi!TypeOK,
           Wifi!SlotHeld, Wifi!Live, Wifi!WorkerRuns, Wifi!CallOf, Wifi!VoiceStreamConstants, Wifi!StreamStops,
           Wifi!Ends, Wifi!Quiet
  <1>3. WifiRequest'
    BY DEF WifiInv, WifiTypes, WifiSlot, WifiRequest, WifiClients, WifiClient, WifiHeld, Opens, Wifi!TypeOK,
           Wifi!SlotHeld, Wifi!Live, Wifi!WorkerRuns, Wifi!CallOf, Wifi!VoiceStreamConstants, Wifi!StreamStops,
           Wifi!Ends, Wifi!Quiet
  <1>4. ASSUME NEW g \in Handle
        PROVE  WifiClient(g)'
    BY DEF WifiInv, WifiTypes, WifiSlot, WifiRequest, WifiClients, WifiClient, WifiHeld, Opens, Wifi!TypeOK,
           Wifi!SlotHeld, Wifi!Live, Wifi!WorkerRuns, Wifi!CallOf, Wifi!VoiceStreamConstants, Wifi!StreamStops,
           Wifi!Ends, Wifi!Quiet
  <1>5. WifiHeld'
    BY DEF WifiInv, WifiTypes, WifiSlot, WifiRequest, WifiClients, WifiClient, WifiHeld, Opens, Wifi!TypeOK,
           Wifi!SlotHeld, Wifi!Live, Wifi!WorkerRuns, Wifi!CallOf, Wifi!VoiceStreamConstants, Wifi!StreamStops,
           Wifi!Ends, Wifi!Quiet
  <1> QED
    BY <1>1, <1>2, <1>3, <1>4, <1>5 DEF WifiInv, WifiClients

\* A call comes in.
LEMMA WifiCarrierRings ==
    ASSUME WifiInv, Wifi!VoiceStreamConstants,
           NEW c \in Incoming, Wifi!CarrierRings(c)
    PROVE  WifiInv'
  <1>1. WifiTypes'
    <2>1. WifiParts
      BY WifiTyped DEF WifiInv, WifiTypes
    <2>2. wifiCalls' \in [Handle \cup Incoming -> {"none", "ringing", "live", "ended", "gone"}]
      BY <2>1 DEF WifiParts, WifiInv, WifiSlot, WifiRequest, Wifi!CarrierRings, Wifi!Answers, Wifi!Quiet
    <2>3. wifiWorker' \in {"up", "rebuilding", "stopping", "clean", "unclean"}
      BY <2>1 DEF WifiParts, WifiInv, WifiSlot, WifiRequest, Wifi!CarrierRings, Wifi!Answers, Wifi!Quiet
    <2>4. request' \in WifiRequests
      BY <2>1 DEF WifiParts, WifiInv, WifiSlot, WifiRequest, WifiRequests, Wifi!CarrierRings, Wifi!Answers, Wifi!Quiet
    <2>5. slot' \in Handle \cup {Wifi!None}
      BY <2>1 DEF WifiParts, WifiInv, WifiSlot, WifiRequest, WifiRequests, Wifi!CarrierRings, Wifi!Answers, Wifi!Quiet
    <2>6. stream' \in WifiStreams
      BY <2>1 DEF WifiParts, WifiInv, WifiSlot, WifiRequest, WifiStreams, WifiClientele, WifiRequests,
             Wifi!CarrierRings, Wifi!Answers, Wifi!Quiet
    <2>7. wire' \in [Handle -> WifiWires]
      BY Zenon, <2>1, WifiFields DEF WifiParts, Wifi!CarrierRings, Wifi!Answers, Wifi!Quiet
    <2>8. client' \in [Handle -> WifiClientele]
      BY Zenon, <2>1, WifiFields DEF WifiParts, Wifi!CarrierRings, Wifi!Answers, Wifi!Quiet
    <2>9. wifiTroubles' \in 0 .. WifiTroubles
      BY <2>1 DEF WifiParts, WifiInv, WifiSlot, WifiRequest, Wifi!VoiceStreamConstants, Wifi!CarrierRings,
             Wifi!Answers, Wifi!Quiet
    <2> QED
      BY <2>2, <2>3, <2>4, <2>5, <2>6, <2>7, <2>8, <2>9, WifiTyped DEF WifiTypes, WifiParts
  <1>2. WifiSlot'
    BY DEF WifiInv, WifiTypes, WifiSlot, WifiRequest, WifiClients, WifiClient, WifiHeld, Opens, Wifi!TypeOK,
           Wifi!SlotHeld, Wifi!Live, Wifi!WorkerRuns, Wifi!CallOf, Wifi!VoiceStreamConstants, Wifi!CarrierRings,
           Wifi!Answers, Wifi!Quiet
  <1>3. WifiRequest'
    BY DEF WifiInv, WifiTypes, WifiSlot, WifiRequest, WifiClients, WifiClient, WifiHeld, Opens, Wifi!TypeOK,
           Wifi!SlotHeld, Wifi!Live, Wifi!WorkerRuns, Wifi!CallOf, Wifi!VoiceStreamConstants, Wifi!CarrierRings,
           Wifi!Answers, Wifi!Quiet
  <1>4. ASSUME NEW g \in Handle
        PROVE  WifiClient(g)'
    BY DEF WifiInv, WifiTypes, WifiSlot, WifiRequest, WifiClients, WifiClient, WifiHeld, Opens, Wifi!TypeOK,
           Wifi!SlotHeld, Wifi!Live, Wifi!WorkerRuns, Wifi!CallOf, Wifi!VoiceStreamConstants, Wifi!CarrierRings,
           Wifi!Answers, Wifi!Quiet
  <1>5. WifiHeld'
    BY DEF WifiInv, WifiTypes, WifiSlot, WifiRequest, WifiClients, WifiClient, WifiHeld, Opens, Wifi!TypeOK,
           Wifi!SlotHeld, Wifi!Live, Wifi!WorkerRuns, Wifi!CallOf, Wifi!VoiceStreamConstants, Wifi!CarrierRings,
           Wifi!Answers, Wifi!Quiet
  <1> QED
    BY <1>1, <1>2, <1>3, <1>4, <1>5 DEF WifiInv, WifiClients

\* The carrier ends a call.
LEMMA WifiCarrierEnds ==
    ASSUME WifiInv, Wifi!VoiceStreamConstants,
           NEW c \in Handle \cup Incoming, Wifi!CarrierEnds(c)
    PROVE  WifiInv'
  <1>1. WifiTypes'
    <2>1. WifiParts
      BY WifiTyped DEF WifiInv, WifiTypes
    <2>2. wifiCalls' \in [Handle \cup Incoming -> {"none", "ringing", "live", "ended", "gone"}]
      BY <2>1 DEF WifiParts, WifiInv, WifiSlot, WifiRequest, Wifi!CarrierEnds, Wifi!Answers, Wifi!Quiet
    <2>3. wifiWorker' \in {"up", "rebuilding", "stopping", "clean", "unclean"}
      BY <2>1 DEF WifiParts, WifiInv, WifiSlot, WifiRequest, Wifi!CarrierEnds, Wifi!Answers, Wifi!Quiet
    <2>4. request' \in WifiRequests
      BY <2>1 DEF WifiParts, WifiInv, WifiSlot, WifiRequest, WifiRequests, Wifi!CarrierEnds, Wifi!Answers, Wifi!Quiet
    <2>5. slot' \in Handle \cup {Wifi!None}
      BY <2>1 DEF WifiParts, WifiInv, WifiSlot, WifiRequest, WifiRequests, Wifi!CarrierEnds, Wifi!Answers, Wifi!Quiet
    <2>6. stream' \in WifiStreams
      BY <2>1 DEF WifiParts, WifiInv, WifiSlot, WifiRequest, WifiStreams, WifiClientele, WifiRequests,
             Wifi!CarrierEnds, Wifi!Answers, Wifi!Quiet
    <2>7. wire' \in [Handle -> WifiWires]
      BY Zenon, <2>1, WifiFields DEF WifiParts, Wifi!CarrierEnds, Wifi!Answers, Wifi!Quiet
    <2>8. client' \in [Handle -> WifiClientele]
      BY Zenon, <2>1, WifiFields DEF WifiParts, Wifi!CarrierEnds, Wifi!Answers, Wifi!Quiet
    <2>9. wifiTroubles' \in 0 .. WifiTroubles
      BY <2>1 DEF WifiParts, WifiInv, WifiSlot, WifiRequest, Wifi!VoiceStreamConstants, Wifi!CarrierEnds,
             Wifi!Answers, Wifi!Quiet
    <2> QED
      BY <2>2, <2>3, <2>4, <2>5, <2>6, <2>7, <2>8, <2>9, WifiTyped DEF WifiTypes, WifiParts
  <1>2. WifiSlot'
    BY DEF WifiInv, WifiTypes, WifiSlot, WifiRequest, WifiClients, WifiClient, WifiHeld, Opens, Wifi!TypeOK,
           Wifi!SlotHeld, Wifi!Live, Wifi!WorkerRuns, Wifi!CallOf, Wifi!VoiceStreamConstants, Wifi!CarrierEnds,
           Wifi!Answers, Wifi!Quiet
  <1>3. WifiRequest'
    BY DEF WifiInv, WifiTypes, WifiSlot, WifiRequest, WifiClients, WifiClient, WifiHeld, Opens, Wifi!TypeOK,
           Wifi!SlotHeld, Wifi!Live, Wifi!WorkerRuns, Wifi!CallOf, Wifi!VoiceStreamConstants, Wifi!CarrierEnds,
           Wifi!Answers, Wifi!Quiet
  <1>4. ASSUME NEW g \in Handle
        PROVE  WifiClient(g)'
    BY DEF WifiInv, WifiTypes, WifiSlot, WifiRequest, WifiClients, WifiClient, WifiHeld, Opens, Wifi!TypeOK,
           Wifi!SlotHeld, Wifi!Live, Wifi!WorkerRuns, Wifi!CallOf, Wifi!VoiceStreamConstants, Wifi!CarrierEnds,
           Wifi!Answers, Wifi!Quiet
  <1>5. WifiHeld'
    BY DEF WifiInv, WifiTypes, WifiSlot, WifiRequest, WifiClients, WifiClient, WifiHeld, Opens, Wifi!TypeOK,
           Wifi!SlotHeld, Wifi!Live, Wifi!WorkerRuns, Wifi!CallOf, Wifi!VoiceStreamConstants, Wifi!CarrierEnds,
           Wifi!Answers, Wifi!Quiet
  <1> QED
    BY <1>1, <1>2, <1>3, <1>4, <1>5 DEF WifiInv, WifiClients

\* The session fails.
LEMMA WifiSessionFails ==
    ASSUME WifiInv, Wifi!VoiceStreamConstants,
           Wifi!SessionFails
    PROVE  WifiInv'
  <1>1. WifiTypes'
    <2>1. WifiParts
      BY WifiTyped DEF WifiInv, WifiTypes
    <2>2. wifiCalls' \in [Handle \cup Incoming -> {"none", "ringing", "live", "ended", "gone"}]
      BY <2>1 DEF WifiParts, WifiInv, WifiSlot, WifiRequest, Wifi!SessionFails, Wifi!Trouble
    <2>3. wifiWorker' \in {"up", "rebuilding", "stopping", "clean", "unclean"}
      BY <2>1 DEF WifiParts, WifiInv, WifiSlot, WifiRequest, Wifi!SessionFails, Wifi!Trouble
    <2>4. request' \in WifiRequests
      BY <2>1 DEF WifiParts, WifiInv, WifiSlot, WifiRequest, WifiRequests, Wifi!SessionFails, Wifi!Trouble
    <2>5. slot' \in Handle \cup {Wifi!None}
      BY <2>1 DEF WifiParts, WifiInv, WifiSlot, WifiRequest, WifiRequests, Wifi!SessionFails, Wifi!Trouble
    <2>6. stream' \in WifiStreams
      BY <2>1 DEF WifiParts, WifiInv, WifiSlot, WifiRequest, WifiStreams, WifiClientele, WifiRequests,
             Wifi!SessionFails, Wifi!Trouble
    <2>7. wire' \in [Handle -> WifiWires]
      BY Zenon, <2>1, WifiFields DEF WifiParts, Wifi!SessionFails, Wifi!Trouble
    <2>8. client' \in [Handle -> WifiClientele]
      BY Zenon, <2>1, WifiFields DEF WifiParts, Wifi!SessionFails, Wifi!Trouble
    <2>9. wifiTroubles' \in 0 .. WifiTroubles
      BY <2>1 DEF WifiParts, WifiInv, WifiSlot, WifiRequest, Wifi!VoiceStreamConstants, Wifi!SessionFails,
             Wifi!Trouble
    <2> QED
      BY <2>2, <2>3, <2>4, <2>5, <2>6, <2>7, <2>8, <2>9, WifiTyped DEF WifiTypes, WifiParts
  <1>2. WifiSlot'
    BY DEF WifiInv, WifiTypes, WifiSlot, WifiRequest, WifiClients, WifiClient, WifiHeld, Opens, Wifi!TypeOK,
           Wifi!SlotHeld, Wifi!Live, Wifi!WorkerRuns, Wifi!CallOf, Wifi!VoiceStreamConstants, Wifi!SessionFails,
           Wifi!Trouble
  <1>3. WifiRequest'
    BY DEF WifiInv, WifiTypes, WifiSlot, WifiRequest, WifiClients, WifiClient, WifiHeld, Opens, Wifi!TypeOK,
           Wifi!SlotHeld, Wifi!Live, Wifi!WorkerRuns, Wifi!CallOf, Wifi!VoiceStreamConstants, Wifi!SessionFails,
           Wifi!Trouble
  <1>4. ASSUME NEW g \in Handle
        PROVE  WifiClient(g)'
    BY DEF WifiInv, WifiTypes, WifiSlot, WifiRequest, WifiClients, WifiClient, WifiHeld, Opens, Wifi!TypeOK,
           Wifi!SlotHeld, Wifi!Live, Wifi!WorkerRuns, Wifi!CallOf, Wifi!VoiceStreamConstants, Wifi!SessionFails,
           Wifi!Trouble
  <1>5. WifiHeld'
    BY DEF WifiInv, WifiTypes, WifiSlot, WifiRequest, WifiClients, WifiClient, WifiHeld, Opens, Wifi!TypeOK,
           Wifi!SlotHeld, Wifi!Live, Wifi!WorkerRuns, Wifi!CallOf, Wifi!VoiceStreamConstants, Wifi!SessionFails,
           Wifi!Trouble
  <1> QED
    BY <1>1, <1>2, <1>3, <1>4, <1>5 DEF WifiInv, WifiClients

\* The session is built again.
LEMMA WifiSessionBack ==
    ASSUME WifiInv, Wifi!VoiceStreamConstants,
           Wifi!SessionBack
    PROVE  WifiInv'
  <1>1. WifiTypes'
    <2>1. WifiParts
      BY WifiTyped DEF WifiInv, WifiTypes
    <2>2. wifiCalls' \in [Handle \cup Incoming -> {"none", "ringing", "live", "ended", "gone"}]
      BY <2>1 DEF WifiParts, WifiInv, WifiSlot, WifiRequest, Wifi!SessionBack, Wifi!Gone, Wifi!Quiet
    <2>3. wifiWorker' \in {"up", "rebuilding", "stopping", "clean", "unclean"}
      BY <2>1 DEF WifiParts, WifiInv, WifiSlot, WifiRequest, Wifi!SessionBack, Wifi!Gone, Wifi!Quiet
    <2>4. request' \in WifiRequests
      BY <2>1 DEF WifiParts, WifiInv, WifiSlot, WifiRequest, WifiRequests, Wifi!SessionBack, Wifi!Gone, Wifi!Quiet
    <2>5. slot' \in Handle \cup {Wifi!None}
      BY <2>1 DEF WifiParts, WifiInv, WifiSlot, WifiRequest, WifiRequests, Wifi!SessionBack, Wifi!Gone, Wifi!Quiet
    <2>6. stream' \in WifiStreams
      BY <2>1 DEF WifiParts, WifiInv, WifiSlot, WifiRequest, WifiStreams, WifiClientele, WifiRequests,
             Wifi!SessionBack, Wifi!Gone, Wifi!Quiet
    <2>7. wire' \in [Handle -> WifiWires]
      BY Zenon, <2>1, WifiFields DEF WifiParts, Wifi!SessionBack, Wifi!Gone, Wifi!Quiet
    <2>8. client' \in [Handle -> WifiClientele]
      BY Zenon, <2>1, WifiFields DEF WifiParts, Wifi!SessionBack, Wifi!Gone, Wifi!Quiet
    <2>9. wifiTroubles' \in 0 .. WifiTroubles
      BY <2>1 DEF WifiParts, WifiInv, WifiSlot, WifiRequest, Wifi!VoiceStreamConstants, Wifi!SessionBack, Wifi!Gone,
             Wifi!Quiet
    <2> QED
      BY <2>2, <2>3, <2>4, <2>5, <2>6, <2>7, <2>8, <2>9, WifiTyped DEF WifiTypes, WifiParts
  <1>2. WifiSlot'
    BY DEF WifiInv, WifiTypes, WifiSlot, WifiRequest, WifiClients, WifiClient, WifiHeld, Opens, Wifi!TypeOK,
           Wifi!SlotHeld, Wifi!Live, Wifi!WorkerRuns, Wifi!CallOf, Wifi!VoiceStreamConstants, Wifi!SessionBack,
           Wifi!Gone, Wifi!Quiet
  <1>3. WifiRequest'
    BY DEF WifiInv, WifiTypes, WifiSlot, WifiRequest, WifiClients, WifiClient, WifiHeld, Opens, Wifi!TypeOK,
           Wifi!SlotHeld, Wifi!Live, Wifi!WorkerRuns, Wifi!CallOf, Wifi!VoiceStreamConstants, Wifi!SessionBack,
           Wifi!Gone, Wifi!Quiet
  <1>4. ASSUME NEW g \in Handle
        PROVE  WifiClient(g)'
    BY DEF WifiInv, WifiTypes, WifiSlot, WifiRequest, WifiClients, WifiClient, WifiHeld, Opens, Wifi!TypeOK,
           Wifi!SlotHeld, Wifi!Live, Wifi!WorkerRuns, Wifi!CallOf, Wifi!VoiceStreamConstants, Wifi!SessionBack,
           Wifi!Gone, Wifi!Quiet
  <1>5. WifiHeld'
    BY DEF WifiInv, WifiTypes, WifiSlot, WifiRequest, WifiClients, WifiClient, WifiHeld, Opens, Wifi!TypeOK,
           Wifi!SlotHeld, Wifi!Live, Wifi!WorkerRuns, Wifi!CallOf, Wifi!VoiceStreamConstants, Wifi!SessionBack,
           Wifi!Gone, Wifi!Quiet
  <1> QED
    BY <1>1, <1>2, <1>3, <1>4, <1>5 DEF WifiInv, WifiClients

\* The registration ends.
LEMMA WifiWorkerStops ==
    ASSUME WifiInv, Wifi!VoiceStreamConstants,
           Wifi!WorkerStops
    PROVE  WifiInv'
  <1>1. WifiTypes'
    <2>1. WifiParts
      BY WifiTyped DEF WifiInv, WifiTypes
    <2>2. wifiCalls' \in [Handle \cup Incoming -> {"none", "ringing", "live", "ended", "gone"}]
      BY <2>1 DEF WifiParts, WifiInv, WifiSlot, WifiRequest, Wifi!WorkerStops, Wifi!Trouble
    <2>3. wifiWorker' \in {"up", "rebuilding", "stopping", "clean", "unclean"}
      BY <2>1 DEF WifiParts, WifiInv, WifiSlot, WifiRequest, Wifi!WorkerStops, Wifi!Trouble
    <2>4. request' \in WifiRequests
      BY <2>1 DEF WifiParts, WifiInv, WifiSlot, WifiRequest, WifiRequests, Wifi!WorkerStops, Wifi!Trouble
    <2>5. slot' \in Handle \cup {Wifi!None}
      BY <2>1 DEF WifiParts, WifiInv, WifiSlot, WifiRequest, WifiRequests, Wifi!WorkerStops, Wifi!Trouble
    <2>6. stream' \in WifiStreams
      BY <2>1 DEF WifiParts, WifiInv, WifiSlot, WifiRequest, WifiStreams, WifiClientele, WifiRequests,
             Wifi!WorkerStops, Wifi!Trouble
    <2>7. wire' \in [Handle -> WifiWires]
      BY Zenon, <2>1, WifiFields DEF WifiParts, Wifi!WorkerStops, Wifi!Trouble
    <2>8. client' \in [Handle -> WifiClientele]
      BY Zenon, <2>1, WifiFields DEF WifiParts, Wifi!WorkerStops, Wifi!Trouble
    <2>9. wifiTroubles' \in 0 .. WifiTroubles
      BY <2>1 DEF WifiParts, WifiInv, WifiSlot, WifiRequest, Wifi!VoiceStreamConstants, Wifi!WorkerStops, Wifi!Trouble
    <2> QED
      BY <2>2, <2>3, <2>4, <2>5, <2>6, <2>7, <2>8, <2>9, WifiTyped DEF WifiTypes, WifiParts
  <1>2. WifiSlot'
    BY DEF WifiInv, WifiTypes, WifiSlot, WifiRequest, WifiClients, WifiClient, WifiHeld, Opens, Wifi!TypeOK,
           Wifi!SlotHeld, Wifi!Live, Wifi!WorkerRuns, Wifi!CallOf, Wifi!VoiceStreamConstants, Wifi!WorkerStops,
           Wifi!Trouble
  <1>3. WifiRequest'
    BY DEF WifiInv, WifiTypes, WifiSlot, WifiRequest, WifiClients, WifiClient, WifiHeld, Opens, Wifi!TypeOK,
           Wifi!SlotHeld, Wifi!Live, Wifi!WorkerRuns, Wifi!CallOf, Wifi!VoiceStreamConstants, Wifi!WorkerStops,
           Wifi!Trouble
  <1>4. ASSUME NEW g \in Handle
        PROVE  WifiClient(g)'
    BY DEF WifiInv, WifiTypes, WifiSlot, WifiRequest, WifiClients, WifiClient, WifiHeld, Opens, Wifi!TypeOK,
           Wifi!SlotHeld, Wifi!Live, Wifi!WorkerRuns, Wifi!CallOf, Wifi!VoiceStreamConstants, Wifi!WorkerStops,
           Wifi!Trouble
  <1>5. WifiHeld'
    BY DEF WifiInv, WifiTypes, WifiSlot, WifiRequest, WifiClients, WifiClient, WifiHeld, Opens, Wifi!TypeOK,
           Wifi!SlotHeld, Wifi!Live, Wifi!WorkerRuns, Wifi!CallOf, Wifi!VoiceStreamConstants, Wifi!WorkerStops,
           Wifi!Trouble
  <1> QED
    BY <1>1, <1>2, <1>3, <1>4, <1>5 DEF WifiInv, WifiClients

\* The worker ends.
LEMMA WifiWorkerEnds ==
    ASSUME WifiInv, Wifi!VoiceStreamConstants,
           Wifi!WorkerEnds
    PROVE  WifiInv'
  <1>1. WifiTypes'
    <2>1. WifiParts
      BY WifiTyped DEF WifiInv, WifiTypes
    <2>2. wifiCalls' \in [Handle \cup Incoming -> {"none", "ringing", "live", "ended", "gone"}]
      BY <2>1 DEF WifiParts, WifiInv, WifiSlot, WifiRequest, Wifi!WorkerEnds, Wifi!Gone, Wifi!Quiet
    <2>3. wifiWorker' \in {"up", "rebuilding", "stopping", "clean", "unclean"}
      BY <2>1 DEF WifiParts, WifiInv, WifiSlot, WifiRequest, Wifi!WorkerEnds, Wifi!Gone, Wifi!Quiet
    <2>4. request' \in WifiRequests
      BY <2>1 DEF WifiParts, WifiInv, WifiSlot, WifiRequest, WifiRequests, Wifi!WorkerEnds, Wifi!Gone, Wifi!Quiet
    <2>5. slot' \in Handle \cup {Wifi!None}
      BY <2>1 DEF WifiParts, WifiInv, WifiSlot, WifiRequest, WifiRequests, Wifi!WorkerEnds, Wifi!Gone, Wifi!Quiet
    <2>6. stream' \in WifiStreams
      BY <2>1 DEF WifiParts, WifiInv, WifiSlot, WifiRequest, WifiStreams, WifiClientele, WifiRequests,
             Wifi!WorkerEnds, Wifi!Gone, Wifi!Quiet
    <2>7. wire' \in [Handle -> WifiWires]
      BY Zenon, <2>1, WifiFields DEF WifiParts, Wifi!WorkerEnds, Wifi!Gone, Wifi!Quiet
    <2>8. client' \in [Handle -> WifiClientele]
      BY Zenon, <2>1, WifiFields DEF WifiParts, Wifi!WorkerEnds, Wifi!Gone, Wifi!Quiet
    <2>9. wifiTroubles' \in 0 .. WifiTroubles
      BY <2>1 DEF WifiParts, WifiInv, WifiSlot, WifiRequest, Wifi!VoiceStreamConstants, Wifi!WorkerEnds, Wifi!Gone,
             Wifi!Quiet
    <2> QED
      BY <2>2, <2>3, <2>4, <2>5, <2>6, <2>7, <2>8, <2>9, WifiTyped DEF WifiTypes, WifiParts
  <1>2. WifiSlot'
    BY DEF WifiInv, WifiTypes, WifiSlot, WifiRequest, WifiClients, WifiClient, WifiHeld, Opens, Wifi!TypeOK,
           Wifi!SlotHeld, Wifi!Live, Wifi!WorkerRuns, Wifi!CallOf, Wifi!VoiceStreamConstants, Wifi!WorkerEnds,
           Wifi!Gone, Wifi!Quiet
  <1>3. WifiRequest'
    BY DEF WifiInv, WifiTypes, WifiSlot, WifiRequest, WifiClients, WifiClient, WifiHeld, Opens, Wifi!TypeOK,
           Wifi!SlotHeld, Wifi!Live, Wifi!WorkerRuns, Wifi!CallOf, Wifi!VoiceStreamConstants, Wifi!WorkerEnds,
           Wifi!Gone, Wifi!Quiet
  <1>4. ASSUME NEW g \in Handle
        PROVE  WifiClient(g)'
    <2>1. WifiParts
      BY WifiTyped DEF WifiInv, WifiTypes
    <2>2. ~ Wifi!WorkerRuns' /\ UNCHANGED <<slot, wire, client>>
      BY DEF Wifi!WorkerEnds, Wifi!WorkerRuns
    <2>3. \A c \in Handle \cup Incoming :
            wifiCalls'[c] = wifiCalls[c] \/ (wifiCalls[c] # "none" /\ wifiCalls'[c] = "gone")
      BY <2>1 DEF WifiParts, Wifi!WorkerEnds, Wifi!Gone
    <2>4. client[g].call \in Incoming \cup {Wifi!None}
      BY Zenon, <2>1, WifiFields
    <2> QED
      BY <2>2, <2>3, <2>4 DEF WifiInv, WifiClients, WifiClient
  <1>5. WifiHeld'
    BY DEF WifiInv, WifiTypes, WifiSlot, WifiRequest, WifiClients, WifiClient, WifiHeld, Opens, Wifi!TypeOK,
           Wifi!SlotHeld, Wifi!Live, Wifi!WorkerRuns, Wifi!CallOf, Wifi!VoiceStreamConstants, Wifi!WorkerEnds,
           Wifi!Gone, Wifi!Quiet
  <1> QED
    BY <1>1, <1>2, <1>3, <1>4, <1>5 DEF WifiInv, WifiClients

\* No step of the stream, its program, its worker or its carrier leaves the invariant.
LEMMA WifiNext ==
    ASSUME WifiInv, Wifi!VoiceStreamConstants, Wifi!Next
    PROVE  WifiInv'
  <1>1. CASE \E h \in Handle : Wifi!Connect(h)
    <2>1. PICK h \in Handle : Wifi!Connect(h)
      BY <1>1
    <2>2. CASE request.ok /\ slot = h /\ stream.at = "accept"
      BY <2>1, <2>2, WifiConnectWell DEF Wifi!Connect, Wifi!At, Wifi!Quiet
    <2>3. CASE ~ (request.ok /\ slot = h /\ stream.at = "accept")
      BY <2>1, <2>3, WifiConnectIll DEF Wifi!Connect, Wifi!At, Wifi!Quiet
    <2> QED
      BY <2>2, <2>3
  <1>2. CASE \E h \in Handle : Wifi!Hangup(h)
    <2>1. PICK h \in Handle : Wifi!Hangup(h)
      BY <1>2
    <2>2. CASE client[h].ended
      BY <2>1, <2>2, WifiHangupTwice DEF Wifi!Hangup, Wifi!Quiet
    <2>3. CASE ~ client[h].ended /\ wire[h].program /\ wire[h].worker
      BY <2>1, <2>3, WifiHangupWrites DEF Wifi!Hangup, Wifi!Writes, Wifi!Quiet
    <2>4. CASE ~ client[h].ended /\ ~ (wire[h].program /\ wire[h].worker)
      BY <2>1, <2>4, WifiHangupCuts DEF Wifi!Hangup, Wifi!Writes, Wifi!Quiet
    <2> QED
      BY <2>2, <2>3, <2>4
  <1>3. CASE \E h \in Handle : Wifi!Receive(h)
    <2>1. PICK h \in Handle : Wifi!Receive(h)
      BY <1>3
    <2>2. CASE client[h].seen # wire[h].sent
      BY <2>1, <2>2, WifiReceiveNews DEF Wifi!Receive, Wifi!Quiet
    <2>3. CASE client[h].seen = wire[h].sent
      BY <2>1, <2>3, WifiReceiveEnd DEF Wifi!Receive, Wifi!Quiet
    <2> QED
      BY <2>2, <2>3
  <1>4. CASE \E h \in Handle :
                \/ \E c \in Incoming \cup {Wifi!None} : Wifi!OpenWiFiCall(h, c)
                \/ Wifi!GiveUpOpening(h) \/ Wifi!Dial(h) \/ Wifi!Answer(h) \/ Wifi!HangupExpires(h) \/ Wifi!Break(h)
                \/ Wifi!Joined(h) \/ Wifi!HangupSeen(h) \/ Wifi!HangupAsks(h) \/ Wifi!HangupListed(h)
    BY <1>4, WifiOpen, WifiGiveUp, WifiDial, WifiAnswer, WifiHangupExpires, WifiBreak, WifiJoined, WifiHangupSeen,
       WifiHangupAsks, WifiHangupListed
  <1>5. CASE \/ Wifi!Drop \/ Wifi!Command \/ Wifi!RunOpen \/ Wifi!RunList \/ Wifi!Stream \/ Wifi!MediaFails
             \/ \E c \in Incoming : Wifi!CarrierRings(c)
             \/ \E c \in Handle \cup Incoming : Wifi!CarrierEnds(c)
             \/ Wifi!SessionFails \/ Wifi!SessionBack \/ Wifi!WorkerStops \/ Wifi!WorkerEnds
    BY <1>5, WifiDrop, WifiCommand, WifiRunOpen, WifiRunList, WifiAcceptExpires, WifiStatus, WifiFrame, WifiServeEnds,
       WifiTerminate, WifiServeReturns, WifiStreamStops, WifiMediaFails, WifiCarrierRings, WifiCarrierEnds,
       WifiSessionFails, WifiSessionBack, WifiWorkerStops, WifiWorkerEnds DEF Wifi!Stream
  <1> QED
    BY <1>1, <1>2, <1>3, <1>4, <1>5 DEF Wifi!Next, Wifi!Program

\* At first no handle is open and the worker holds nothing.
LEMMA WifiInit ==
    ASSUME Wifi!VoiceStreamConstants, Wifi!Init
    PROVE  WifiInv
  <1> USE DEF Wifi!Init, Wifi!NoRequest, Wifi!NoStream, Wifi!NoWire, Wifi!NoClient
  <1>1. WifiParts
    BY DEF WifiParts, WifiRequests, WifiStreams, WifiWires, WifiClientele, Wifi!VoiceStreamConstants
  <1>2. WifiTypes
    BY <1>1, WifiTyped DEF WifiTypes
  <1>3. WifiSlot /\ WifiRequest /\ WifiClients /\ WifiHeld
    BY DEF WifiSlot, WifiRequest, WifiClients, WifiClient, WifiHeld, Opens, Wifi!SlotHeld, Wifi!Live,
           Wifi!WorkerRuns, Wifi!CallOf, Wifi!VoiceStreamConstants
  <1> QED
    BY <1>2, <1>3 DEF WifiInv

\* A step of another part.
LEMMA WifiRests ==
    ASSUME WifiInv, UNCHANGED varsWifi
    PROVE  WifiInv'
  BY DEF WifiInv, WifiTypes, WifiSlot, WifiRequest, WifiClients, WifiClient, WifiHeld, Opens, Wifi!TypeOK,
         Wifi!SlotHeld, Wifi!Live, Wifi!WorkerRuns, Wifi!CallOf, varsWifi

\* Under the invariant a hang-up that reports success is true, and the slot is its call's.
LEMMA WifiGood ==
    ASSUME WifiInv
    PROVE  Wifi!VoiceSound
  BY DEF WifiInv, WifiTypes, WifiClients, WifiClient, WifiHeld, Wifi!VoiceSound, Wifi!HonestRelease

\* The inductive invariant of a Wi-Fi call holds for any number of handles, incoming calls and failures.
THEOREM WifiInvariant == Behaviour => []WifiInv
  <1>1. Wifi!VoiceStreamConstants
    BY WifiBounds
  <1>2. InitAll => WifiInv
    BY <1>1, WifiInit DEF InitAll
  <1>3. WifiInv /\ [NextAll]_all => WifiInv'
    <2>1. ASSUME WifiInv, NextAll
          PROVE  WifiInv'
      BY <1>1, <2>1, WifiNext, WifiRests DEF NextAll
    <2>2. ASSUME WifiInv, UNCHANGED all
          PROVE  WifiInv'
      BY <2>2, WifiRests DEF all
    <2> QED
      BY <2>1, <2>2
  <1> QED
    BY <1>2, <1>3, PTL DEF Behaviour

-----------------------------------------------------------------------------
(* The planes of a Wi-Fi tunnel                                              *)

\* Before Install is done, and the steps of Close that still have the list of what to remove.
Installing == hpc \in {"link", "rule", "unreachable", "host", "outbound", "inbound", "policy", "firewall-on",
                       "undo", "failed"}
Listing == hpc \in {"link", "rule", "unreachable", "host", "firewall-on", "running", "waiting", "media-off", "routes-off"}
Ending == hpc \in {"down", "closed"}

\* An endpoint is counted once per call that holds it, even while the tunnel closes; while it runs, what
\* has an entry has a route, or one that was taken or is in doubt.
PlaneMedia ==
    /\ media = [r \in DOMAIN media |-> media[r]]
    /\ \A r \in DOMAIN media : media[r] = Cardinality(Plane!Held(r))
    /\ ~ Plane!Closed => \A l \in Lease : lease[l] # Plane!NoRemote => lease[l] \in DOMAIN media
    /\ Plane!Running => DOMAIN media \ {Pcscf} \subseteq kernel \cup taken \cup unsure
    /\ mode = "xfrm" \/ Installing => DOMAIN media = {}

\* The rule and the fail-closed route are on the list; the rest goes with the interface or is in doubt.
PlaneKernel ==
    /\ Pcscf \notin kernel
    /\ mode = "xfrm" => "firewall" \notin kernel /\ kernel \cap Remote = {}
    /\ Plane!Owned
    /\ mode = "userspace" /\ Listing =>
          /\ recorded \in Seq({"rule", "unreachable", "host"})
          /\ kernel \cap {"rule", "unreachable"} \subseteq Plane!ToSet(recorded)
    /\ mode = "userspace" /\ hpc \in {"rule", "unreachable", "host", "firewall-on", "running"} =>
          "link" \in kernel \cup taken

\* No goroutine outlives the tunnel, and nobody puts the firewall's rules back.
PlaneWorkers ==
    /\ \A w \in Plane!Worker : planeWorker[w] = "run" => mode = "userspace" /\ hpc \in {"running", "waiting"}
    /\ hpc \in {"media-off", "routes-off", "down", "closed"} /\ "firewall" \in kernel => unlisted \/ result = "failed"
    /\ ~ Ending => result # "clean"

\* A close that is clean so far has left what goes with the interface at most.
PlaneClean ==
    Ending /\ result = "clean" =>
        kernel \subseteq {"stale"} \cup (IF unlisted THEN {"firewall"} ELSE {})
                         \cup (IF hpc = "down" /\ mode = "userspace" THEN Plane!OnLink ELSE {})

PlaneTypes == Plane!TypeOK
PlaneReports == Plane!StopsReported
PlaneInv == PlaneTypes /\ PlaneMedia /\ PlaneKernel /\ PlaneWorkers /\ PlaneClean /\ PlaneReports

\* The resources of each data plane as a set, and the types part by part.
Created(m) == IF m = "userspace" THEN {"link", "rule", "unreachable", "host"} ELSE {"link", "outbound", "inbound", "policy"}
PlaneSteps == {"firewall-on", "running", "undo", "failed", "waiting", "media-off", "routes-off", "down", "closed"}
PlaneParts ==
    /\ mode \in {"userspace", "xfrm"}
    /\ hpc \in Created(mode) \cup PlaneSteps
    /\ kernel \subseteq Created(mode) \cup Remote \cup {"firewall", "stale"}
    /\ DOMAIN media \subseteq Remote
    /\ lease \in [Lease -> Remote \cup {Plane!NoRemote}]
    /\ planeWorker \in [Plane!Worker -> {"off", "run", "done"}]
    /\ failure \in {"empty", "queued", "taken"}
    /\ relay \in {"open", "failed", "closed"} /\ planeQueue \in 0 .. QueueCap
    /\ result \in {"none", "clean", "failed"}

\* Where a resource stands in a list of four.
LEMMA FourInOrder ==
    ASSUME NEW a, NEW b, NEW c, NEW d, a # b, a # c, a # d, b # c, b # d, c # d
    PROVE  /\ Plane!ToSet(<<a, b, c, d>>) = {a, b, c, d}
           /\ (CHOOSE i \in DOMAIN <<a, b, c, d>> : <<a, b, c, d>>[i] = a) = 1
           /\ (CHOOSE i \in DOMAIN <<a, b, c, d>> : <<a, b, c, d>>[i] = b) = 2
           /\ (CHOOSE i \in DOMAIN <<a, b, c, d>> : <<a, b, c, d>>[i] = c) = 3
           /\ (CHOOSE i \in DOMAIN <<a, b, c, d>> : <<a, b, c, d>>[i] = d) = 4
  <1> DEFINE s == <<a, b, c, d>>
  <1>1. DOMAIN s = {1, 2, 3, 4} /\ s[1] = a /\ s[2] = b /\ s[3] = c /\ s[4] = d /\ Len(s) = 4
    OBVIOUS
  <1> HIDE DEF s
  <1>2. Plane!ToSet(s) = {a, b, c, d}
    BY <1>1 DEF Plane!ToSet
  <1>3. (CHOOSE i \in DOMAIN s : s[i] = a) = 1
    BY <1>1
  <1>4. (CHOOSE i \in DOMAIN s : s[i] = b) = 2
    BY <1>1
  <1>5. (CHOOSE i \in DOMAIN s : s[i] = c) = 3
    BY <1>1
  <1>6. (CHOOSE i \in DOMAIN s : s[i] = d) = 4
    BY <1>1
  <1> QED
    BY <1>2, <1>3, <1>4, <1>5, <1>6 DEF s

\* What Install creates, and what comes after each resource.
LEMMA PlaneOrder ==
    /\ mode = "userspace" =>
          /\ Plane!ToSet(Plane!Resources(mode)) = Created(mode)
          /\ Plane!Following("link") = "rule" /\ Plane!Following("rule") = "unreachable"
          /\ Plane!Following("unreachable") = "host" /\ Plane!Following("host") = "firewall-on"
    /\ mode = "xfrm" =>
          /\ Plane!ToSet(Plane!Resources(mode)) = Created(mode)
          /\ Plane!Following("link") = "outbound" /\ Plane!Following("outbound") = "inbound"
          /\ Plane!Following("inbound") = "policy" /\ Plane!Following("policy") = "firewall-on"
  <1>1. CASE mode = "userspace"
    <2>1. Plane!Resources(mode) = <<"link", "rule", "unreachable", "host">>
      BY <1>1 DEF Plane!Resources
    <2>2. /\ Plane!ToSet(<<"link", "rule", "unreachable", "host">>) = {"link", "rule", "unreachable", "host"}
          /\ (CHOOSE i \in DOMAIN Plane!Resources(mode) : Plane!Resources(mode)[i] = "link") = 1
          /\ (CHOOSE i \in DOMAIN Plane!Resources(mode) : Plane!Resources(mode)[i] = "rule") = 2
          /\ (CHOOSE i \in DOMAIN Plane!Resources(mode) : Plane!Resources(mode)[i] = "unreachable") = 3
          /\ (CHOOSE i \in DOMAIN Plane!Resources(mode) : Plane!Resources(mode)[i] = "host") = 4
      BY <2>1, FourInOrder
    <2>3. /\ Len(Plane!Resources(mode)) = 4 /\ Plane!Resources(mode)[2] = "rule"
          /\ Plane!Resources(mode)[3] = "unreachable" /\ Plane!Resources(mode)[4] = "host"
      BY <2>1
    <2> QED
      BY <1>1, <2>1, <2>2, <2>3 DEF Plane!Following, Created
  <1>2. CASE mode = "xfrm"
    <2>1. Plane!Resources(mode) = <<"link", "outbound", "inbound", "policy">>
      BY <1>2 DEF Plane!Resources
    <2>2. /\ Plane!ToSet(<<"link", "outbound", "inbound", "policy">>) = {"link", "outbound", "inbound", "policy"}
          /\ (CHOOSE i \in DOMAIN Plane!Resources(mode) : Plane!Resources(mode)[i] = "link") = 1
          /\ (CHOOSE i \in DOMAIN Plane!Resources(mode) : Plane!Resources(mode)[i] = "outbound") = 2
          /\ (CHOOSE i \in DOMAIN Plane!Resources(mode) : Plane!Resources(mode)[i] = "inbound") = 3
          /\ (CHOOSE i \in DOMAIN Plane!Resources(mode) : Plane!Resources(mode)[i] = "policy") = 4
      BY <2>1, FourInOrder
    <2>3. /\ Len(Plane!Resources(mode)) = 4 /\ Plane!Resources(mode)[2] = "outbound"
          /\ Plane!Resources(mode)[3] = "inbound" /\ Plane!Resources(mode)[4] = "policy"
      BY <2>1
    <2> QED
      BY <1>2, <2>1, <2>2, <2>3 DEF Plane!Following, Created
  <1> QED
    BY <1>1, <1>2

\* The set of the resources does not depend on the state.
LEMMA PlaneCreated ==
    ASSUME NEW m \in {"userspace", "xfrm"}
    PROVE  Plane!ToSet(Plane!Resources(m)) = Created(m)
  <1>1. CASE m = "userspace"
    <2>1. Plane!Resources(m) = <<"link", "rule", "unreachable", "host">>
      BY <1>1 DEF Plane!Resources
    <2> QED
      BY <1>1, <2>1, FourInOrder DEF Created
  <1>2. CASE m = "xfrm"
    <2>1. Plane!Resources(m) = <<"link", "outbound", "inbound", "policy">>
      BY <1>2 DEF Plane!Resources
    <2> QED
      BY <1>2, <2>1, FourInOrder DEF Created
  <1> QED
    BY <1>1, <1>2

\* The type invariant is its parts, in a state and in the next one.
LEMMA PlaneTyped ==
    /\ Plane!TypeOK <=> PlaneParts
    /\ Plane!TypeOK' <=> PlaneParts'
  <1>1. Plane!TypeOK <=> PlaneParts
    <2>1. mode \in {"userspace", "xfrm"} => Plane!ToSet(Plane!Resources(mode)) = Created(mode)
      BY PlaneCreated
    <2> QED
      BY <2>1 DEF Plane!TypeOK, PlaneParts, PlaneSteps
  <1>2. Plane!TypeOK' <=> PlaneParts'
    <2>1. mode' \in {"userspace", "xfrm"} => Plane!ToSet(Plane!Resources(mode')) = Created(mode')
      BY PlaneCreated
    <2> QED
      BY <2>1 DEF Plane!TypeOK, PlaneParts, PlaneSteps
  <1> QED
    BY <1>1, <1>2

\* What a list holds after something is written at its end.
LEMMA PlaneRecorded ==
    ASSUME NEW S, NEW s \in Seq(S), NEW e \in S
    PROVE  Append(s, e) \in Seq(S) /\ Plane!ToSet(Append(s, e)) = Plane!ToSet(s) \cup {e}
  <1> DEFINE t == Append(s, e)
  <1>1. Len(s) \in Nat /\ DOMAIN s = 1 .. Len(s)
    OBVIOUS
  <1>2. t \in Seq(S) /\ Len(t) = Len(s) + 1
    OBVIOUS
  <1>3. DOMAIN t = 1 .. Len(s) + 1 /\ t[Len(s) + 1] = e /\ \A i \in 1 .. Len(s) : t[i] = s[i]
    <2>1. DOMAIN t = 1 .. Len(t)
      BY <1>2
    <2> QED
      BY <1>1, <1>2, <2>1, AppendProperties
  <1> HIDE DEF t
  <1>4. \A x : x \in Plane!ToSet(t) <=> x \in Plane!ToSet(s) \cup {e}
    BY <1>1, <1>3 DEF Plane!ToSet
  <1> QED
    BY <1>2, <1>4 DEF t

\* An endpoint's count when a call takes it or leaves it.
LEMMA PlaneCounts ==
    ASSUME PlaneParts, Plane!PlaneConstants
    PROVE  /\ \A r \in Remote : Cardinality(Plane!Held(r)) \in Nat
           /\ \A r \in Remote : Plane!Held(r) = {} => Cardinality(Plane!Held(r)) = 0
           /\ \A l \in Lease, r \in Remote : lease[l] # r => Cardinality(Plane!Held(r) \cup {l}) = Cardinality(Plane!Held(r)) + 1
           /\ \A l \in Lease, r \in Remote : lease[l] = r => /\ Cardinality(Plane!Held(r) \ {l}) = Cardinality(Plane!Held(r)) - 1
                                                             /\ Cardinality(Plane!Held(r)) <= 1 => Plane!Held(r) = {l}
  <1>1. \A r \in Remote : IsFiniteSet(Plane!Held(r))
    <2>1. \A r \in Remote : Plane!Held(r) \in SUBSET Lease
      BY DEF Plane!Held
    <2>2. IsFiniteSet(Lease)
      BY DEF Plane!PlaneConstants, Plane!IsFiniteSet, IsFiniteSet
    <2> QED
      BY <2>1, <2>2, FS_Subset
  <1>2. \A r \in Remote : Cardinality(Plane!Held(r)) \in Nat
    BY <1>1, FS_CardinalityType
  <1>3. ASSUME NEW l \in Lease, NEW r \in Remote, lease[l] # r
        PROVE  Cardinality(Plane!Held(r) \cup {l}) = Cardinality(Plane!Held(r)) + 1
    <2>1. l \notin Plane!Held(r)
      BY <1>3 DEF Plane!Held
    <2> QED
      BY <1>1, <2>1, FS_AddElement
  <1>4. ASSUME NEW l \in Lease, NEW r \in Remote, lease[l] = r
        PROVE  /\ Cardinality(Plane!Held(r) \ {l}) = Cardinality(Plane!Held(r)) - 1
               /\ Cardinality(Plane!Held(r)) <= 1 => Plane!Held(r) = {l}
    <2>1. l \in Plane!Held(r)
      BY <1>4 DEF Plane!Held
    <2>2. /\ IsFiniteSet(Plane!Held(r) \ {l})
          /\ Cardinality(Plane!Held(r) \ {l}) = Cardinality(Plane!Held(r)) - 1
      BY <1>1, <2>1, FS_RemoveElement
    <2>3. ASSUME Cardinality(Plane!Held(r)) <= 1
          PROVE  Plane!Held(r) = {l}
      <3>1. Cardinality(Plane!Held(r) \ {l}) \in Nat
        BY <2>2, FS_CardinalityType
      <3>2. Cardinality(Plane!Held(r) \ {l}) = 0
        BY <1>2, <2>2, <2>3, <3>1
      <3>3. Plane!Held(r) \ {l} = {}
        BY <2>2, <3>2, FS_EmptySet
      <3> QED
        BY <2>1, <3>3
    <2> QED
      BY <2>2, <2>3
  <1>5. \A r \in Remote : Plane!Held(r) = {} => Cardinality(Plane!Held(r)) = 0
    BY FS_EmptySet
  <1> QED
    BY <1>2, <1>3, <1>4, <1>5

\* Install creates a resource.
LEMMA PlaneConfigure ==
    ASSUME PlaneInv, Plane!PlaneConstants, Plane!Configure
    PROVE  PlaneInv'
  <1>0. PlaneParts /\ PlaneMedia /\ PlaneKernel /\ PlaneWorkers /\ PlaneClean /\ PlaneReports
    BY PlaneTyped DEF PlaneInv, PlaneTypes
  <1>a. PICK res \in Plane!Result :
          /\ Plane!Adds(hpc, res)
          /\ recorded' = IF res = "ok" THEN Plane!Records(hpc) ELSE recorded
          /\ hpc' = IF res = "ok" THEN Plane!Following(hpc) ELSE "undo"
    BY DEF Plane!Configure
  <1>b. hpc \in Created(mode) /\ UNCHANGED <<mode, unlisted, result, media, lease, taken, planeWorker, cancelled, terminal,
                                            failure, relay, planeQueue>>
    BY <1>0, PlaneOrder DEF PlaneParts, Plane!Configure, Plane!Creating, Plane!mediaVars, Plane!plane, Plane!relayVars
  <1>c. \/ hpc' = "undo"
        \/ /\ mode = "userspace" /\ recorded' = Plane!Records(hpc) /\ kernel' = kernel \cup {hpc} /\ unsure' = unsure
           /\ \/ hpc = "link" /\ hpc' = "rule"
              \/ hpc = "rule" /\ hpc' = "unreachable"
              \/ hpc = "unreachable" /\ hpc' = "host"
              \/ hpc = "host" /\ hpc' = "firewall-on"
        \/ /\ mode = "xfrm"
           /\ \/ hpc = "link" /\ hpc' = "outbound"
              \/ hpc = "outbound" /\ hpc' = "inbound"
              \/ hpc = "inbound" /\ hpc' = "policy"
              \/ hpc = "policy" /\ hpc' = "firewall-on"
    BY <1>0, <1>a, <1>b, PlaneOrder DEF PlaneParts, Created, Plane!Adds
  <1>d. kernel' \in {kernel, kernel \cup {hpc}} /\ unsure' \in {unsure, unsure \cup {hpc}}
    BY <1>a DEF Plane!Adds, Plane!Result
  <1>e. hpc \in {"link", "rule", "unreachable", "host", "outbound", "inbound", "policy"}
    BY <1>b DEF Created
  <1>f. hpc' \in {"rule", "unreachable", "host", "outbound", "inbound", "policy", "firewall-on", "undo"}
    BY <1>c
  <1>1. PlaneTypes'
    <2>1. mode' \in {"userspace", "xfrm"} /\ hpc' \in Created(mode') \cup PlaneSteps
      BY <1>0, <1>b, <1>c DEF PlaneParts, Created, PlaneSteps
    <2>2. kernel' \subseteq Created(mode') \cup Remote \cup {"firewall", "stale"}
      BY <1>0, <1>b, <1>d DEF PlaneParts, Created
    <2>3. DOMAIN media' \subseteq Remote /\ lease' \in [Lease -> Remote \cup {Plane!NoRemote}]
      BY <1>0 DEF PlaneParts, Created, PlaneSteps, Plane!Configure, Plane!Creating, Plane!installVars,
             Plane!mediaVars, Plane!plane, Plane!relayVars
    <2>4. planeWorker' \in [Plane!Worker -> {"off", "run", "done"}]
      BY <1>0 DEF PlaneParts, Created, PlaneSteps, Plane!Configure, Plane!Creating, Plane!installVars,
             Plane!mediaVars, Plane!plane, Plane!relayVars
    <2>5. failure' \in {"empty", "queued", "taken"} /\ result' \in {"none", "clean", "failed"}
      BY <1>0 DEF PlaneParts, Created, PlaneSteps, Plane!Configure, Plane!Creating, Plane!installVars,
             Plane!mediaVars, Plane!plane, Plane!relayVars
    <2>6. relay' \in {"open", "failed", "closed"} /\ planeQueue' \in 0 .. QueueCap
      BY <1>0 DEF PlaneParts, Plane!PlaneConstants, Plane!Configure, Plane!Creating, Plane!installVars,
             Plane!mediaVars, Plane!plane, Plane!relayVars
    <2> QED
      BY <2>1, <2>2, <2>3, <2>4, <2>5, <2>6, PlaneTyped DEF PlaneTypes, PlaneParts
  <1>2. PlaneMedia'
    <2>1. DOMAIN media = {} /\ \A l \in Lease : lease[l] = Plane!NoRemote
      BY <1>0, <1>e DEF PlaneMedia, Installing, Plane!Closed
    <2> QED
      BY <1>0, <1>b, <1>f, <2>1 DEF PlaneMedia, Plane!Running, Plane!Closed, Installing, Plane!Held
  <1>3. PlaneKernel'
    <2>1. Pcscf \notin kernel' /\ (mode' = "xfrm" => "firewall" \notin kernel' /\ kernel' \cap Remote = {})
      BY <1>0, <1>b, <1>d, <1>e DEF PlaneKernel, Plane!PlaneConstants
    <2>2. CASE mode = "xfrm" \/ hpc' = "undo"
      BY <1>b, <2>1, <2>2 DEF PlaneKernel, Plane!Owned, Listing
    <2>3. CASE mode = "userspace" /\ hpc' # "undo"
      <3>1. kernel' = kernel \cup {hpc} /\ unsure' = unsure /\ recorded' = Plane!Records(hpc)
        BY <1>c, <2>3
      <3>2. recorded \in Seq({"rule", "unreachable", "host"}) /\ Listing
        BY <1>0, <1>c, <2>3 DEF PlaneKernel, Listing
      <3>3. /\ recorded' \in Seq({"rule", "unreachable", "host"})
            /\ Plane!ToSet(recorded') = Plane!ToSet(recorded) \cup ({hpc} \ {"link"})
        BY <1>c, <2>3, <3>1, <3>2, PlaneRecorded DEF Plane!Records
      <3>4. Plane!Creating /\ (hpc' # "firewall-on" => Plane!Creating')
        <4>1. Plane!ToSet(Plane!Resources(mode)) = Created(mode) /\ Created(mode) = {"link", "rule", "unreachable", "host"}
          BY <2>3, PlaneOrder DEF Created
        <4> QED
          BY <1>b, <1>c, <2>3, <4>1 DEF Plane!Creating
      <3>5. Plane!Private(kernel) \subseteq Plane!ToSet(recorded) \cup DOMAIN media \cup unsure
        BY <1>0, <1>e, <2>3, <3>4 DEF PlaneKernel, Plane!Owned
      <3>6. Plane!Private(kernel') \subseteq Plane!Private(kernel) \cup ({hpc} \ {"link"})
        BY <3>1 DEF Plane!Private
      <3>7. Plane!Owned'
        BY <1>b, <3>1, <3>3, <3>5, <3>6 DEF Plane!Owned
      <3>8. kernel' \cap {"rule", "unreachable"} \subseteq Plane!ToSet(recorded')
        BY <1>0, <2>3, <3>1, <3>2, <3>3 DEF PlaneKernel
      <3>9. "link" \in kernel' \cup taken'
        BY <1>0, <1>b, <1>c, <2>3, <3>1 DEF PlaneKernel
      <3> QED
        BY <1>b, <2>1, <2>3, <3>3, <3>7, <3>8, <3>9 DEF PlaneKernel
    <2> QED
      BY <1>0, <2>2, <2>3 DEF PlaneParts
  <1>4. PlaneWorkers'
    BY <1>0, <1>b, <1>d, <1>e, <1>f DEF PlaneWorkers, Ending
  <1>5. PlaneClean'
    BY <1>f DEF PlaneClean, Ending
  <1>6. PlaneReports'
    BY <1>0, <1>b, <1>e, <1>f DEF PlaneReports, Plane!StopsReported, Plane!Closed, Plane!Running
  <1> QED
    BY <1>1, <1>2, <1>3, <1>4, <1>5, <1>6 DEF PlaneInv

\* Install ends with the firewall and the goroutines.
LEMMA PlaneFirewallOn ==
    ASSUME PlaneInv, Plane!PlaneConstants, Plane!FirewallOn
    PROVE  PlaneInv'
  <1>0. PlaneParts /\ PlaneMedia /\ PlaneKernel /\ PlaneWorkers /\ PlaneClean /\ PlaneReports
    BY PlaneTyped DEF PlaneInv, PlaneTypes
  <1>1. PlaneTypes'
    <2>1. mode' \in {"userspace", "xfrm"} /\ hpc' \in Created(mode') \cup PlaneSteps
      BY <1>0 DEF PlaneParts, Created, PlaneSteps, Plane!FirewallOn, Plane!installVars, Plane!mediaVars, Plane!plane,
             Plane!relayVars
    <2>2. kernel' \subseteq Created(mode') \cup Remote \cup {"firewall", "stale"}
      BY <1>0 DEF PlaneParts, Created, PlaneSteps, Plane!FirewallOn, Plane!installVars, Plane!mediaVars, Plane!plane,
             Plane!relayVars
    <2>3. DOMAIN media' \subseteq Remote /\ lease' \in [Lease -> Remote \cup {Plane!NoRemote}]
      BY <1>0 DEF PlaneParts, Created, PlaneSteps, Plane!FirewallOn, Plane!installVars, Plane!mediaVars, Plane!plane,
             Plane!relayVars
    <2>4. planeWorker' \in [Plane!Worker -> {"off", "run", "done"}]
      BY <1>0 DEF PlaneParts, Created, PlaneSteps, Plane!FirewallOn, Plane!installVars, Plane!mediaVars, Plane!plane,
             Plane!relayVars
    <2>5. failure' \in {"empty", "queued", "taken"} /\ result' \in {"none", "clean", "failed"}
      BY <1>0 DEF PlaneParts, Created, PlaneSteps, Plane!FirewallOn, Plane!installVars, Plane!mediaVars, Plane!plane,
             Plane!relayVars
    <2>6. relay' \in {"open", "failed", "closed"} /\ planeQueue' \in 0 .. QueueCap
      BY <1>0 DEF PlaneParts, Plane!PlaneConstants, Plane!FirewallOn, Plane!installVars, Plane!mediaVars, Plane!plane,
             Plane!relayVars
    <2> QED
      BY <2>1, <2>2, <2>3, <2>4, <2>5, <2>6, PlaneTyped DEF PlaneTypes, PlaneParts
  <1>2. PlaneMedia'
    BY <1>0, PlaneOrder DEF PlaneParts, PlaneMedia, Plane!Running, Plane!Closed, Plane!Held, Installing,
           Plane!NoRemote, Plane!PlaneConstants, Plane!FirewallOn, Plane!installVars, Plane!mediaVars, Plane!plane,
           Plane!relayVars
  <1>3. PlaneKernel'
    BY <1>0, PlaneOrder DEF PlaneParts, PlaneKernel, PlaneMedia, Listing, Plane!Owned, Plane!Creating, Plane!Private,
           Plane!Running, Plane!Closed, Plane!OnLink, Plane!PlaneConstants, Created, PlaneSteps, PlaneWorkers,
           Plane!Worker, Plane!FirewallOn, Plane!installVars, Plane!mediaVars, Plane!plane, Plane!relayVars
  <1>4. PlaneWorkers'
    BY <1>0, PlaneOrder DEF PlaneParts, PlaneWorkers, PlaneKernel, Ending, Plane!Worker, Plane!Running,
           Plane!FirewallOn, Plane!installVars, Plane!mediaVars, Plane!plane, Plane!relayVars
  <1>5. PlaneClean'
    BY <1>0, PlaneOrder DEF PlaneParts, PlaneClean, PlaneWorkers, PlaneKernel, Ending, Plane!OnLink, Plane!Worker,
           Plane!Running, Plane!FirewallOn, Plane!installVars, Plane!mediaVars, Plane!plane, Plane!relayVars
  <1>6. PlaneReports'
    BY <1>0, PlaneOrder DEF PlaneParts, PlaneReports, PlaneWorkers, PlaneKernel, Plane!StopsReported, Plane!Closed,
           Plane!Running, Plane!Worker, Plane!FirewallOn, Plane!installVars, Plane!mediaVars, Plane!plane,
           Plane!relayVars
  <1> QED
    BY <1>1, <1>2, <1>3, <1>4, <1>5, <1>6 DEF PlaneInv

\* Install gives up.
LEMMA PlaneUndo ==
    ASSUME PlaneInv, Plane!PlaneConstants, Plane!Undo
    PROVE  PlaneInv'
  <1>0. PlaneParts /\ PlaneMedia /\ PlaneKernel /\ PlaneWorkers /\ PlaneClean /\ PlaneReports
    BY PlaneTyped DEF PlaneInv, PlaneTypes
  <1>1. PlaneTypes'
    <2>1. mode' \in {"userspace", "xfrm"} /\ hpc' \in Created(mode') \cup PlaneSteps
      BY <1>0 DEF PlaneParts, Created, PlaneSteps, Plane!Undo, Plane!WithoutLink, Plane!installVars, Plane!mediaVars,
             Plane!plane, Plane!relayVars
    <2>2. kernel' \subseteq Created(mode') \cup Remote \cup {"firewall", "stale"}
      BY <1>0 DEF PlaneParts, Created, PlaneSteps, Plane!Undo, Plane!WithoutLink, Plane!installVars, Plane!mediaVars,
             Plane!plane, Plane!relayVars
    <2>3. DOMAIN media' \subseteq Remote /\ lease' \in [Lease -> Remote \cup {Plane!NoRemote}]
      BY <1>0 DEF PlaneParts, Created, PlaneSteps, Plane!Undo, Plane!WithoutLink, Plane!installVars, Plane!mediaVars,
             Plane!plane, Plane!relayVars
    <2>4. planeWorker' \in [Plane!Worker -> {"off", "run", "done"}]
      BY <1>0 DEF PlaneParts, Created, PlaneSteps, Plane!Undo, Plane!WithoutLink, Plane!installVars, Plane!mediaVars,
             Plane!plane, Plane!relayVars
    <2>5. failure' \in {"empty", "queued", "taken"} /\ result' \in {"none", "clean", "failed"}
      BY <1>0 DEF PlaneParts, Created, PlaneSteps, Plane!Undo, Plane!WithoutLink, Plane!installVars, Plane!mediaVars,
             Plane!plane, Plane!relayVars
    <2>6. relay' \in {"open", "failed", "closed"} /\ planeQueue' \in 0 .. QueueCap
      BY <1>0 DEF PlaneParts, Plane!PlaneConstants, Plane!Undo, Plane!WithoutLink, Plane!installVars, Plane!mediaVars,
             Plane!plane, Plane!relayVars
    <2> QED
      BY <2>1, <2>2, <2>3, <2>4, <2>5, <2>6, PlaneTyped DEF PlaneTypes, PlaneParts
  <1>2. PlaneMedia'
    BY <1>0, PlaneOrder DEF PlaneParts, PlaneMedia, Plane!Running, Plane!Closed, Plane!Held, Installing,
           Plane!NoRemote, Plane!PlaneConstants, Plane!Undo, Plane!WithoutLink, Plane!installVars, Plane!mediaVars,
           Plane!plane, Plane!relayVars
  <1>3. PlaneKernel'
    BY <1>0, PlaneOrder DEF PlaneParts, PlaneKernel, PlaneMedia, Listing, Plane!Owned, Plane!Creating, Plane!Private,
           Plane!Running, Plane!Closed, Plane!OnLink, Plane!PlaneConstants, Created, PlaneSteps, PlaneWorkers,
           Plane!Worker, Plane!Undo, Plane!WithoutLink, Plane!installVars, Plane!mediaVars, Plane!plane,
           Plane!relayVars
  <1>4. PlaneWorkers'
    BY <1>0, PlaneOrder DEF PlaneParts, PlaneWorkers, PlaneKernel, Ending, Plane!Worker, Plane!Running, Plane!Undo,
           Plane!WithoutLink, Plane!installVars, Plane!mediaVars, Plane!plane, Plane!relayVars
  <1>5. PlaneClean'
    BY <1>0, PlaneOrder DEF PlaneParts, PlaneClean, PlaneWorkers, PlaneKernel, Ending, Plane!OnLink, Plane!Worker,
           Plane!Running, Plane!Undo, Plane!WithoutLink, Plane!installVars, Plane!mediaVars, Plane!plane,
           Plane!relayVars
  <1>6. PlaneReports'
    BY <1>0, PlaneOrder DEF PlaneParts, PlaneReports, PlaneWorkers, PlaneKernel, Plane!StopsReported, Plane!Closed,
           Plane!Running, Plane!Worker, Plane!Undo, Plane!WithoutLink, Plane!installVars, Plane!mediaVars,
           Plane!plane, Plane!relayVars
  <1> QED
    BY <1>1, <1>2, <1>3, <1>4, <1>5, <1>6 DEF PlaneInv

\* A goroutine stops.
LEMMA PlaneWorkerStops ==
    ASSUME PlaneInv, Plane!PlaneConstants, NEW w \in Plane!Worker, Plane!WorkerStops(w)
    PROVE  PlaneInv'
  <1>0. PlaneParts /\ PlaneMedia /\ PlaneKernel /\ PlaneWorkers /\ PlaneClean /\ PlaneReports
    BY PlaneTyped DEF PlaneInv, PlaneTypes
  <1>1. PlaneTypes'
    <2>1. mode' \in {"userspace", "xfrm"} /\ hpc' \in Created(mode') \cup PlaneSteps
      BY <1>0 DEF PlaneParts, Created, PlaneSteps, Plane!WorkerStops, Plane!Leave, Plane!installVars, Plane!mediaVars,
             Plane!plane, Plane!relayVars
    <2>2. kernel' \subseteq Created(mode') \cup Remote \cup {"firewall", "stale"}
      BY <1>0 DEF PlaneParts, Created, PlaneSteps, Plane!WorkerStops, Plane!Leave, Plane!installVars, Plane!mediaVars,
             Plane!plane, Plane!relayVars
    <2>3. DOMAIN media' \subseteq Remote /\ lease' \in [Lease -> Remote \cup {Plane!NoRemote}]
      BY <1>0 DEF PlaneParts, Created, PlaneSteps, Plane!WorkerStops, Plane!Leave, Plane!installVars, Plane!mediaVars,
             Plane!plane, Plane!relayVars
    <2>4. planeWorker' \in [Plane!Worker -> {"off", "run", "done"}]
      BY <1>0 DEF PlaneParts, Created, PlaneSteps, Plane!WorkerStops, Plane!Leave, Plane!installVars, Plane!mediaVars,
             Plane!plane, Plane!relayVars
    <2>5. failure' \in {"empty", "queued", "taken"} /\ result' \in {"none", "clean", "failed"}
      BY <1>0 DEF PlaneParts, Created, PlaneSteps, Plane!WorkerStops, Plane!Leave, Plane!installVars, Plane!mediaVars,
             Plane!plane, Plane!relayVars
    <2>6. relay' \in {"open", "failed", "closed"} /\ planeQueue' \in 0 .. QueueCap
      BY <1>0 DEF PlaneParts, Plane!PlaneConstants, Plane!WorkerStops, Plane!Leave, Plane!installVars,
             Plane!mediaVars, Plane!plane, Plane!relayVars
    <2> QED
      BY <2>1, <2>2, <2>3, <2>4, <2>5, <2>6, PlaneTyped DEF PlaneTypes, PlaneParts
  <1>2. PlaneMedia'
    BY <1>0, PlaneOrder DEF PlaneParts, PlaneMedia, Plane!Running, Plane!Closed, Plane!Held, Installing,
           Plane!NoRemote, Plane!PlaneConstants, Plane!WorkerStops, Plane!Leave, Plane!installVars, Plane!mediaVars,
           Plane!plane, Plane!relayVars
  <1>3. PlaneKernel'
    BY <1>0, PlaneOrder DEF PlaneParts, PlaneKernel, PlaneMedia, Listing, Plane!Owned, Plane!Creating, Plane!Private,
           Plane!Running, Plane!Closed, Plane!OnLink, Plane!PlaneConstants, Created, PlaneSteps, PlaneWorkers,
           Plane!Worker, Plane!WorkerStops, Plane!Leave, Plane!installVars, Plane!mediaVars, Plane!plane,
           Plane!relayVars
  <1>4. PlaneWorkers'
    BY <1>0, PlaneOrder DEF PlaneParts, PlaneWorkers, PlaneKernel, Ending, Plane!Worker, Plane!Running,
           Plane!WorkerStops, Plane!Leave, Plane!installVars, Plane!mediaVars, Plane!plane, Plane!relayVars
  <1>5. PlaneClean'
    BY <1>0, PlaneOrder DEF PlaneParts, PlaneClean, PlaneWorkers, PlaneKernel, Ending, Plane!OnLink, Plane!Worker,
           Plane!Running, Plane!WorkerStops, Plane!Leave, Plane!installVars, Plane!mediaVars, Plane!plane,
           Plane!relayVars
  <1>6. PlaneReports'
    BY <1>0, PlaneOrder DEF PlaneParts, PlaneReports, PlaneWorkers, PlaneKernel, Plane!StopsReported, Plane!Closed,
           Plane!Running, Plane!Worker, Plane!WorkerStops, Plane!Leave, Plane!installVars, Plane!mediaVars,
           Plane!plane, Plane!relayVars
  <1> QED
    BY <1>1, <1>2, <1>3, <1>4, <1>5, <1>6 DEF PlaneInv

\* A goroutine finds the interface gone.
LEMMA PlaneLinkLost ==
    ASSUME PlaneInv, Plane!PlaneConstants, NEW w \in Plane!Worker, Plane!LinkLost(w)
    PROVE  PlaneInv'
  <1>0. PlaneParts /\ PlaneMedia /\ PlaneKernel /\ PlaneWorkers /\ PlaneClean /\ PlaneReports
    BY PlaneTyped DEF PlaneInv, PlaneTypes
  <1>1. PlaneTypes'
    <2>1. mode' \in {"userspace", "xfrm"} /\ hpc' \in Created(mode') \cup PlaneSteps
      BY <1>0 DEF PlaneParts, Created, PlaneSteps, Plane!LinkLost, Plane!Leave, Plane!LinkGone, Plane!installVars,
             Plane!mediaVars, Plane!plane, Plane!relayVars
    <2>2. kernel' \subseteq Created(mode') \cup Remote \cup {"firewall", "stale"}
      BY <1>0 DEF PlaneParts, Created, PlaneSteps, Plane!LinkLost, Plane!Leave, Plane!LinkGone, Plane!installVars,
             Plane!mediaVars, Plane!plane, Plane!relayVars
    <2>3. DOMAIN media' \subseteq Remote /\ lease' \in [Lease -> Remote \cup {Plane!NoRemote}]
      BY <1>0 DEF PlaneParts, Created, PlaneSteps, Plane!LinkLost, Plane!Leave, Plane!LinkGone, Plane!installVars,
             Plane!mediaVars, Plane!plane, Plane!relayVars
    <2>4. planeWorker' \in [Plane!Worker -> {"off", "run", "done"}]
      BY <1>0 DEF PlaneParts, Created, PlaneSteps, Plane!LinkLost, Plane!Leave, Plane!LinkGone, Plane!installVars,
             Plane!mediaVars, Plane!plane, Plane!relayVars
    <2>5. failure' \in {"empty", "queued", "taken"} /\ result' \in {"none", "clean", "failed"}
      BY <1>0 DEF PlaneParts, Created, PlaneSteps, Plane!LinkLost, Plane!Leave, Plane!LinkGone, Plane!installVars,
             Plane!mediaVars, Plane!plane, Plane!relayVars
    <2>6. relay' \in {"open", "failed", "closed"} /\ planeQueue' \in 0 .. QueueCap
      BY <1>0 DEF PlaneParts, Plane!PlaneConstants, Plane!LinkLost, Plane!Leave, Plane!LinkGone, Plane!installVars,
             Plane!mediaVars, Plane!plane, Plane!relayVars
    <2> QED
      BY <2>1, <2>2, <2>3, <2>4, <2>5, <2>6, PlaneTyped DEF PlaneTypes, PlaneParts
  <1>2. PlaneMedia'
    BY <1>0, PlaneOrder DEF PlaneParts, PlaneMedia, Plane!Running, Plane!Closed, Plane!Held, Installing,
           Plane!NoRemote, Plane!PlaneConstants, Plane!LinkLost, Plane!Leave, Plane!LinkGone, Plane!installVars,
           Plane!mediaVars, Plane!plane, Plane!relayVars
  <1>3. PlaneKernel'
    BY <1>0, PlaneOrder DEF PlaneParts, PlaneKernel, PlaneMedia, Listing, Plane!Owned, Plane!Creating, Plane!Private,
           Plane!Running, Plane!Closed, Plane!OnLink, Plane!PlaneConstants, Created, PlaneSteps, PlaneWorkers,
           Plane!Worker, Plane!LinkLost, Plane!Leave, Plane!LinkGone, Plane!installVars, Plane!mediaVars, Plane!plane,
           Plane!relayVars
  <1>4. PlaneWorkers'
    BY <1>0, PlaneOrder DEF PlaneParts, PlaneWorkers, PlaneKernel, Ending, Plane!Worker, Plane!Running,
           Plane!LinkLost, Plane!Leave, Plane!LinkGone, Plane!installVars, Plane!mediaVars, Plane!plane,
           Plane!relayVars
  <1>5. PlaneClean'
    BY <1>0, PlaneOrder DEF PlaneParts, PlaneClean, PlaneWorkers, PlaneKernel, Ending, Plane!OnLink, Plane!Worker,
           Plane!Running, Plane!LinkLost, Plane!Leave, Plane!LinkGone, Plane!installVars, Plane!mediaVars,
           Plane!plane, Plane!relayVars
  <1>6. PlaneReports'
    BY <1>0, PlaneOrder DEF PlaneParts, PlaneReports, PlaneWorkers, PlaneKernel, Plane!StopsReported, Plane!Closed,
           Plane!Running, Plane!Worker, Plane!LinkLost, Plane!Leave, Plane!LinkGone, Plane!installVars,
           Plane!mediaVars, Plane!plane, Plane!relayVars
  <1> QED
    BY <1>1, <1>2, <1>3, <1>4, <1>5, <1>6 DEF PlaneInv

\* The way out fails.
LEMMA PlaneOutFails ==
    ASSUME PlaneInv, Plane!PlaneConstants, Plane!OutFails
    PROVE  PlaneInv'
  <1>0. PlaneParts /\ PlaneMedia /\ PlaneKernel /\ PlaneWorkers /\ PlaneClean /\ PlaneReports
    BY PlaneTyped DEF PlaneInv, PlaneTypes
  <1>1. PlaneTypes'
    <2>1. mode' \in {"userspace", "xfrm"} /\ hpc' \in Created(mode') \cup PlaneSteps
      BY <1>0 DEF PlaneParts, Created, PlaneSteps, Plane!OutFails, Plane!Leave, Plane!Fail, Plane!installVars,
             Plane!mediaVars, Plane!plane, Plane!relayVars
    <2>2. kernel' \subseteq Created(mode') \cup Remote \cup {"firewall", "stale"}
      BY <1>0 DEF PlaneParts, Created, PlaneSteps, Plane!OutFails, Plane!Leave, Plane!Fail, Plane!installVars,
             Plane!mediaVars, Plane!plane, Plane!relayVars
    <2>3. DOMAIN media' \subseteq Remote /\ lease' \in [Lease -> Remote \cup {Plane!NoRemote}]
      BY <1>0 DEF PlaneParts, Created, PlaneSteps, Plane!OutFails, Plane!Leave, Plane!Fail, Plane!installVars,
             Plane!mediaVars, Plane!plane, Plane!relayVars
    <2>4. planeWorker' \in [Plane!Worker -> {"off", "run", "done"}]
      BY <1>0 DEF PlaneParts, Created, PlaneSteps, Plane!OutFails, Plane!Leave, Plane!Fail, Plane!installVars,
             Plane!mediaVars, Plane!plane, Plane!relayVars
    <2>5. failure' \in {"empty", "queued", "taken"} /\ result' \in {"none", "clean", "failed"}
      BY <1>0 DEF PlaneParts, Created, PlaneSteps, Plane!OutFails, Plane!Leave, Plane!Fail, Plane!installVars,
             Plane!mediaVars, Plane!plane, Plane!relayVars
    <2>6. relay' \in {"open", "failed", "closed"} /\ planeQueue' \in 0 .. QueueCap
      BY <1>0 DEF PlaneParts, Plane!PlaneConstants, Plane!OutFails, Plane!Leave, Plane!Fail, Plane!installVars,
             Plane!mediaVars, Plane!plane, Plane!relayVars
    <2> QED
      BY <2>1, <2>2, <2>3, <2>4, <2>5, <2>6, PlaneTyped DEF PlaneTypes, PlaneParts
  <1>2. PlaneMedia'
    BY <1>0, PlaneOrder DEF PlaneParts, PlaneMedia, Plane!Running, Plane!Closed, Plane!Held, Installing,
           Plane!NoRemote, Plane!PlaneConstants, Plane!OutFails, Plane!Leave, Plane!Fail, Plane!installVars,
           Plane!mediaVars, Plane!plane, Plane!relayVars
  <1>3. PlaneKernel'
    BY <1>0, PlaneOrder DEF PlaneParts, PlaneKernel, PlaneMedia, Listing, Plane!Owned, Plane!Creating, Plane!Private,
           Plane!Running, Plane!Closed, Plane!OnLink, Plane!PlaneConstants, Created, PlaneSteps, PlaneWorkers,
           Plane!Worker, Plane!OutFails, Plane!Leave, Plane!Fail, Plane!installVars, Plane!mediaVars, Plane!plane,
           Plane!relayVars
  <1>4. PlaneWorkers'
    BY <1>0, PlaneOrder DEF PlaneParts, PlaneWorkers, PlaneKernel, Ending, Plane!Worker, Plane!Running,
           Plane!OutFails, Plane!Leave, Plane!Fail, Plane!installVars, Plane!mediaVars, Plane!plane, Plane!relayVars
  <1>5. PlaneClean'
    BY <1>0, PlaneOrder DEF PlaneParts, PlaneClean, PlaneWorkers, PlaneKernel, Ending, Plane!OnLink, Plane!Worker,
           Plane!Running, Plane!OutFails, Plane!Leave, Plane!Fail, Plane!installVars, Plane!mediaVars, Plane!plane,
           Plane!relayVars
  <1>6. PlaneReports'
    BY <1>0, PlaneOrder DEF PlaneParts, PlaneReports, PlaneWorkers, PlaneKernel, Plane!StopsReported, Plane!Closed,
           Plane!Running, Plane!Worker, Plane!OutFails, Plane!Leave, Plane!Fail, Plane!installVars, Plane!mediaVars,
           Plane!plane, Plane!relayVars
  <1> QED
    BY <1>1, <1>2, <1>3, <1>4, <1>5, <1>6 DEF PlaneInv

\* A packet comes in.
LEMMA PlaneInbound ==
    ASSUME PlaneInv, Plane!PlaneConstants, Plane!Inbound
    PROVE  PlaneInv'
  <1>0. PlaneParts /\ PlaneMedia /\ PlaneKernel /\ PlaneWorkers /\ PlaneClean /\ PlaneReports
    BY PlaneTyped DEF PlaneInv, PlaneTypes
  <1>1. PlaneTypes'
    <2>1. mode' \in {"userspace", "xfrm"} /\ hpc' \in Created(mode') \cup PlaneSteps
      BY <1>0 DEF PlaneParts, Created, PlaneSteps, Plane!Inbound, Plane!installVars, Plane!mediaVars, Plane!plane,
             Plane!relayVars
    <2>2. kernel' \subseteq Created(mode') \cup Remote \cup {"firewall", "stale"}
      BY <1>0 DEF PlaneParts, Created, PlaneSteps, Plane!Inbound, Plane!installVars, Plane!mediaVars, Plane!plane,
             Plane!relayVars
    <2>3. DOMAIN media' \subseteq Remote /\ lease' \in [Lease -> Remote \cup {Plane!NoRemote}]
      BY <1>0 DEF PlaneParts, Created, PlaneSteps, Plane!Inbound, Plane!installVars, Plane!mediaVars, Plane!plane,
             Plane!relayVars
    <2>4. planeWorker' \in [Plane!Worker -> {"off", "run", "done"}]
      BY <1>0 DEF PlaneParts, Created, PlaneSteps, Plane!Inbound, Plane!installVars, Plane!mediaVars, Plane!plane,
             Plane!relayVars
    <2>5. failure' \in {"empty", "queued", "taken"} /\ result' \in {"none", "clean", "failed"}
      BY <1>0 DEF PlaneParts, Created, PlaneSteps, Plane!Inbound, Plane!installVars, Plane!mediaVars, Plane!plane,
             Plane!relayVars
    <2>6. relay' \in {"open", "failed", "closed"} /\ planeQueue' \in 0 .. QueueCap
      BY <1>0 DEF PlaneParts, Plane!PlaneConstants, Plane!Inbound, Plane!installVars, Plane!mediaVars, Plane!plane,
             Plane!relayVars
    <2> QED
      BY <2>1, <2>2, <2>3, <2>4, <2>5, <2>6, PlaneTyped DEF PlaneTypes, PlaneParts
  <1>2. PlaneMedia'
    BY <1>0, PlaneOrder DEF PlaneParts, PlaneMedia, Plane!Running, Plane!Closed, Plane!Held, Installing,
           Plane!NoRemote, Plane!PlaneConstants, Plane!Inbound, Plane!installVars, Plane!mediaVars, Plane!plane,
           Plane!relayVars
  <1>3. PlaneKernel'
    BY <1>0, PlaneOrder DEF PlaneParts, PlaneKernel, PlaneMedia, Listing, Plane!Owned, Plane!Creating, Plane!Private,
           Plane!Running, Plane!Closed, Plane!OnLink, Plane!PlaneConstants, Created, PlaneSteps, PlaneWorkers,
           Plane!Worker, Plane!Inbound, Plane!installVars, Plane!mediaVars, Plane!plane, Plane!relayVars
  <1>4. PlaneWorkers'
    BY <1>0, PlaneOrder DEF PlaneParts, PlaneWorkers, PlaneKernel, Ending, Plane!Worker, Plane!Running, Plane!Inbound,
           Plane!installVars, Plane!mediaVars, Plane!plane, Plane!relayVars
  <1>5. PlaneClean'
    BY <1>0, PlaneOrder DEF PlaneParts, PlaneClean, PlaneWorkers, PlaneKernel, Ending, Plane!OnLink, Plane!Worker,
           Plane!Running, Plane!Inbound, Plane!installVars, Plane!mediaVars, Plane!plane, Plane!relayVars
  <1>6. PlaneReports'
    BY <1>0, PlaneOrder DEF PlaneParts, PlaneReports, PlaneWorkers, PlaneKernel, Plane!StopsReported, Plane!Closed,
           Plane!Running, Plane!Worker, Plane!Inbound, Plane!installVars, Plane!mediaVars, Plane!plane,
           Plane!relayVars
  <1> QED
    BY <1>1, <1>2, <1>3, <1>4, <1>5, <1>6 DEF PlaneInv

\* The way in fails.
LEMMA PlaneInFails ==
    ASSUME PlaneInv, Plane!PlaneConstants, Plane!InFails
    PROVE  PlaneInv'
  <1>0. PlaneParts /\ PlaneMedia /\ PlaneKernel /\ PlaneWorkers /\ PlaneClean /\ PlaneReports
    BY PlaneTyped DEF PlaneInv, PlaneTypes
  <1>1. PlaneTypes'
    <2>1. mode' \in {"userspace", "xfrm"} /\ hpc' \in Created(mode') \cup PlaneSteps
      BY <1>0 DEF PlaneParts, Created, PlaneSteps, Plane!InFails, Plane!Leave, Plane!Fail, Plane!installVars,
             Plane!mediaVars, Plane!plane, Plane!relayVars
    <2>2. kernel' \subseteq Created(mode') \cup Remote \cup {"firewall", "stale"}
      BY <1>0 DEF PlaneParts, Created, PlaneSteps, Plane!InFails, Plane!Leave, Plane!Fail, Plane!installVars,
             Plane!mediaVars, Plane!plane, Plane!relayVars
    <2>3. DOMAIN media' \subseteq Remote /\ lease' \in [Lease -> Remote \cup {Plane!NoRemote}]
      BY <1>0 DEF PlaneParts, Created, PlaneSteps, Plane!InFails, Plane!Leave, Plane!Fail, Plane!installVars,
             Plane!mediaVars, Plane!plane, Plane!relayVars
    <2>4. planeWorker' \in [Plane!Worker -> {"off", "run", "done"}]
      BY <1>0 DEF PlaneParts, Created, PlaneSteps, Plane!InFails, Plane!Leave, Plane!Fail, Plane!installVars,
             Plane!mediaVars, Plane!plane, Plane!relayVars
    <2>5. failure' \in {"empty", "queued", "taken"} /\ result' \in {"none", "clean", "failed"}
      BY <1>0 DEF PlaneParts, Created, PlaneSteps, Plane!InFails, Plane!Leave, Plane!Fail, Plane!installVars,
             Plane!mediaVars, Plane!plane, Plane!relayVars
    <2>6. relay' \in {"open", "failed", "closed"} /\ planeQueue' \in 0 .. QueueCap
      BY <1>0 DEF PlaneParts, Plane!PlaneConstants, Plane!InFails, Plane!Leave, Plane!Fail, Plane!installVars,
             Plane!mediaVars, Plane!plane, Plane!relayVars
    <2> QED
      BY <2>1, <2>2, <2>3, <2>4, <2>5, <2>6, PlaneTyped DEF PlaneTypes, PlaneParts
  <1>2. PlaneMedia'
    BY <1>0, PlaneOrder DEF PlaneParts, PlaneMedia, Plane!Running, Plane!Closed, Plane!Held, Installing,
           Plane!NoRemote, Plane!PlaneConstants, Plane!InFails, Plane!Leave, Plane!Fail, Plane!installVars,
           Plane!mediaVars, Plane!plane, Plane!relayVars
  <1>3. PlaneKernel'
    BY <1>0, PlaneOrder DEF PlaneParts, PlaneKernel, PlaneMedia, Listing, Plane!Owned, Plane!Creating, Plane!Private,
           Plane!Running, Plane!Closed, Plane!OnLink, Plane!PlaneConstants, Created, PlaneSteps, PlaneWorkers,
           Plane!Worker, Plane!InFails, Plane!Leave, Plane!Fail, Plane!installVars, Plane!mediaVars, Plane!plane,
           Plane!relayVars
  <1>4. PlaneWorkers'
    BY <1>0, PlaneOrder DEF PlaneParts, PlaneWorkers, PlaneKernel, Ending, Plane!Worker, Plane!Running, Plane!InFails,
           Plane!Leave, Plane!Fail, Plane!installVars, Plane!mediaVars, Plane!plane, Plane!relayVars
  <1>5. PlaneClean'
    BY <1>0, PlaneOrder DEF PlaneParts, PlaneClean, PlaneWorkers, PlaneKernel, Ending, Plane!OnLink, Plane!Worker,
           Plane!Running, Plane!InFails, Plane!Leave, Plane!Fail, Plane!installVars, Plane!mediaVars, Plane!plane,
           Plane!relayVars
  <1>6. PlaneReports'
    BY <1>0, PlaneOrder DEF PlaneParts, PlaneReports, PlaneWorkers, PlaneKernel, Plane!StopsReported, Plane!Closed,
           Plane!Running, Plane!Worker, Plane!InFails, Plane!Leave, Plane!Fail, Plane!installVars, Plane!mediaVars,
           Plane!plane, Plane!relayVars
  <1> QED
    BY <1>1, <1>2, <1>3, <1>4, <1>5, <1>6 DEF PlaneInv

\* The firewall is kept.
LEMMA PlaneMaintain ==
    ASSUME PlaneInv, Plane!PlaneConstants, Plane!Maintain
    PROVE  PlaneInv'
  <1>0. PlaneParts /\ PlaneMedia /\ PlaneKernel /\ PlaneWorkers /\ PlaneClean /\ PlaneReports
    BY PlaneTyped DEF PlaneInv, PlaneTypes
  <1>1. PlaneTypes'
    <2>1. mode' \in {"userspace", "xfrm"} /\ hpc' \in Created(mode') \cup PlaneSteps
      BY <1>0 DEF PlaneParts, Created, PlaneSteps, Plane!Maintain, Plane!installVars, Plane!mediaVars, Plane!plane,
             Plane!relayVars
    <2>2. kernel' \subseteq Created(mode') \cup Remote \cup {"firewall", "stale"}
      BY <1>0 DEF PlaneParts, Created, PlaneSteps, Plane!Maintain, Plane!installVars, Plane!mediaVars, Plane!plane,
             Plane!relayVars
    <2>3. DOMAIN media' \subseteq Remote /\ lease' \in [Lease -> Remote \cup {Plane!NoRemote}]
      BY <1>0 DEF PlaneParts, Created, PlaneSteps, Plane!Maintain, Plane!installVars, Plane!mediaVars, Plane!plane,
             Plane!relayVars
    <2>4. planeWorker' \in [Plane!Worker -> {"off", "run", "done"}]
      BY <1>0 DEF PlaneParts, Created, PlaneSteps, Plane!Maintain, Plane!installVars, Plane!mediaVars, Plane!plane,
             Plane!relayVars
    <2>5. failure' \in {"empty", "queued", "taken"} /\ result' \in {"none", "clean", "failed"}
      BY <1>0 DEF PlaneParts, Created, PlaneSteps, Plane!Maintain, Plane!installVars, Plane!mediaVars, Plane!plane,
             Plane!relayVars
    <2>6. relay' \in {"open", "failed", "closed"} /\ planeQueue' \in 0 .. QueueCap
      BY <1>0 DEF PlaneParts, Plane!PlaneConstants, Plane!Maintain, Plane!installVars, Plane!mediaVars, Plane!plane,
             Plane!relayVars
    <2> QED
      BY <2>1, <2>2, <2>3, <2>4, <2>5, <2>6, PlaneTyped DEF PlaneTypes, PlaneParts
  <1>2. PlaneMedia'
    BY <1>0, PlaneOrder DEF PlaneParts, PlaneMedia, Plane!Running, Plane!Closed, Plane!Held, Installing,
           Plane!NoRemote, Plane!PlaneConstants, Plane!Maintain, Plane!installVars, Plane!mediaVars, Plane!plane,
           Plane!relayVars
  <1>3. PlaneKernel'
    BY <1>0, PlaneOrder DEF PlaneParts, PlaneKernel, PlaneMedia, Listing, Plane!Owned, Plane!Creating, Plane!Private,
           Plane!Running, Plane!Closed, Plane!OnLink, Plane!PlaneConstants, Created, PlaneSteps, PlaneWorkers,
           Plane!Worker, Plane!Maintain, Plane!installVars, Plane!mediaVars, Plane!plane, Plane!relayVars
  <1>4. PlaneWorkers'
    BY <1>0, PlaneOrder DEF PlaneParts, PlaneWorkers, PlaneKernel, Ending, Plane!Worker, Plane!Running,
           Plane!Maintain, Plane!installVars, Plane!mediaVars, Plane!plane, Plane!relayVars
  <1>5. PlaneClean'
    BY <1>0, PlaneOrder DEF PlaneParts, PlaneClean, PlaneWorkers, PlaneKernel, Ending, Plane!OnLink, Plane!Worker,
           Plane!Running, Plane!Maintain, Plane!installVars, Plane!mediaVars, Plane!plane, Plane!relayVars
  <1>6. PlaneReports'
    BY <1>0, PlaneOrder DEF PlaneParts, PlaneReports, PlaneWorkers, PlaneKernel, Plane!StopsReported, Plane!Closed,
           Plane!Running, Plane!Worker, Plane!Maintain, Plane!installVars, Plane!mediaVars, Plane!plane,
           Plane!relayVars
  <1> QED
    BY <1>1, <1>2, <1>3, <1>4, <1>5, <1>6 DEF PlaneInv

\* A packet reaches the relay.
LEMMA PlanePacket ==
    ASSUME PlaneInv, Plane!PlaneConstants, Plane!Packet
    PROVE  PlaneInv'
  <1>0. PlaneParts /\ PlaneMedia /\ PlaneKernel /\ PlaneWorkers /\ PlaneClean /\ PlaneReports
    BY PlaneTyped DEF PlaneInv, PlaneTypes
  <1>1. PlaneTypes'
    <2>1. mode' \in {"userspace", "xfrm"} /\ hpc' \in Created(mode') \cup PlaneSteps
      BY <1>0 DEF PlaneParts, Created, PlaneSteps, Plane!Packet, Plane!installVars, Plane!mediaVars, Plane!plane,
             Plane!relayVars
    <2>2. kernel' \subseteq Created(mode') \cup Remote \cup {"firewall", "stale"}
      BY <1>0 DEF PlaneParts, Created, PlaneSteps, Plane!Packet, Plane!installVars, Plane!mediaVars, Plane!plane,
             Plane!relayVars
    <2>3. DOMAIN media' \subseteq Remote /\ lease' \in [Lease -> Remote \cup {Plane!NoRemote}]
      BY <1>0 DEF PlaneParts, Created, PlaneSteps, Plane!Packet, Plane!installVars, Plane!mediaVars, Plane!plane,
             Plane!relayVars
    <2>4. planeWorker' \in [Plane!Worker -> {"off", "run", "done"}]
      BY <1>0 DEF PlaneParts, Created, PlaneSteps, Plane!Packet, Plane!installVars, Plane!mediaVars, Plane!plane,
             Plane!relayVars
    <2>5. failure' \in {"empty", "queued", "taken"} /\ result' \in {"none", "clean", "failed"}
      BY <1>0 DEF PlaneParts, Created, PlaneSteps, Plane!Packet, Plane!installVars, Plane!mediaVars, Plane!plane,
             Plane!relayVars
    <2>6. relay' \in {"open", "failed", "closed"} /\ planeQueue' \in 0 .. QueueCap
      BY <1>0 DEF PlaneParts, Plane!PlaneConstants, Plane!Packet, Plane!installVars, Plane!mediaVars, Plane!plane,
             Plane!relayVars
    <2> QED
      BY <2>1, <2>2, <2>3, <2>4, <2>5, <2>6, PlaneTyped DEF PlaneTypes, PlaneParts
  <1>2. PlaneMedia'
    BY <1>0, PlaneOrder DEF PlaneParts, PlaneMedia, Plane!Running, Plane!Closed, Plane!Held, Installing,
           Plane!NoRemote, Plane!PlaneConstants, Plane!Packet, Plane!installVars, Plane!mediaVars, Plane!plane,
           Plane!relayVars
  <1>3. PlaneKernel'
    BY <1>0, PlaneOrder DEF PlaneParts, PlaneKernel, PlaneMedia, Listing, Plane!Owned, Plane!Creating, Plane!Private,
           Plane!Running, Plane!Closed, Plane!OnLink, Plane!PlaneConstants, Created, PlaneSteps, PlaneWorkers,
           Plane!Worker, Plane!Packet, Plane!installVars, Plane!mediaVars, Plane!plane, Plane!relayVars
  <1>4. PlaneWorkers'
    BY <1>0, PlaneOrder DEF PlaneParts, PlaneWorkers, PlaneKernel, Ending, Plane!Worker, Plane!Running, Plane!Packet,
           Plane!installVars, Plane!mediaVars, Plane!plane, Plane!relayVars
  <1>5. PlaneClean'
    BY <1>0, PlaneOrder DEF PlaneParts, PlaneClean, PlaneWorkers, PlaneKernel, Ending, Plane!OnLink, Plane!Worker,
           Plane!Running, Plane!Packet, Plane!installVars, Plane!mediaVars, Plane!plane, Plane!relayVars
  <1>6. PlaneReports'
    BY <1>0, PlaneOrder DEF PlaneParts, PlaneReports, PlaneWorkers, PlaneKernel, Plane!StopsReported, Plane!Closed,
           Plane!Running, Plane!Worker, Plane!Packet, Plane!installVars, Plane!mediaVars, Plane!plane, Plane!relayVars
  <1> QED
    BY <1>1, <1>2, <1>3, <1>4, <1>5, <1>6 DEF PlaneInv

\* The relay fails.
LEMMA PlaneRelayFails ==
    ASSUME PlaneInv, Plane!PlaneConstants, Plane!RelayFails
    PROVE  PlaneInv'
  <1>0. PlaneParts /\ PlaneMedia /\ PlaneKernel /\ PlaneWorkers /\ PlaneClean /\ PlaneReports
    BY PlaneTyped DEF PlaneInv, PlaneTypes
  <1>1. PlaneTypes'
    <2>1. mode' \in {"userspace", "xfrm"} /\ hpc' \in Created(mode') \cup PlaneSteps
      BY <1>0 DEF PlaneParts, Created, PlaneSteps, Plane!RelayFails, Plane!installVars, Plane!mediaVars, Plane!plane,
             Plane!relayVars
    <2>2. kernel' \subseteq Created(mode') \cup Remote \cup {"firewall", "stale"}
      BY <1>0 DEF PlaneParts, Created, PlaneSteps, Plane!RelayFails, Plane!installVars, Plane!mediaVars, Plane!plane,
             Plane!relayVars
    <2>3. DOMAIN media' \subseteq Remote /\ lease' \in [Lease -> Remote \cup {Plane!NoRemote}]
      BY <1>0 DEF PlaneParts, Created, PlaneSteps, Plane!RelayFails, Plane!installVars, Plane!mediaVars, Plane!plane,
             Plane!relayVars
    <2>4. planeWorker' \in [Plane!Worker -> {"off", "run", "done"}]
      BY <1>0 DEF PlaneParts, Created, PlaneSteps, Plane!RelayFails, Plane!installVars, Plane!mediaVars, Plane!plane,
             Plane!relayVars
    <2>5. failure' \in {"empty", "queued", "taken"} /\ result' \in {"none", "clean", "failed"}
      BY <1>0 DEF PlaneParts, Created, PlaneSteps, Plane!RelayFails, Plane!installVars, Plane!mediaVars, Plane!plane,
             Plane!relayVars
    <2>6. relay' \in {"open", "failed", "closed"} /\ planeQueue' \in 0 .. QueueCap
      BY <1>0 DEF PlaneParts, Plane!PlaneConstants, Plane!RelayFails, Plane!installVars, Plane!mediaVars, Plane!plane,
             Plane!relayVars
    <2> QED
      BY <2>1, <2>2, <2>3, <2>4, <2>5, <2>6, PlaneTyped DEF PlaneTypes, PlaneParts
  <1>2. PlaneMedia'
    BY <1>0, PlaneOrder DEF PlaneParts, PlaneMedia, Plane!Running, Plane!Closed, Plane!Held, Installing,
           Plane!NoRemote, Plane!PlaneConstants, Plane!RelayFails, Plane!installVars, Plane!mediaVars, Plane!plane,
           Plane!relayVars
  <1>3. PlaneKernel'
    BY <1>0, PlaneOrder DEF PlaneParts, PlaneKernel, PlaneMedia, Listing, Plane!Owned, Plane!Creating, Plane!Private,
           Plane!Running, Plane!Closed, Plane!OnLink, Plane!PlaneConstants, Created, PlaneSteps, PlaneWorkers,
           Plane!Worker, Plane!RelayFails, Plane!installVars, Plane!mediaVars, Plane!plane, Plane!relayVars
  <1>4. PlaneWorkers'
    BY <1>0, PlaneOrder DEF PlaneParts, PlaneWorkers, PlaneKernel, Ending, Plane!Worker, Plane!Running,
           Plane!RelayFails, Plane!installVars, Plane!mediaVars, Plane!plane, Plane!relayVars
  <1>5. PlaneClean'
    BY <1>0, PlaneOrder DEF PlaneParts, PlaneClean, PlaneWorkers, PlaneKernel, Ending, Plane!OnLink, Plane!Worker,
           Plane!Running, Plane!RelayFails, Plane!installVars, Plane!mediaVars, Plane!plane, Plane!relayVars
  <1>6. PlaneReports'
    BY <1>0, PlaneOrder DEF PlaneParts, PlaneReports, PlaneWorkers, PlaneKernel, Plane!StopsReported, Plane!Closed,
           Plane!Running, Plane!Worker, Plane!RelayFails, Plane!installVars, Plane!mediaVars, Plane!plane,
           Plane!relayVars
  <1> QED
    BY <1>1, <1>2, <1>3, <1>4, <1>5, <1>6 DEF PlaneInv

\* The owner closes.
LEMMA PlaneClose ==
    ASSUME PlaneInv, Plane!PlaneConstants, Plane!Close
    PROVE  PlaneInv'
  <1>0. PlaneParts /\ PlaneMedia /\ PlaneKernel /\ PlaneWorkers /\ PlaneClean /\ PlaneReports
    BY PlaneTyped DEF PlaneInv, PlaneTypes
  <1>1. PlaneTypes'
    <2>1. mode' \in {"userspace", "xfrm"} /\ hpc' \in Created(mode') \cup PlaneSteps
      BY <1>0 DEF PlaneParts, Created, PlaneSteps, Plane!Close, Plane!installVars, Plane!mediaVars, Plane!plane,
             Plane!relayVars
    <2>2. kernel' \subseteq Created(mode') \cup Remote \cup {"firewall", "stale"}
      BY <1>0 DEF PlaneParts, Created, PlaneSteps, Plane!Close, Plane!installVars, Plane!mediaVars, Plane!plane,
             Plane!relayVars
    <2>3. DOMAIN media' \subseteq Remote /\ lease' \in [Lease -> Remote \cup {Plane!NoRemote}]
      BY <1>0 DEF PlaneParts, Created, PlaneSteps, Plane!Close, Plane!installVars, Plane!mediaVars, Plane!plane,
             Plane!relayVars
    <2>4. planeWorker' \in [Plane!Worker -> {"off", "run", "done"}]
      BY <1>0 DEF PlaneParts, Created, PlaneSteps, Plane!Close, Plane!installVars, Plane!mediaVars, Plane!plane,
             Plane!relayVars
    <2>5. failure' \in {"empty", "queued", "taken"} /\ result' \in {"none", "clean", "failed"}
      BY <1>0 DEF PlaneParts, Created, PlaneSteps, Plane!Close, Plane!installVars, Plane!mediaVars, Plane!plane,
             Plane!relayVars
    <2>6. relay' \in {"open", "failed", "closed"} /\ planeQueue' \in 0 .. QueueCap
      BY <1>0 DEF PlaneParts, Plane!PlaneConstants, Plane!Close, Plane!installVars, Plane!mediaVars, Plane!plane,
             Plane!relayVars
    <2> QED
      BY <2>1, <2>2, <2>3, <2>4, <2>5, <2>6, PlaneTyped DEF PlaneTypes, PlaneParts
  <1>2. PlaneMedia'
    BY <1>0, PlaneOrder DEF PlaneParts, PlaneMedia, Plane!Running, Plane!Closed, Plane!Held, Installing,
           Plane!NoRemote, Plane!PlaneConstants, Plane!Close, Plane!installVars, Plane!mediaVars, Plane!plane,
           Plane!relayVars
  <1>3. PlaneKernel'
    BY <1>0, PlaneOrder DEF PlaneParts, PlaneKernel, PlaneMedia, Listing, Plane!Owned, Plane!Creating, Plane!Private,
           Plane!Running, Plane!Closed, Plane!OnLink, Plane!PlaneConstants, Created, PlaneSteps, PlaneWorkers,
           Plane!Worker, Plane!Close, Plane!installVars, Plane!mediaVars, Plane!plane, Plane!relayVars
  <1>4. PlaneWorkers'
    BY <1>0, PlaneOrder DEF PlaneParts, PlaneWorkers, PlaneKernel, Ending, Plane!Worker, Plane!Running, Plane!Close,
           Plane!installVars, Plane!mediaVars, Plane!plane, Plane!relayVars
  <1>5. PlaneClean'
    BY <1>0, PlaneOrder DEF PlaneParts, PlaneClean, PlaneWorkers, PlaneKernel, Ending, Plane!OnLink, Plane!Worker,
           Plane!Running, Plane!Close, Plane!installVars, Plane!mediaVars, Plane!plane, Plane!relayVars
  <1>6. PlaneReports'
    BY <1>0, PlaneOrder DEF PlaneParts, PlaneReports, PlaneWorkers, PlaneKernel, Plane!StopsReported, Plane!Closed,
           Plane!Running, Plane!Worker, Plane!Close, Plane!installVars, Plane!mediaVars, Plane!plane, Plane!relayVars
  <1> QED
    BY <1>1, <1>2, <1>3, <1>4, <1>5, <1>6 DEF PlaneInv

\* A call asks for a route.
LEMMA PlaneOpenMediaRoute ==
    ASSUME PlaneInv, Plane!PlaneConstants, NEW l \in Lease, NEW r \in Remote, Plane!OpenMediaRoute(l, r)
    PROVE  PlaneInv'
  <1>0. PlaneParts /\ PlaneMedia /\ PlaneKernel /\ PlaneWorkers /\ PlaneClean /\ PlaneReports
    BY PlaneTyped DEF PlaneInv, PlaneTypes
  <1>1. PlaneTypes'
    <2>1. mode' \in {"userspace", "xfrm"} /\ hpc' \in Created(mode') \cup PlaneSteps
      BY <1>0 DEF PlaneParts, Created, PlaneSteps, Plane!OpenMediaRoute, Plane!Adds, Plane!installVars,
             Plane!mediaVars, Plane!plane, Plane!relayVars
    <2>2. kernel' \subseteq Created(mode') \cup Remote \cup {"firewall", "stale"}
      BY <1>0 DEF PlaneParts, Created, PlaneSteps, Plane!OpenMediaRoute, Plane!Adds, Plane!installVars,
             Plane!mediaVars, Plane!plane, Plane!relayVars
    <2>3. DOMAIN media' \subseteq Remote /\ lease' \in [Lease -> Remote \cup {Plane!NoRemote}]
      BY <1>0 DEF PlaneParts, Created, PlaneSteps, Plane!OpenMediaRoute, Plane!Adds, Plane!installVars,
             Plane!mediaVars, Plane!plane, Plane!relayVars
    <2>4. planeWorker' \in [Plane!Worker -> {"off", "run", "done"}]
      BY <1>0 DEF PlaneParts, Created, PlaneSteps, Plane!OpenMediaRoute, Plane!Adds, Plane!installVars,
             Plane!mediaVars, Plane!plane, Plane!relayVars
    <2>5. failure' \in {"empty", "queued", "taken"} /\ result' \in {"none", "clean", "failed"}
      BY <1>0 DEF PlaneParts, Created, PlaneSteps, Plane!OpenMediaRoute, Plane!Adds, Plane!installVars,
             Plane!mediaVars, Plane!plane, Plane!relayVars
    <2>6. relay' \in {"open", "failed", "closed"} /\ planeQueue' \in 0 .. QueueCap
      BY <1>0 DEF PlaneParts, Plane!PlaneConstants, Plane!OpenMediaRoute, Plane!Adds, Plane!installVars,
             Plane!mediaVars, Plane!plane, Plane!relayVars
    <2> QED
      BY <2>1, <2>2, <2>3, <2>4, <2>5, <2>6, PlaneTyped DEF PlaneTypes, PlaneParts
  <1>2. PlaneMedia'
    <2>0. /\ lease[l] = Plane!NoRemote /\ Plane!Running /\ mode = "userspace"
          /\ UNCHANGED <<mode, hpc, taken>>
      BY DEF Plane!OpenMediaRoute, Plane!installVars, Plane!mediaVars
    <2>1. r \notin {Plane!NoRemote} /\ r # "link"
      BY DEF Plane!PlaneConstants
    <2>2. DOMAIN media \subseteq Remote /\ lease \in [Lease -> Remote \cup {Plane!NoRemote}]
      BY <1>0 DEF PlaneParts
    <2>3. CASE lease' = [lease EXCEPT ![l] = r]
      <3>1. \A x \in Remote : Plane!Held(x)' = IF x = r THEN Plane!Held(r) \cup {l} ELSE Plane!Held(x)
        BY <2>0, <2>1, <2>2, <2>3 DEF Plane!Held, Plane!PlaneConstants
      <3>2. Cardinality(Plane!Held(r) \cup {l}) = Cardinality(Plane!Held(r)) + 1
        BY <1>0, <2>0, <2>1, PlaneCounts
      <3>3. /\ media' = [m \in DOMAIN media \cup {r} |-> media'[m]]
            /\ \A m \in DOMAIN media : m # r => media'[m] = media[m]
            /\ media'[r] = Cardinality(Plane!Held(r)) + 1
        <4>1. CASE r \in DOMAIN media /\ media' = [media EXCEPT ![r] = @ + 1]
          BY <1>0, <4>1 DEF PlaneMedia
        <4>2. CASE r \notin DOMAIN media /\ media' = [m \in DOMAIN media \cup {r} |-> IF m = r THEN 1 ELSE media[m]]
          <5>1. Plane!Held(r) = {}
            BY <1>0, <2>0, <2>1, <4>2 DEF PlaneMedia, Plane!Held, Plane!Running, Plane!Closed
          <5>2. Cardinality(Plane!Held(r)) = 0
            BY <1>0, <5>1, PlaneCounts
          <5> QED
            BY <4>2, <5>2
        <4>3. CASE UNCHANGED Plane!mediaVars
          BY <2>0, <2>1, <2>2, <2>3, <4>3 DEF Plane!mediaVars
        <4> QED
          BY <4>1, <4>2, <4>3 DEF Plane!OpenMediaRoute
      <3>4. DOMAIN media' = DOMAIN media \cup {r}
        BY <3>3
      <3>5. \A m \in DOMAIN media' : media'[m] = Cardinality(Plane!Held(m))'
        <4>1. \A x \in Remote : Cardinality(Plane!Held(x))' = IF x = r THEN Cardinality(Plane!Held(r)) + 1 ELSE Cardinality(Plane!Held(x))
          BY <3>1, <3>2
        <4> QED
          BY <1>0, <2>2, <3>3, <3>4, <4>1 DEF PlaneMedia
      <3>6. \A k \in Lease : lease'[k] # Plane!NoRemote => lease'[k] \in DOMAIN media'
        BY <1>0, <2>0, <2>2, <2>3, <3>4 DEF PlaneMedia, Plane!Running, Plane!Closed
      <3>7. r # Pcscf => r \in kernel' \cup taken' \cup unsure'
        <4>1. CASE r \in DOMAIN media /\ UNCHANGED <<kernel, unsure>>
          BY <1>0, <2>0, <4>1 DEF PlaneMedia
        <4>2. CASE r = Pcscf \/ Plane!Adds(r, "ok")
          BY <4>2 DEF Plane!Adds
        <4>3. CASE UNCHANGED Plane!mediaVars
          BY <2>0, <2>1, <2>2, <2>3, <4>3 DEF Plane!mediaVars
        <4> QED
          BY <4>1, <4>2, <4>3 DEF Plane!OpenMediaRoute
      <3>8. kernel \subseteq kernel' /\ unsure \subseteq unsure'
        BY DEF Plane!OpenMediaRoute, Plane!Adds
      <3>9. DOMAIN media' \ {Pcscf} \subseteq kernel' \cup taken' \cup unsure'
        BY <1>0, <2>0, <3>4, <3>7, <3>8 DEF PlaneMedia
      <3> QED
        BY <2>0, <3>3, <3>4, <3>5, <3>6, <3>9 DEF PlaneMedia, Installing, Plane!Running
    <2>4. CASE UNCHANGED <<media, lease>>
      <3>1. kernel \subseteq kernel' /\ unsure \subseteq unsure'
        BY DEF Plane!OpenMediaRoute, Plane!Adds
      <3> QED
        BY <1>0, <2>0, <2>4, <3>1 DEF PlaneMedia, Installing, Plane!Running, Plane!Closed, Plane!Held
    <2> QED
      BY <2>3, <2>4 DEF Plane!OpenMediaRoute, Plane!mediaVars
  <1>3. PlaneKernel'
    BY <1>0, PlaneOrder DEF PlaneParts, PlaneKernel, PlaneMedia, Listing, Plane!Owned, Plane!Creating, Plane!Private,
           Plane!Running, Plane!Closed, Plane!OnLink, Plane!PlaneConstants, Created, PlaneSteps, PlaneWorkers,
           Plane!Worker, Plane!OpenMediaRoute, Plane!Adds, Plane!installVars, Plane!mediaVars, Plane!plane,
           Plane!relayVars
  <1>4. PlaneWorkers'
    BY <1>0, PlaneOrder DEF PlaneParts, PlaneWorkers, PlaneKernel, Ending, Plane!Worker, Plane!Running,
           Plane!OpenMediaRoute, Plane!Adds, Plane!installVars, Plane!mediaVars, Plane!plane, Plane!relayVars
  <1>5. PlaneClean'
    BY <1>0, PlaneOrder DEF PlaneParts, PlaneClean, PlaneWorkers, PlaneKernel, Ending, Plane!OnLink, Plane!Worker,
           Plane!Running, Plane!OpenMediaRoute, Plane!Adds, Plane!installVars, Plane!mediaVars, Plane!plane,
           Plane!relayVars
  <1>6. PlaneReports'
    BY <1>0, PlaneOrder DEF PlaneParts, PlaneReports, PlaneWorkers, PlaneKernel, Plane!StopsReported, Plane!Closed,
           Plane!Running, Plane!Worker, Plane!OpenMediaRoute, Plane!Adds, Plane!installVars, Plane!mediaVars,
           Plane!plane, Plane!relayVars
  <1> QED
    BY <1>1, <1>2, <1>3, <1>4, <1>5, <1>6 DEF PlaneInv

\* A call leaves its route.
LEMMA PlaneCloseMediaRoute ==
    ASSUME PlaneInv, Plane!PlaneConstants, NEW l \in Lease, Plane!CloseMediaRoute(l)
    PROVE  PlaneInv'
  <1>0. PlaneParts /\ PlaneMedia /\ PlaneKernel /\ PlaneWorkers /\ PlaneClean /\ PlaneReports
    BY PlaneTyped DEF PlaneInv, PlaneTypes
  <1>1. PlaneTypes'
    <2>1. mode' \in {"userspace", "xfrm"} /\ hpc' \in Created(mode') \cup PlaneSteps
      BY <1>0 DEF PlaneParts, Created, PlaneSteps, Plane!CloseMediaRoute, Plane!Deletes, Plane!LastUse, Plane!Without,
             Plane!installVars, Plane!mediaVars, Plane!plane, Plane!relayVars
    <2>2. kernel' \subseteq Created(mode') \cup Remote \cup {"firewall", "stale"}
      BY <1>0 DEF PlaneParts, Created, PlaneSteps, Plane!CloseMediaRoute, Plane!Deletes, Plane!LastUse, Plane!Without,
             Plane!installVars, Plane!mediaVars, Plane!plane, Plane!relayVars
    <2>3. DOMAIN media' \subseteq Remote /\ lease' \in [Lease -> Remote \cup {Plane!NoRemote}]
      BY <1>0 DEF PlaneParts, Created, PlaneSteps, Plane!CloseMediaRoute, Plane!Deletes, Plane!LastUse, Plane!Without,
             Plane!installVars, Plane!mediaVars, Plane!plane, Plane!relayVars
    <2>4. planeWorker' \in [Plane!Worker -> {"off", "run", "done"}]
      BY <1>0 DEF PlaneParts, Created, PlaneSteps, Plane!CloseMediaRoute, Plane!Deletes, Plane!LastUse, Plane!Without,
             Plane!installVars, Plane!mediaVars, Plane!plane, Plane!relayVars
    <2>5. failure' \in {"empty", "queued", "taken"} /\ result' \in {"none", "clean", "failed"}
      BY <1>0 DEF PlaneParts, Created, PlaneSteps, Plane!CloseMediaRoute, Plane!Deletes, Plane!LastUse, Plane!Without,
             Plane!installVars, Plane!mediaVars, Plane!plane, Plane!relayVars
    <2>6. relay' \in {"open", "failed", "closed"} /\ planeQueue' \in 0 .. QueueCap
      BY <1>0 DEF PlaneParts, Plane!PlaneConstants, Plane!CloseMediaRoute, Plane!Deletes, Plane!LastUse,
             Plane!Without, Plane!installVars, Plane!mediaVars, Plane!plane, Plane!relayVars
    <2> QED
      BY <2>1, <2>2, <2>3, <2>4, <2>5, <2>6, PlaneTyped DEF PlaneTypes, PlaneParts
  <1>2. PlaneMedia'
    <2> DEFINE r == lease[l]
    <2>0. /\ lease[l] # Plane!NoRemote /\ lease' = [lease EXCEPT ![l] = Plane!NoRemote]
          /\ UNCHANGED <<mode, hpc, taken>>
      BY DEF Plane!CloseMediaRoute, Plane!installVars
    <2>1. DOMAIN media \subseteq Remote /\ lease \in [Lease -> Remote \cup {Plane!NoRemote}] /\ r \in Remote
      BY <1>0, <2>0 DEF PlaneParts
    <2>2. Plane!NoRemote \notin Remote
      BY DEF Plane!PlaneConstants
    <2>3. /\ Cardinality(Plane!Held(r) \ {l}) = Cardinality(Plane!Held(r)) - 1 /\ Cardinality(Plane!Held(r)) \in Nat
          /\ Cardinality(Plane!Held(r)) <= 1 => Plane!Held(r) = {l}
      BY <1>0, <2>1, PlaneCounts
    <2>4. \A x \in Remote : Plane!Held(x)' = IF x = r THEN Plane!Held(r) \ {l} ELSE Plane!Held(x)
      BY <2>0, <2>1, <2>2 DEF Plane!Held
    <2> HIDE DEF r
    <2>5. \A x \in Remote : Cardinality(Plane!Held(x))' = IF x = r THEN Cardinality(Plane!Held(r)) - 1 ELSE Cardinality(Plane!Held(x))
      BY <2>3, <2>4
    <2>6. \A k \in Lease : lease'[k] = IF k = l THEN Plane!NoRemote ELSE lease[k]
      BY <2>0, <2>1
    <2>7. r \in DOMAIN media /\ Plane!LastUse(r) => Plane!Held(r) = {l}
      BY <1>0, <2>1, <2>3 DEF PlaneMedia, Plane!LastUse
    <2>8. \/ r \notin DOMAIN media /\ UNCHANGED <<media, kernel, unsure>>
          \/ r \in DOMAIN media /\ media' = [media EXCEPT ![r] = @ - 1] /\ UNCHANGED <<kernel, unsure>>
          \/ r \in DOMAIN media /\ media' = [media EXCEPT ![r] = @ - 1] /\ kernel' \in {kernel, kernel \ {r}} /\ unsure' = unsure \cup {r}
          \/ r \in DOMAIN media /\ Plane!LastUse(r) /\ media' = Plane!Without(media, r) /\ kernel' \in {kernel, kernel \ {r}} /\ unsure \subseteq unsure'
      BY DEF r, Plane!CloseMediaRoute, Plane!Deletes
    <2>9. /\ media' = [m \in DOMAIN media' |-> media'[m]]
          /\ \A m \in DOMAIN media' : m \in DOMAIN media /\ media'[m] = Cardinality(Plane!Held(m))'
      <3>1. \A m \in DOMAIN media : m \in Remote /\ media[m] = Cardinality(Plane!Held(m))
        BY <1>0, <2>1 DEF PlaneMedia
      <3>2. CASE r \notin DOMAIN media /\ media' = media
        BY <1>0, <2>5, <3>1, <3>2 DEF PlaneMedia
      <3>3. CASE r \in DOMAIN media /\ media' = [media EXCEPT ![r] = @ - 1]
        BY <1>0, <2>5, <3>1, <3>3 DEF PlaneMedia
      <3>4. CASE media' = Plane!Without(media, r)
        BY <2>5, <3>1, <3>4 DEF Plane!Without
      <3> QED
        BY <2>8, <3>2, <3>3, <3>4
    <2>10. unsure \subseteq unsure' /\ kernel' \in {kernel, kernel \ {r}}
      BY <2>8
    <2>11. r \in DOMAIN media \ DOMAIN media' => Plane!Held(r) = {l}
      BY <2>7, <2>8
    <2>12. DOMAIN media' \in {DOMAIN media, DOMAIN media \ {r}}
      BY <2>8 DEF Plane!Without
    <2>13. ASSUME NEW k \in Lease, lease'[k] # Plane!NoRemote
           PROVE  k # l /\ lease'[k] = lease[k] /\ (lease[k] = r => Plane!Held(r) # {l})
      BY <2>6, <2>13 DEF Plane!Held
    <2>14. ~ Plane!Closed' => \A k \in Lease : lease'[k] # Plane!NoRemote => lease'[k] \in DOMAIN media'
      BY <1>0, <2>0, <2>11, <2>12, <2>13 DEF PlaneMedia, Plane!Closed
    <2>15. Plane!Running' => DOMAIN media' \ {Pcscf} \subseteq kernel' \cup taken' \cup unsure'
      <3>1. r \in kernel \ kernel' => r \in unsure' \/ r \notin DOMAIN media'
        BY <2>8 DEF Plane!Without
      <3> QED
        BY <1>0, <2>0, <2>10, <2>12, <3>1 DEF PlaneMedia, Plane!Running
    <2>16. mode' = "xfrm" \/ Installing' => DOMAIN media' = {}
      BY <1>0, <2>0, <2>12 DEF PlaneMedia, Installing
    <2> QED
      BY <2>9, <2>14, <2>15, <2>16 DEF PlaneMedia
  <1>3. PlaneKernel'
    BY <1>0, PlaneOrder DEF PlaneParts, PlaneKernel, PlaneMedia, Listing, Plane!Owned, Plane!Creating, Plane!Private,
           Plane!Running, Plane!Closed, Plane!OnLink, Plane!PlaneConstants, Created, PlaneSteps, PlaneWorkers,
           Plane!Worker, Plane!CloseMediaRoute, Plane!Deletes, Plane!LastUse, Plane!Without, Plane!installVars,
           Plane!mediaVars, Plane!plane, Plane!relayVars
  <1>4. PlaneWorkers'
    BY <1>0, PlaneOrder DEF PlaneParts, PlaneWorkers, PlaneKernel, Ending, Plane!Worker, Plane!Running,
           Plane!CloseMediaRoute, Plane!Deletes, Plane!LastUse, Plane!Without, Plane!installVars, Plane!mediaVars,
           Plane!plane, Plane!relayVars
  <1>5. PlaneClean'
    BY <1>0, PlaneOrder DEF PlaneParts, PlaneClean, PlaneWorkers, PlaneKernel, Ending, Plane!OnLink, Plane!Worker,
           Plane!Running, Plane!CloseMediaRoute, Plane!Deletes, Plane!LastUse, Plane!Without, Plane!installVars,
           Plane!mediaVars, Plane!plane, Plane!relayVars
  <1>6. PlaneReports'
    BY <1>0, PlaneOrder DEF PlaneParts, PlaneReports, PlaneWorkers, PlaneKernel, Plane!StopsReported, Plane!Closed,
           Plane!Running, Plane!Worker, Plane!CloseMediaRoute, Plane!Deletes, Plane!LastUse, Plane!Without,
           Plane!installVars, Plane!mediaVars, Plane!plane, Plane!relayVars
  <1> QED
    BY <1>1, <1>2, <1>3, <1>4, <1>5, <1>6 DEF PlaneInv

\* Close removes the firewall.
LEMMA PlaneFirewallOff ==
    ASSUME PlaneInv, Plane!PlaneConstants, Plane!FirewallOff
    PROVE  PlaneInv'
  <1>0. PlaneParts /\ PlaneMedia /\ PlaneKernel /\ PlaneWorkers /\ PlaneClean /\ PlaneReports
    BY PlaneTyped DEF PlaneInv, PlaneTypes
  <1>1. PlaneTypes'
    <2>1. mode' \in {"userspace", "xfrm"} /\ hpc' \in Created(mode') \cup PlaneSteps
      BY <1>0 DEF PlaneParts, Created, PlaneSteps, Plane!FirewallOff, Plane!WorkersGone, Plane!Deletes,
             Plane!installVars, Plane!mediaVars, Plane!plane, Plane!relayVars
    <2>2. kernel' \subseteq Created(mode') \cup Remote \cup {"firewall", "stale"}
      BY <1>0 DEF PlaneParts, Created, PlaneSteps, Plane!FirewallOff, Plane!WorkersGone, Plane!Deletes,
             Plane!installVars, Plane!mediaVars, Plane!plane, Plane!relayVars
    <2>3. DOMAIN media' \subseteq Remote /\ lease' \in [Lease -> Remote \cup {Plane!NoRemote}]
      BY <1>0 DEF PlaneParts, Created, PlaneSteps, Plane!FirewallOff, Plane!WorkersGone, Plane!Deletes,
             Plane!installVars, Plane!mediaVars, Plane!plane, Plane!relayVars
    <2>4. planeWorker' \in [Plane!Worker -> {"off", "run", "done"}]
      BY <1>0 DEF PlaneParts, Created, PlaneSteps, Plane!FirewallOff, Plane!WorkersGone, Plane!Deletes,
             Plane!installVars, Plane!mediaVars, Plane!plane, Plane!relayVars
    <2>5. failure' \in {"empty", "queued", "taken"} /\ result' \in {"none", "clean", "failed"}
      BY <1>0 DEF PlaneParts, Created, PlaneSteps, Plane!FirewallOff, Plane!WorkersGone, Plane!Deletes,
             Plane!installVars, Plane!mediaVars, Plane!plane, Plane!relayVars
    <2>6. relay' \in {"open", "failed", "closed"} /\ planeQueue' \in 0 .. QueueCap
      BY <1>0 DEF PlaneParts, Plane!PlaneConstants, Plane!FirewallOff, Plane!WorkersGone, Plane!Deletes,
             Plane!installVars, Plane!mediaVars, Plane!plane, Plane!relayVars
    <2> QED
      BY <2>1, <2>2, <2>3, <2>4, <2>5, <2>6, PlaneTyped DEF PlaneTypes, PlaneParts
  <1>2. PlaneMedia'
    BY <1>0, PlaneOrder DEF PlaneParts, PlaneMedia, Plane!Running, Plane!Closed, Plane!Held, Installing,
           Plane!NoRemote, Plane!PlaneConstants, Plane!FirewallOff, Plane!WorkersGone, Plane!Deletes,
           Plane!installVars, Plane!mediaVars, Plane!plane, Plane!relayVars
  <1>3. PlaneKernel'
    BY <1>0, PlaneOrder DEF PlaneParts, PlaneKernel, PlaneMedia, Listing, Plane!Owned, Plane!Creating, Plane!Private,
           Plane!Running, Plane!Closed, Plane!OnLink, Plane!PlaneConstants, Created, PlaneSteps, PlaneWorkers,
           Plane!Worker, Plane!FirewallOff, Plane!WorkersGone, Plane!Deletes, Plane!installVars, Plane!mediaVars,
           Plane!plane, Plane!relayVars
  <1>4. PlaneWorkers'
    BY <1>0, PlaneOrder DEF PlaneParts, PlaneWorkers, PlaneKernel, Ending, Plane!Worker, Plane!Running,
           Plane!FirewallOff, Plane!WorkersGone, Plane!Deletes, Plane!installVars, Plane!mediaVars, Plane!plane,
           Plane!relayVars
  <1>5. PlaneClean'
    BY <1>0, PlaneOrder DEF PlaneParts, PlaneClean, PlaneWorkers, PlaneKernel, Ending, Plane!OnLink, Plane!Worker,
           Plane!Running, Plane!FirewallOff, Plane!WorkersGone, Plane!Deletes, Plane!installVars, Plane!mediaVars,
           Plane!plane, Plane!relayVars
  <1>6. PlaneReports'
    BY <1>0, PlaneOrder DEF PlaneParts, PlaneReports, PlaneWorkers, PlaneKernel, Plane!StopsReported, Plane!Closed,
           Plane!Running, Plane!Worker, Plane!FirewallOff, Plane!WorkersGone, Plane!Deletes, Plane!installVars,
           Plane!mediaVars, Plane!plane, Plane!relayVars
  <1> QED
    BY <1>1, <1>2, <1>3, <1>4, <1>5, <1>6 DEF PlaneInv

\* Close removes the media routes.
LEMMA PlaneMediaOff ==
    ASSUME PlaneInv, Plane!PlaneConstants, Plane!MediaOff
    PROVE  PlaneInv'
  <1>0. PlaneParts /\ PlaneMedia /\ PlaneKernel /\ PlaneWorkers /\ PlaneClean /\ PlaneReports
    BY PlaneTyped DEF PlaneInv, PlaneTypes
  <1>1. PlaneTypes'
    <2>1. mode' \in {"userspace", "xfrm"} /\ hpc' \in Created(mode') \cup PlaneSteps
      BY <1>0 DEF PlaneParts, Created, PlaneSteps, Plane!MediaOff, Plane!Deletes, Plane!installVars, Plane!mediaVars,
             Plane!plane, Plane!relayVars
    <2>2. kernel' \subseteq Created(mode') \cup Remote \cup {"firewall", "stale"}
      BY <1>0 DEF PlaneParts, Created, PlaneSteps, Plane!MediaOff, Plane!Deletes, Plane!installVars, Plane!mediaVars,
             Plane!plane, Plane!relayVars
    <2>3. DOMAIN media' \subseteq Remote /\ lease' \in [Lease -> Remote \cup {Plane!NoRemote}]
      BY <1>0 DEF PlaneParts, Created, PlaneSteps, Plane!MediaOff, Plane!Deletes, Plane!installVars, Plane!mediaVars,
             Plane!plane, Plane!relayVars
    <2>4. planeWorker' \in [Plane!Worker -> {"off", "run", "done"}]
      BY <1>0 DEF PlaneParts, Created, PlaneSteps, Plane!MediaOff, Plane!Deletes, Plane!installVars, Plane!mediaVars,
             Plane!plane, Plane!relayVars
    <2>5. failure' \in {"empty", "queued", "taken"} /\ result' \in {"none", "clean", "failed"}
      BY <1>0 DEF PlaneParts, Created, PlaneSteps, Plane!MediaOff, Plane!Deletes, Plane!installVars, Plane!mediaVars,
             Plane!plane, Plane!relayVars
    <2>6. relay' \in {"open", "failed", "closed"} /\ planeQueue' \in 0 .. QueueCap
      BY <1>0 DEF PlaneParts, Plane!PlaneConstants, Plane!MediaOff, Plane!Deletes, Plane!installVars, Plane!mediaVars,
             Plane!plane, Plane!relayVars
    <2> QED
      BY <2>1, <2>2, <2>3, <2>4, <2>5, <2>6, PlaneTyped DEF PlaneTypes, PlaneParts
  <1>2. PlaneMedia'
    BY <1>0, PlaneOrder DEF PlaneParts, PlaneMedia, Plane!Running, Plane!Closed, Plane!Held, Installing,
           Plane!NoRemote, Plane!PlaneConstants, Plane!MediaOff, Plane!Deletes, Plane!installVars, Plane!mediaVars,
           Plane!plane, Plane!relayVars
  <1>3. PlaneKernel'
    BY <1>0, PlaneOrder DEF PlaneParts, PlaneKernel, PlaneMedia, Listing, Plane!Owned, Plane!Creating, Plane!Private,
           Plane!Running, Plane!Closed, Plane!OnLink, Plane!PlaneConstants, Created, PlaneSteps, PlaneWorkers,
           Plane!Worker, Plane!MediaOff, Plane!Deletes, Plane!installVars, Plane!mediaVars, Plane!plane,
           Plane!relayVars
  <1>4. PlaneWorkers'
    BY <1>0, PlaneOrder DEF PlaneParts, PlaneWorkers, PlaneKernel, Ending, Plane!Worker, Plane!Running,
           Plane!MediaOff, Plane!Deletes, Plane!installVars, Plane!mediaVars, Plane!plane, Plane!relayVars
  <1>5. PlaneClean'
    BY <1>0, PlaneOrder DEF PlaneParts, PlaneClean, PlaneWorkers, PlaneKernel, Ending, Plane!OnLink, Plane!Worker,
           Plane!Running, Plane!MediaOff, Plane!Deletes, Plane!installVars, Plane!mediaVars, Plane!plane,
           Plane!relayVars
  <1>6. PlaneReports'
    BY <1>0, PlaneOrder DEF PlaneParts, PlaneReports, PlaneWorkers, PlaneKernel, Plane!StopsReported, Plane!Closed,
           Plane!Running, Plane!Worker, Plane!MediaOff, Plane!Deletes, Plane!installVars, Plane!mediaVars,
           Plane!plane, Plane!relayVars
  <1> QED
    BY <1>1, <1>2, <1>3, <1>4, <1>5, <1>6 DEF PlaneInv

\* Close removes the rest.
LEMMA PlaneRoutesOff ==
    ASSUME PlaneInv, Plane!PlaneConstants, Plane!RoutesOff
    PROVE  PlaneInv'
  <1>0. PlaneParts /\ PlaneMedia /\ PlaneKernel /\ PlaneWorkers /\ PlaneClean /\ PlaneReports
    BY PlaneTyped DEF PlaneInv, PlaneTypes
  <1> DEFINE ask == IF mode = "userspace" THEN Plane!ToSet(recorded) ELSE Plane!ToSet(Plane!Resources(mode))
             none == [r \in {} |-> 0]
             Cmd(fail, killed, readable) ==
                /\ Plane!Deletes(ask, fail, killed)
                /\ LET failed == fail \cup killed
                       errors == failed # {} \/ media # none
                       proof == mode = "userspace" /\ readable /\ Plane!Confirmed(kernel') IN
                   /\ result' = IF errors /\ ~ proof THEN "failed" ELSE IF result = "none" THEN "clean" ELSE result
                   /\ media' = IF errors /\ proof THEN none ELSE media
                   /\ recorded' = IF errors /\ proof THEN <<>>
                                  ELSE Plane!SelectSeq(recorded, LAMBDA r : r \in failed)
  <1>a. PICK fail \in SUBSET ask, killed \in SUBSET ask, readable \in BOOLEAN : Cmd(fail, killed, readable)
    BY DEF Plane!RoutesOff
  <1>b. /\ hpc = "routes-off" /\ hpc' = "down"
        /\ UNCHANGED <<mode, unlisted, lease, taken, planeWorker, cancelled, terminal, failure, relay, planeQueue>>
    BY DEF Plane!RoutesOff, Plane!plane, Plane!relayVars
  <1>c. /\ kernel' = kernel \ (ask \ fail) /\ unsure' = unsure \cup fail \cup killed
        /\ media' \in {media, none}
    BY <1>a DEF Plane!Deletes
  <1>d. \/ mode = "userspace" /\ Plane!Confirmed(kernel') /\ media' = none
        \/ result' = "failed" /\ media' = media
        \/ fail \cup killed = {} /\ media' = media /\ media = none
    BY <1>a
  <1>e. result' = "failed" \/ (result' = "clean" /\ result = "none") \/ result' = result
    BY <1>a
  <1> HIDE DEF Cmd
  <1>f. ask = IF mode = "userspace" THEN Plane!ToSet(recorded) ELSE Created(mode)
    BY <1>0, PlaneOrder DEF PlaneParts
  <1> HIDE DEF ask
  <1>g. DOMAIN none = {} /\ none = [r \in DOMAIN none |-> none[r]]
    OBVIOUS
  <1> HIDE DEF none
  <1>1. PlaneTypes'
    <2>1. mode' \in {"userspace", "xfrm"} /\ hpc' \in Created(mode') \cup PlaneSteps
      BY <1>0 DEF PlaneParts, Created, PlaneSteps, Plane!RoutesOff, Plane!Deletes, Plane!Confirmed, Plane!installVars,
             Plane!mediaVars, Plane!plane, Plane!relayVars
    <2>2. kernel' \subseteq Created(mode') \cup Remote \cup {"firewall", "stale"}
      BY <1>0 DEF PlaneParts, Created, PlaneSteps, Plane!RoutesOff, Plane!Deletes, Plane!Confirmed, Plane!installVars,
             Plane!mediaVars, Plane!plane, Plane!relayVars
    <2>3. DOMAIN media' \subseteq Remote /\ lease' \in [Lease -> Remote \cup {Plane!NoRemote}]
      BY <1>0 DEF PlaneParts, Created, PlaneSteps, Plane!RoutesOff, Plane!Deletes, Plane!Confirmed, Plane!installVars,
             Plane!mediaVars, Plane!plane, Plane!relayVars
    <2>4. planeWorker' \in [Plane!Worker -> {"off", "run", "done"}]
      BY <1>0 DEF PlaneParts, Created, PlaneSteps, Plane!RoutesOff, Plane!Deletes, Plane!Confirmed, Plane!installVars,
             Plane!mediaVars, Plane!plane, Plane!relayVars
    <2>5. failure' \in {"empty", "queued", "taken"} /\ result' \in {"none", "clean", "failed"}
      BY <1>0 DEF PlaneParts, Created, PlaneSteps, Plane!RoutesOff, Plane!Deletes, Plane!Confirmed, Plane!installVars,
             Plane!mediaVars, Plane!plane, Plane!relayVars
    <2>6. relay' \in {"open", "failed", "closed"} /\ planeQueue' \in 0 .. QueueCap
      BY <1>0 DEF PlaneParts, Plane!PlaneConstants, Plane!RoutesOff, Plane!Deletes, Plane!Confirmed,
             Plane!installVars, Plane!mediaVars, Plane!plane, Plane!relayVars
    <2> QED
      BY <2>1, <2>2, <2>3, <2>4, <2>5, <2>6, PlaneTyped DEF PlaneTypes, PlaneParts
  <1>2. PlaneMedia'
    <2>1. \A r : Plane!Held(r)' = Plane!Held(r)
      BY <1>b DEF Plane!Held
    <2>2. Plane!Closed' /\ ~ Plane!Running' /\ ~ Installing'
      BY <1>b DEF Plane!Closed, Plane!Running, Installing
    <2>3. CASE media' = media
      BY <1>0, <1>b, <2>1, <2>2, <2>3 DEF PlaneMedia
    <2>4. CASE media' = none
      BY <1>g, <2>2, <2>4 DEF PlaneMedia
    <2> QED
      BY <1>c, <2>3, <2>4
  <1>3. PlaneKernel'
    <2>1. kernel' \subseteq kernel
      BY <1>c
    <2>2. Plane!Owned'
      <3>1. SUFFICES ASSUME mode = "userspace"
                     PROVE  Plane!Private(kernel') \subseteq DOMAIN media' \cup unsure' \cup {"host"}
        <4>1. ~ Plane!Creating'
          <5>1. Plane!ToSet(Plane!Resources(mode)) = Created(mode)
            BY <1>0, PlaneOrder DEF PlaneParts
          <5> QED
            BY <1>b, <5>1 DEF Plane!Creating, Created
        <4> QED
          BY <1>b, <4>1 DEF Plane!Owned
      <3>2. Plane!Private(kernel) \subseteq ask \cup DOMAIN media \cup unsure \cup {"host"}
        BY <1>0, <1>b, <1>f, <3>1 DEF PlaneKernel, Plane!Owned
      <3>3. Plane!Private(kernel') \subseteq Plane!Private(kernel) \ (ask \ fail)
        BY <1>c DEF Plane!Private
      <3>4. CASE Plane!Confirmed(kernel')
        BY <3>4 DEF Plane!Confirmed
      <3>5. CASE media' = media
        BY <1>c, <3>2, <3>3, <3>5
      <3> QED
        BY <1>d, <3>4, <3>5
    <2> QED
      BY <1>0, <1>b, <2>1, <2>2 DEF PlaneKernel, Listing
  <1>4. PlaneWorkers'
    BY <1>0, PlaneOrder DEF PlaneParts, PlaneWorkers, PlaneKernel, Ending, Plane!Worker, Plane!Running,
           Plane!RoutesOff, Plane!Deletes, Plane!Confirmed, Plane!installVars, Plane!mediaVars, Plane!plane,
           Plane!relayVars
  <1>5. PlaneClean'
    <2>1. SUFFICES ASSUME result' = "clean"
                   PROVE  kernel' \subseteq {"stale"} \cup (IF unlisted THEN {"firewall"} ELSE {})
                                            \cup (IF mode = "userspace" THEN Plane!OnLink ELSE {})
      BY <1>b DEF PlaneClean
    <2>2. "firewall" \in kernel => unlisted
      BY <1>0, <1>b, <1>e, <2>1 DEF PlaneWorkers, Ending
    <2>3. kernel' \subseteq kernel
      BY <1>c
    <2>4. CASE mode = "userspace" /\ Plane!Confirmed(kernel')
      <3>1. kernel' \subseteq {"link", "firewall", "stale"}
        BY <2>4 DEF Plane!Confirmed, Plane!Private
      <3> QED
        BY <2>2, <2>3, <2>4, <3>1 DEF Plane!OnLink
    <2>5. CASE fail \cup killed = {} /\ mode = "userspace"
      <3>1. kernel \cap {"rule", "unreachable"} \subseteq ask
        BY <1>0, <1>b, <1>f, <2>5 DEF PlaneKernel, Listing
      <3>2. kernel \subseteq {"link", "rule", "unreachable", "host", "firewall", "stale"} \cup Remote
        BY <1>0, <2>5 DEF PlaneParts, Created
      <3> QED
        BY <1>c, <2>2, <2>5, <3>1, <3>2 DEF Plane!OnLink
    <2>6. CASE fail \cup killed = {} /\ mode = "xfrm"
      <3>1. kernel \subseteq Created(mode) \cup {"stale"}
        BY <1>0, <2>6 DEF PlaneParts, PlaneKernel
      <3> QED
        BY <1>c, <1>f, <2>6, <3>1
    <2> QED
      BY <1>0, <1>d, <2>1, <2>4, <2>5, <2>6 DEF PlaneParts
  <1>6. PlaneReports'
    BY <1>0, PlaneOrder DEF PlaneParts, PlaneReports, PlaneWorkers, PlaneKernel, Plane!StopsReported, Plane!Closed,
           Plane!Running, Plane!Worker, Plane!RoutesOff, Plane!Deletes, Plane!Confirmed, Plane!installVars,
           Plane!mediaVars, Plane!plane, Plane!relayVars
  <1> QED
    BY <1>1, <1>2, <1>3, <1>4, <1>5, <1>6 DEF PlaneInv

\* The interface and the relay are closed.
LEMMA PlaneDown ==
    ASSUME PlaneInv, Plane!PlaneConstants, Plane!Down
    PROVE  PlaneInv'
  <1>0. PlaneParts /\ PlaneMedia /\ PlaneKernel /\ PlaneWorkers /\ PlaneClean /\ PlaneReports
    BY PlaneTyped DEF PlaneInv, PlaneTypes
  <1>1. PlaneTypes'
    <2>1. mode' \in {"userspace", "xfrm"} /\ hpc' \in Created(mode') \cup PlaneSteps
      BY <1>0 DEF PlaneParts, Created, PlaneSteps, Plane!Down, Plane!WithoutLink, Plane!installVars, Plane!mediaVars,
             Plane!plane, Plane!relayVars
    <2>2. kernel' \subseteq Created(mode') \cup Remote \cup {"firewall", "stale"}
      BY <1>0 DEF PlaneParts, Created, PlaneSteps, Plane!Down, Plane!WithoutLink, Plane!installVars, Plane!mediaVars,
             Plane!plane, Plane!relayVars
    <2>3. DOMAIN media' \subseteq Remote /\ lease' \in [Lease -> Remote \cup {Plane!NoRemote}]
      BY <1>0 DEF PlaneParts, Created, PlaneSteps, Plane!Down, Plane!WithoutLink, Plane!installVars, Plane!mediaVars,
             Plane!plane, Plane!relayVars
    <2>4. planeWorker' \in [Plane!Worker -> {"off", "run", "done"}]
      BY <1>0 DEF PlaneParts, Created, PlaneSteps, Plane!Down, Plane!WithoutLink, Plane!installVars, Plane!mediaVars,
             Plane!plane, Plane!relayVars
    <2>5. failure' \in {"empty", "queued", "taken"} /\ result' \in {"none", "clean", "failed"}
      BY <1>0 DEF PlaneParts, Created, PlaneSteps, Plane!Down, Plane!WithoutLink, Plane!installVars, Plane!mediaVars,
             Plane!plane, Plane!relayVars
    <2>6. relay' \in {"open", "failed", "closed"} /\ planeQueue' \in 0 .. QueueCap
      BY <1>0 DEF PlaneParts, Plane!PlaneConstants, Plane!Down, Plane!WithoutLink, Plane!installVars, Plane!mediaVars,
             Plane!plane, Plane!relayVars
    <2> QED
      BY <2>1, <2>2, <2>3, <2>4, <2>5, <2>6, PlaneTyped DEF PlaneTypes, PlaneParts
  <1>2. PlaneMedia'
    BY <1>0, PlaneOrder DEF PlaneParts, PlaneMedia, Plane!Running, Plane!Closed, Plane!Held, Installing,
           Plane!NoRemote, Plane!PlaneConstants, Plane!Down, Plane!WithoutLink, Plane!installVars, Plane!mediaVars,
           Plane!plane, Plane!relayVars
  <1>3. PlaneKernel'
    BY <1>0, PlaneOrder DEF PlaneParts, PlaneKernel, PlaneMedia, Listing, Plane!Owned, Plane!Creating, Plane!Private,
           Plane!Running, Plane!Closed, Plane!OnLink, Plane!PlaneConstants, Created, PlaneSteps, PlaneWorkers,
           Plane!Worker, Plane!Down, Plane!WithoutLink, Plane!installVars, Plane!mediaVars, Plane!plane,
           Plane!relayVars
  <1>4. PlaneWorkers'
    BY <1>0, PlaneOrder DEF PlaneParts, PlaneWorkers, PlaneKernel, Ending, Plane!Worker, Plane!Running, Plane!Down,
           Plane!WithoutLink, Plane!installVars, Plane!mediaVars, Plane!plane, Plane!relayVars
  <1>5. PlaneClean'
    BY <1>0, PlaneOrder DEF PlaneParts, PlaneClean, PlaneWorkers, PlaneKernel, Ending, Plane!OnLink, Plane!Worker,
           Plane!Running, Plane!Down, Plane!WithoutLink, Plane!installVars, Plane!mediaVars, Plane!plane,
           Plane!relayVars
  <1>6. PlaneReports'
    BY <1>0, PlaneOrder DEF PlaneParts, PlaneReports, PlaneWorkers, PlaneKernel, Plane!StopsReported, Plane!Closed,
           Plane!Running, Plane!Worker, Plane!Down, Plane!WithoutLink, Plane!installVars, Plane!mediaVars,
           Plane!plane, Plane!relayVars
  <1> QED
    BY <1>1, <1>2, <1>3, <1>4, <1>5, <1>6 DEF PlaneInv

\* Somebody else removes a resource.
LEMMA PlaneTaken ==
    ASSUME PlaneInv, Plane!PlaneConstants, NEW r \in kernel, Plane!Taken(r)
    PROVE  PlaneInv'
  <1>0. PlaneParts /\ PlaneMedia /\ PlaneKernel /\ PlaneWorkers /\ PlaneClean /\ PlaneReports
    BY PlaneTyped DEF PlaneInv, PlaneTypes
  <1>1. PlaneTypes'
    <2>1. mode' \in {"userspace", "xfrm"} /\ hpc' \in Created(mode') \cup PlaneSteps
      BY <1>0 DEF PlaneParts, Created, PlaneSteps, Plane!Taken, Plane!installVars, Plane!mediaVars, Plane!plane,
             Plane!relayVars
    <2>2. kernel' \subseteq Created(mode') \cup Remote \cup {"firewall", "stale"}
      BY <1>0 DEF PlaneParts, Created, PlaneSteps, Plane!Taken, Plane!installVars, Plane!mediaVars, Plane!plane,
             Plane!relayVars
    <2>3. DOMAIN media' \subseteq Remote /\ lease' \in [Lease -> Remote \cup {Plane!NoRemote}]
      BY <1>0 DEF PlaneParts, Created, PlaneSteps, Plane!Taken, Plane!installVars, Plane!mediaVars, Plane!plane,
             Plane!relayVars
    <2>4. planeWorker' \in [Plane!Worker -> {"off", "run", "done"}]
      BY <1>0 DEF PlaneParts, Created, PlaneSteps, Plane!Taken, Plane!installVars, Plane!mediaVars, Plane!plane,
             Plane!relayVars
    <2>5. failure' \in {"empty", "queued", "taken"} /\ result' \in {"none", "clean", "failed"}
      BY <1>0 DEF PlaneParts, Created, PlaneSteps, Plane!Taken, Plane!installVars, Plane!mediaVars, Plane!plane,
             Plane!relayVars
    <2>6. relay' \in {"open", "failed", "closed"} /\ planeQueue' \in 0 .. QueueCap
      BY <1>0 DEF PlaneParts, Plane!PlaneConstants, Plane!Taken, Plane!installVars, Plane!mediaVars, Plane!plane,
             Plane!relayVars
    <2> QED
      BY <2>1, <2>2, <2>3, <2>4, <2>5, <2>6, PlaneTyped DEF PlaneTypes, PlaneParts
  <1>2. PlaneMedia'
    BY <1>0, PlaneOrder DEF PlaneParts, PlaneMedia, Plane!Running, Plane!Closed, Plane!Held, Installing,
           Plane!NoRemote, Plane!PlaneConstants, Plane!Taken, Plane!installVars, Plane!mediaVars, Plane!plane,
           Plane!relayVars
  <1>3. PlaneKernel'
    BY <1>0, PlaneOrder DEF PlaneParts, PlaneKernel, PlaneMedia, Listing, Plane!Owned, Plane!Creating, Plane!Private,
           Plane!Running, Plane!Closed, Plane!OnLink, Plane!PlaneConstants, Created, PlaneSteps, PlaneWorkers,
           Plane!Worker, Plane!Taken, Plane!installVars, Plane!mediaVars, Plane!plane, Plane!relayVars
  <1>4. PlaneWorkers'
    BY <1>0, PlaneOrder DEF PlaneParts, PlaneWorkers, PlaneKernel, Ending, Plane!Worker, Plane!Running, Plane!Taken,
           Plane!installVars, Plane!mediaVars, Plane!plane, Plane!relayVars
  <1>5. PlaneClean'
    BY <1>0, PlaneOrder DEF PlaneParts, PlaneClean, PlaneWorkers, PlaneKernel, Ending, Plane!OnLink, Plane!Worker,
           Plane!Running, Plane!Taken, Plane!installVars, Plane!mediaVars, Plane!plane, Plane!relayVars
  <1>6. PlaneReports'
    BY <1>0, PlaneOrder DEF PlaneParts, PlaneReports, PlaneWorkers, PlaneKernel, Plane!StopsReported, Plane!Closed,
           Plane!Running, Plane!Worker, Plane!Taken, Plane!installVars, Plane!mediaVars, Plane!plane, Plane!relayVars
  <1> QED
    BY <1>1, <1>2, <1>3, <1>4, <1>5, <1>6 DEF PlaneInv

\* At first there is nothing of this tunnel.
LEMMA PlaneInit ==
    ASSUME Plane!PlaneConstants, Plane!Init
    PROVE  PlaneInv
  <1> USE DEF Plane!Init
  <1>1. PlaneParts
    BY DEF PlaneParts, Created, PlaneSteps, Plane!PlaneConstants
  <1>2. PlaneTypes
    BY <1>1, PlaneTyped DEF PlaneTypes
  <1>3. DOMAIN media = {} /\ media = [r \in DOMAIN media |-> media[r]]
    OBVIOUS
  <1>4. PlaneMedia
    BY <1>3 DEF PlaneMedia, Plane!Running, Plane!Closed
  <1>5. PlaneKernel
    <2>1. kernel \subseteq {"stale"} /\ Plane!Private(kernel) = {}
      BY DEF Plane!Private
    <2>2. recorded \in Seq({"rule", "unreachable", "host"})
      OBVIOUS
    <2> QED
      BY <2>1, <2>2 DEF PlaneKernel, Plane!Owned, Plane!PlaneConstants
  <1>6. PlaneWorkers /\ PlaneClean /\ PlaneReports
    BY DEF PlaneWorkers, PlaneClean, PlaneReports, Plane!StopsReported, Plane!Worker, Ending, Plane!Closed, Plane!Running
  <1> QED
    BY <1>2, <1>4, <1>5, <1>6 DEF PlaneInv

\* Every step of a tunnel, its calls, its relay and its neighbours.
LEMMA PlaneNext ==
    ASSUME PlaneInv, Plane!PlaneConstants, Plane!Next
    PROVE  PlaneInv'
  BY PlaneConfigure, PlaneFirewallOn, PlaneUndo, PlaneWorkerStops, PlaneLinkLost, PlaneOutFails, PlaneInbound,
     PlaneInFails, PlaneMaintain, PlanePacket, PlaneRelayFails, PlaneOpenMediaRoute, PlaneCloseMediaRoute, PlaneClose,
     PlaneFirewallOff, PlaneMediaOff, PlaneRoutesOff, PlaneDown, PlaneTaken
  DEF Plane!Next, Plane!Workers, Plane!Closing

\* A step of another part.
LEMMA PlaneRests ==
    ASSUME PlaneInv, UNCHANGED varsPlane
    PROVE  PlaneInv'
  <1>1. PlaneParts /\ PlaneMedia /\ PlaneKernel /\ PlaneWorkers /\ PlaneClean /\ PlaneReports
    BY PlaneTyped DEF PlaneInv, PlaneTypes
  <1>2. PlaneTypes'
    BY <1>1, PlaneTyped DEF varsPlane, PlaneParts, PlaneTypes
  <1>3. PlaneMedia' /\ PlaneKernel'
    BY <1>1 DEF varsPlane, PlaneMedia, PlaneKernel, Plane!Owned, Plane!Creating, Plane!Held, Plane!Running, Plane!Closed,
                Installing, Listing
  <1>4. PlaneWorkers' /\ PlaneClean' /\ PlaneReports'
    BY <1>1 DEF varsPlane, PlaneWorkers, PlaneClean, PlaneReports, Plane!StopsReported, Plane!Closed, Plane!Running,
                Ending
  <1> QED
    BY <1>2, <1>3, <1>4 DEF PlaneInv

\* Under the invariant a call has its route, everything is owned, and a close that is clean has left nothing.
LEMMA PlaneGood ==
    ASSUME PlaneInv
    PROVE  Plane!PlaneSound
  <1>1. PlaneMedia /\ PlaneKernel /\ PlaneClean
    BY DEF PlaneInv
  <1>2. Plane!MediaServed
    <2>1. ASSUME Plane!Running
          PROVE  /\ \A r \in DOMAIN media : media[r] = Cardinality(Plane!Held(r))
                 /\ \A l \in Lease : lease[l] \notin {Plane!NoRemote, Pcscf} => lease[l] \in kernel \cup taken \cup unsure
      BY <1>1, <2>1 DEF PlaneMedia, Plane!Running, Plane!Closed
    <2> QED
      BY <2>1 DEF Plane!MediaServed, Plane!Cardinality, Cardinality
  <1>3. Plane!CleanClose
    BY <1>1 DEF PlaneClean, Plane!CleanClose, Ending
  <1> QED
    BY <1>1, <1>2, <1>3 DEF PlaneInv, PlaneTypes, PlaneReports, PlaneKernel, Plane!PlaneSound

\* The inductive invariant of a tunnel's planes holds for any number of calls, endpoints, routes and packets.
THEOREM PlaneInvariant == Behaviour => []PlaneInv
  <1>1. Plane!PlaneConstants
    BY PlaneBounds
  <1>2. InitAll => PlaneInv
    BY <1>1, PlaneInit DEF InitAll
  <1>3. PlaneInv /\ [NextAll]_all => PlaneInv'
    <2>1. ASSUME PlaneInv, NextAll
          PROVE  PlaneInv'
      BY <1>1, <2>1, PlaneNext, PlaneRests DEF NextAll
    <2>2. ASSUME PlaneInv, UNCHANGED all
          PROVE  PlaneInv'
      BY <2>2, PlaneRests DEF all
    <2> QED
      BY <2>1, <2>2
  <1> QED
    BY <1>2, <1>3, PTL DEF Behaviour

-----------------------------------------------------------------------------
(* The parts together                                                        *)

\* Every state of every part is sound: media lasts as long as a call asks for it and a closed plane has left nothing
\* (media_linux.go, userspace_linux.go); a call over the modem has its file and the user's settings are in it
\* (voice_cellular.go); a hang-up over Wi-Fi that reports success is true (voice_wifi.go); and the row of the domain
\* knows every tunnel and record that was made for it, and its tunnel is there, but for what others or abandoned
\* requests have done (tunnel.go, tunnel_cleanup.go).
THEOREM PathsAreSound == Behaviour => []PathsSound
  <1>1. DomInv /\ CellInv /\ WifiInv /\ PlaneInv => PathsSound
    BY DomGood, CellGood, WifiGood, PlaneGood DEF PathsSound
  <1> QED
    BY <1>1, DomainInvariant, CellularInvariant, WifiInvariant, PlaneInvariant, PTL

-----------------------------------------------------------------------------
(* The window of the ESP receiver                                            *)

USE EspConstants

\* Under the invariant the window's answer is the filter's: a packet is
\* accepted exactly when it is new and less than a window old.
LEMMA AcceptIsFresh ==
    ASSUME IInv, NEW s \in Numbers
    PROVE  WouldAccept(s) <=> Filter!Fresh(s)
  <1>. DEFINE Old == highest - s
  <1>1. highest \in Nat /\ s \in Nat /\ s > 0 /\ passed \subseteq Nat
    BY DEF IInv, TypeOK, Numbers
  <1>2. CASE highest = 0
    <2>1. passed = {}
      BY <1>2 DEF IInv, WindowExact
    <2> QED
      BY <1>2, <2>1 DEF WouldAccept, Filter!Fresh
  <1>3. CASE highest # 0 /\ s > highest
    <2>1. \A t \in passed : t <= highest
      BY DEF IInv, WindowExact
    <2>2. \A t \in passed : t # s /\ t - s < Window
      BY <1>1, <1>3, <2>1
    <2> QED
      BY <1>3, <2>2 DEF WouldAccept, Filter!Fresh
  <1>4. CASE highest # 0 /\ s <= highest
    <2>1. highest \in passed /\ \A t \in passed : t <= highest
      BY <1>4 DEF IInv, WindowExact
    <2>2. Old \in Nat /\ highest - Old = s
      BY <1>1, <1>4
    <2>3. (\A t \in passed : t - s < Window) <=> Old < Window
      BY <1>1, <1>4, <2>1
    <2>4. ASSUME Old < Window
          PROVE  Old \in bitmap <=> s \in passed
      <3>1. Old \in 0..Window - 1
        BY <2>2, <2>4
      <3> QED
        BY <2>2, <3>1 DEF IInv, WindowExact
    <2>5. WouldAccept(s) <=> (Old < Window /\ Old \notin bitmap)
      BY <1>1, <1>4 DEF WouldAccept
    <2> QED
      BY <2>3, <2>4, <2>5 DEF Filter!Fresh
  <1> QED
    BY <1>1, <1>2, <1>3, <1>4

\* Moving the window over an accepted packet keeps it exact.
LEMMA CommitExact ==
    ASSUME IInv, NEW s \in Numbers, WouldAccept(s), Commit(s),
           passed' = passed \cup {s}
    PROVE  WindowExact' /\ highest' \in 0..MaxSequence /\ bitmap' \subseteq 0..Window - 1
  <1>1. /\ highest \in Nat /\ s \in Nat /\ s > 0 /\ s <= MaxSequence
        /\ passed \subseteq Nat /\ highest <= MaxSequence
        /\ bitmap \subseteq 0..Window - 1 /\ 0 \in 0..Window - 1
        /\ \A t \in passed : t > 0 /\ t <= highest
    BY DEF IInv, TypeOK, WindowExact, Numbers
  <1>2. \A d \in 0..Window - 1 : d \in bitmap <=> highest - d \in passed
    BY DEF IInv, WindowExact
  <1>3. highest = 0 => passed = {}
    BY DEF IInv, WindowExact
  <1>4. CASE highest = 0
    <2>1. highest' = s /\ bitmap' = {0} /\ passed' = {s}
      BY <1>3, <1>4 DEF Commit
    <2> QED
      BY <1>1, <2>1 DEF WindowExact
  <1>5. CASE highest # 0 /\ s > highest
    <2>1. highest' = s /\ bitmap' = Shifted(s - highest) \cup {0}
      BY <1>1, <1>5 DEF Commit
    <2>2. ASSUME NEW d \in 0..Window - 1
          PROVE  d \in bitmap' <=> s - d \in passed'
      <3>1. CASE d = 0
        BY <1>1, <2>1, <3>1
      <3>2. CASE d # 0
        <4>1. s - d \in passed' <=> s - d \in passed
          BY <1>1, <3>2
        <4>2. d \in bitmap' <=> \E e \in bitmap : d = e + (s - highest)
          BY <2>1, <3>2 DEF Shifted
        <4>3. ASSUME NEW e \in bitmap, d = e + (s - highest)
              PROVE  s - d \in passed
          <5>1. highest - e = s - d /\ e \in 0..Window - 1
            BY <1>1, <4>3
          <5> QED
            BY <1>2, <4>3, <5>1
        <4>4. ASSUME s - d \in passed
              PROVE  \E e \in bitmap : d = e + (s - highest)
          <5>1. s - d <= highest
            BY <1>1, <4>4
          <5>2. d - (s - highest) \in 0..Window - 1
            BY <1>1, <1>5, <5>1
          <5>3. highest - (d - (s - highest)) = s - d
            BY <1>1
          <5>4. d - (s - highest) \in bitmap
            BY <1>2, <4>4, <5>2, <5>3
          <5>5. d = (d - (s - highest)) + (s - highest)
            BY <1>1
          <5> QED
            BY <5>4, <5>5
        <4> QED
          BY <4>1, <4>2, <4>3, <4>4
      <3> QED
        BY <3>1, <3>2
    <2>3. \A t \in passed' : t <= highest'
      BY <1>1, <1>5, <2>1
    <2>4. bitmap' \subseteq 0..Window - 1
      BY <1>1, <2>1 DEF Shifted
    <2> QED
      BY <1>1, <2>1, <2>2, <2>3, <2>4 DEF WindowExact
  <1>6. CASE highest # 0 /\ s <= highest
    <2>1. highest' = highest /\ bitmap' = bitmap \cup {highest - s}
      BY <1>1, <1>6 DEF Commit
    <2>2. highest - s \in 0..Window - 1
      BY <1>1, <1>6 DEF WouldAccept
    <2>3. ASSUME NEW d \in 0..Window - 1
          PROVE  d \in bitmap' <=> highest' - d \in passed'
      <3>1. d = highest - s <=> highest - d = s
        BY <1>1
      <3> QED
        BY <1>2, <2>1, <3>1
    <2>4. highest' \in passed'
      BY <1>6, <2>1 DEF IInv, WindowExact
    <2>5. (\A t \in passed' : t <= highest') /\ (highest' # 0) /\ passed' # {}
      BY <1>1, <1>6, <2>1
    <2>6. bitmap' \subseteq 0..Window - 1
      BY <1>1, <2>1, <2>2
    <2> QED
      BY <1>1, <2>1, <2>3, <2>4, <2>5, <2>6 DEF WindowExact
  <1> QED
    BY <1>1, <1>4, <1>5, <1>6

\* Opening the next packet of the queue is one judgement of the filter.
LEMMA OpenJudges ==
    ASSUME IInv, Open
    PROVE  IInv' /\ Filter!FilterNext
  <1>. DEFINE p == Head(queue)
              ok == p.intact /\ WouldAccept(p.seq)
  <1>1. p \in Packets /\ queue' \in Seq(Packets)
    BY DEF IInv, TypeOK, Open
  <1>2. p.seq \in Numbers /\ p.intact \in BOOLEAN
    BY <1>1 DEF Packets
  <1>3. /\ verdict' = [seq |-> p.seq, intact |-> p.intact, ok |-> ok]
        /\ passed' = IF ok THEN passed \cup {p.seq} ELSE passed
        /\ IF ok THEN Commit(p.seq) ELSE UNCHANGED <<highest, bitmap>>
        /\ sequence' = sequence
    BY DEF Open
  <1>4. Filter!Judge(p.seq, p.intact)
    <2>1. ok <=> (p.intact /\ Filter!Fresh(p.seq))
      BY <1>2, AcceptIsFresh
    <2> QED
      BY <1>3, <2>1 DEF Filter!Judge
  <1>5. Filter!FilterNext
    BY <1>2, <1>4 DEF Filter!FilterNext
  <1>6. CASE ok
    <2>1. WindowExact' /\ highest' \in 0..MaxSequence /\ bitmap' \subseteq 0..Window - 1
      BY <1>2, <1>3, <1>6, CommitExact
    <2>2. passed' \subseteq Numbers
      BY <1>2, <1>3, <1>6 DEF IInv, TypeOK
    <2> QED
      BY <1>1, <1>3, <1>5, <2>1, <2>2 DEF IInv, TypeOK
  <1>7. CASE ~ ok
    BY <1>1, <1>3, <1>5, <1>7 DEF IInv, TypeOK, WindowExact
  <1> QED
    BY <1>6, <1>7

\* The other steps touch neither the window nor what was let through.
LEMMA OtherSteps ==
    ASSUME IInv, Seal \/ (\E p \in Packets : Receive(p)) \/ UNCHANGED vars
    PROVE  IInv' /\ UNCHANGED <<passed, verdict>>
  <1>1. CASE Seal
    BY <1>1 DEF IInv, TypeOK, WindowExact, Seal
  <1>2. CASE \E p \in Packets : Receive(p)
    <2>1. PICK p \in Packets : Receive(p)
      BY <1>2
    <2>2. queue' \in Seq(Packets)
      BY <2>1 DEF IInv, TypeOK, Receive
    <2> QED
      BY <2>1, <2>2 DEF IInv, TypeOK, WindowExact, Receive
  <1>3. CASE UNCHANGED vars
    BY <1>3 DEF IInv, TypeOK, WindowExact, vars
  <1> QED
    BY <1>1, <1>2, <1>3

\* The bitmap says exactly which of the last Window numbers were let through
\* (vowifi/ike/esp.go, replayWindow), whatever the network does.
THEOREM BitmapExact == Spec => []IInv
  <1>1. Init => IInv
    BY DEF Init, IInv, TypeOK, WindowExact, Numbers
  <1>2. IInv /\ [Next]_vars => IInv'
    BY OpenJudges, OtherSteps DEF Next
  <1> QED
    BY <1>1, <1>2, PTL DEF Spec

\* No packet is let through twice and none that is new and recent is refused:
\* the receiver with its bitmap implements the filter that forgets nothing.
THEOREM ReceiverIsFilter == Spec => ImplementsFilter
  <1>1. Init => Filter!FilterInit
    BY DEF Init, Filter!FilterInit
  <1>2. IInv /\ [Next]_vars => [Filter!FilterNext]_<<passed, verdict>>
    BY OpenJudges, OtherSteps DEF Next
  <1> QED
    BY <1>1, <1>2, BitmapExact, PTL DEF Spec, ImplementsFilter, Filter!FilterSpec

=============================================================================
