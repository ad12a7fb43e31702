----------------------------- MODULE TunnelPlane -----------------------------
(***************************************************************************)
(* What the worker keeps in the kernel for one CHILD_SA, and the two ways  *)
(* it ends: the owner closes the session, or the data plane fails and says *)
(* so.  The user-space data plane (vowifi/ike/userspace_linux.go,          *)
(* routing_cleanup_linux.go, media_linux.go) owns a TUN interface, a policy *)
(* rule, a fail-closed route, host routes, firewall rules and the media    *)
(* routes that calls open on it, with three goroutines and the relay that  *)
(* is the only reader of the socket (relay.go); the kernel one             *)
(* (installer_linux.go) owns an interface, states and policies.            *)
(*                                                                         *)
(* Every resource is created and removed by a command of iproute2 or nft.  *)
(* A command succeeds, is refused, or is killed by its deadline with its   *)
(* work done: the last two look the same to the program.  Network managers *)
(* remove resources behind its back.                                       *)
(***************************************************************************)
EXTENDS Naturals, FiniteSets, Sequences, SequencesExt

CONSTANTS Lease,       \* the media routes that calls may ask for
          Remote,      \* the media endpoints
          Pcscf,       \* the endpoint that is a P-CSCF and has its own route
          MediaLimit,  \* routes a tunnel holds at most
          QueueCap,    \* ESP packets the relay buffers
          Disturbances \* bound: resources that others remove

NoRemote == "none"

PlaneConstants == /\ IsFiniteSet(Lease)
                  /\ Pcscf \in Remote
                  /\ Remote \cap {"link", "rule", "unreachable", "host", "outbound", "inbound",
                                  "policy", "firewall", "stale", NoRemote} = {}
                  /\ MediaLimit \in Nat \ {0}
                  /\ QueueCap \in Nat \ {0}
                  /\ Disturbances \in Nat

VARIABLES mode,      \* the data plane the installer's router chose
          hpc,       \* the step of Install, or of Close, that comes next
          kernel,    \* what is in the kernel for this tunnel
          recorded,  \* handle.cleanup: what Close will remove, in order
          media,     \* handle.mediaRoutes: a count of leases per endpoint
          lease,     \* what each call holds
          unsure,    \* resources a command failed on, whatever it did
          taken,     \* resources somebody else removed
          worker,    \* the three goroutines
          cancelled, \* runContext is cancelled
          terminal,  \* handle.terminalErr is set
          failure,   \* the channel handle.failures
          relay,     \* the session relay: open, failed, or closed
          queue,     \* ESP packets in the relay's buffer
          unlisted,  \* Close could not list the firewall's chain
          result     \* what Close answered

vars == <<mode, hpc, kernel, recorded, media, lease, unsure, taken, worker,
          cancelled, terminal, failure, relay, queue, unlisted, result>>

installVars == <<mode, hpc, recorded, unlisted, result>>
mediaVars   == <<media, lease>>
plane       == <<worker, cancelled, terminal, failure>>
relayVars   == <<relay, queue>>

\* The resources of each data plane, in the order Install creates them.
Resources(m) == IF m = "userspace" THEN <<"link", "rule", "unreachable", "host">>
                ELSE <<"link", "outbound", "inbound", "policy">>

Worker == {"out", "in", "firewall"}

Result == {"ok", "refused", "killed"}

\* What goes with the interface: the routes through it.
OnLink == {"link", "host"} \cup Remote

\* What confirmRoutingRemoved looks for: rows of the private table and rule.
Private(k) == k \ {"link", "firewall", "stale"}

\* hpc holds the resource to create next, or one of these.
Running == hpc = "running"
Closed == hpc \in {"waiting", "media-off", "routes-off", "down", "closed"}
LinkGone == Running /\ "link" \notin kernel

Init == /\ mode \in {"userspace", "xfrm"}
        /\ hpc = "link"
        /\ kernel \in {{}, {"stale"}}
        /\ recorded = <<>>
        /\ media = [r \in {} |-> 0]
        /\ lease = [l \in Lease |-> NoRemote]
        /\ unsure = {} /\ taken = {}
        /\ worker = [w \in Worker |-> "off"]
        /\ cancelled = FALSE /\ terminal = FALSE
        /\ failure = "empty"
        /\ relay = "open" /\ queue = 0
        /\ unlisted = FALSE /\ result = "none"

------------------------------------------------------------------------------
(* Commands                                                                *)

\* An "add" command with each of its results; a route needs its interface.
Adds(r, res) == /\ r \in OnLink \ {"link"} /\ "link" \notin kernel => res = "refused"
                /\ kernel' = IF res = "refused" THEN kernel ELSE kernel \cup {r}
                /\ unsure' = IF res = "ok" THEN unsure ELSE unsure \cup {r}

\* "delete" commands: of `ask`, those in `fail` are refused and those in
\* `killed` are removed though the command fails.  One that is not there is
\* refused.
Deletes(ask, fail, killed) ==
    /\ fail \subseteq ask /\ killed \subseteq ask \ fail
    /\ ask \ kernel \subseteq fail
    /\ kernel' = kernel \ (ask \ fail)
    /\ unsure' = unsure \cup fail \cup killed

------------------------------------------------------------------------------
(* Install                                                                 *)

\* The interface goes, and with it the routes through it; a TUN goes when its
\* descriptor is closed, a dummy interface when its deletion has worked.
WithoutLink(k, closed) == IF closed \/ "link" \notin k THEN k \ OnLink ELSE k

\* What a created resource leaves in handle.cleanup; the kernel data plane
\* keeps no list and the interface is not on it.
Records(r) == IF mode = "userspace" /\ r # "link" THEN Append(recorded, r) ELSE recorded

Creating == hpc \in ToSet(Resources(mode))

Following(r) == LET todo == Resources(mode)
                    i == CHOOSE i \in DOMAIN todo : todo[i] = r IN
                IF i = Len(todo) THEN "firewall-on" ELSE todo[i + 1]

\* One command of configure or of install; a failure undoes what was done.
Configure ==
    /\ Creating
    /\ \E res \in Result :
           /\ Adds(hpc, res)
           /\ recorded' = IF res = "ok" THEN Records(hpc) ELSE recorded
           /\ hpc' = IF res = "ok" THEN Following(hpc) ELSE "undo"
    /\ UNCHANGED <<mode, unlisted, result, mediaVars, taken, plane, relayVars>>

\* configureOpenWrtFirewall, then the three goroutines start.  Hosts without
\* fw4, and the kernel data plane, have no rules to keep.
FirewallOn ==
    /\ hpc = "firewall-on"
    /\ \/ /\ mode = "userspace"
          /\ \/ /\ kernel' = (kernel \ {"stale"}) \cup {"firewall"}
                /\ hpc' = "running"
                /\ worker' = [w \in Worker |-> "run"]
             \/ /\ kernel' = kernel \ {"stale"}
                /\ hpc' = "undo"
                /\ UNCHANGED worker
       \/ /\ hpc' = "running"
          /\ worker' = [w \in Worker |-> IF mode = "userspace" /\ w # "firewall"
                                         THEN "run" ELSE "done"]
          /\ UNCHANGED kernel
    /\ UNCHANGED <<mode, recorded, unlisted, result, mediaVars, unsure, taken, cancelled,
                   terminal, failure, relayVars>>

\* Install gives up: what is recorded (for XFRM everything) is removed and
\* errors are ignored; a TUN goes with its descriptor.
Undo ==
    /\ hpc = "undo"
    /\ LET ask == IF mode = "userspace" THEN ToSet(recorded) ELSE ToSet(Resources(mode)) IN
       \E fail, killed \in SUBSET ask :
           /\ fail \subseteq ask /\ killed \subseteq ask \ fail
           /\ ask \ kernel \subseteq fail
           /\ kernel' = WithoutLink(kernel \ (ask \ fail), mode = "userspace")
           /\ unsure' = unsure \cup fail \cup killed
    /\ hpc' = "failed"
    /\ recorded' = <<>>
    /\ UNCHANGED <<mode, unlisted, result, mediaVars, taken, plane, relayVars>>

------------------------------------------------------------------------------
(* The data plane                                                          *)

\* handle.fail: the first error is kept and offered to the owner; the other
\* goroutines are told to stop.
Fail == /\ terminal' = TRUE
        /\ failure' = IF ~terminal /\ failure = "empty" THEN "queued" ELSE failure
        /\ cancelled' = TRUE

Leave(w) == worker' = [worker EXCEPT ![w] = "done"]

\* A goroutine whose context is cancelled leaves.
WorkerStops(w) ==
    /\ worker[w] = "run" /\ cancelled
    /\ Leave(w)
    /\ UNCHANGED <<installVars, kernel, mediaVars, unsure, taken, cancelled, terminal,
                   failure, relayVars>>

\* The interface is gone: poll reports it as os.ErrClosed, which is taken
\* for a local close, and the goroutine leaves without a word.
LinkLost(w) ==
    /\ worker[w] = "run" /\ ~cancelled
    /\ LinkGone
    /\ \/ w = "out"
       \/ w = "in" /\ queue > 0
    /\ Leave(w)
    /\ queue' = IF w = "in" THEN queue - 1 ELSE queue
    /\ UNCHANGED <<installVars, kernel, mediaVars, unsure, taken, cancelled, terminal,
                   failure, relay>>

\* copyTUNToRelay cannot read, seal or send a packet: SendESP refuses when
\* the relay has ended.
OutFails ==
    /\ worker["out"] = "run" /\ ~cancelled
    /\ Leave("out")
    /\ Fail
    /\ UNCHANGED <<installVars, kernel, mediaVars, unsure, taken, relayVars>>

\* copyRelayToTUN takes a packet and writes it, or drops it.
Inbound ==
    /\ worker["in"] = "run"
    /\ queue > 0 /\ ~LinkGone
    /\ queue' = queue - 1
    /\ UNCHANGED <<installVars, kernel, mediaVars, unsure, taken, plane, relay>>

\* The relay's buffer is closed and empty, or the write fails.
InFails ==
    /\ worker["in"] = "run" /\ ~cancelled
    /\ \/ relay # "open" /\ queue = 0
       \/ queue > 0 /\ ~LinkGone
    /\ Leave("in")
    /\ Fail
    /\ queue' = IF queue > 0 THEN queue - 1 ELSE queue
    /\ UNCHANGED <<installVars, kernel, mediaVars, unsure, taken, relay>>

\* maintainOpenWrtFirewall, every ten seconds: rules lost in a reload are
\* installed again; errors are left to the next round.
Maintain ==
    /\ worker["firewall"] = "run"
    /\ "firewall" \notin kernel
    /\ kernel' = (kernel \ {"stale"}) \cup {"firewall"}
    /\ UNCHANGED <<installVars, mediaVars, unsure, taken, plane, relayVars>>

------------------------------------------------------------------------------
(* The relay                                                               *)

\* An ESP packet: the sole reader never waits for the data plane.
Packet ==
    /\ relay = "open" /\ Running
    /\ queue < QueueCap
    /\ queue' = queue + 1
    /\ UNCHANGED <<installVars, kernel, mediaVars, unsure, taken, plane, relay>>

\* The socket fails, a keepalive or an answer cannot be sent, or the peer
\* asks for something that is not an empty INFORMATIONAL: the relay ends and
\* closes its buffer.  Packets of an earlier SA are ignored.
RelayFails ==
    /\ relay = "open"
    /\ hpc # "failed"
    /\ relay' = "failed"
    /\ UNCHANGED <<installVars, kernel, mediaVars, unsure, taken, plane, queue>>

------------------------------------------------------------------------------
(* Media routes                                                            *)

Held(r) == {l \in Lease : lease[l] = r}

\* handle.mu is held over the whole of OpenMediaRoute, the command included.
OpenMediaRoute(l, r) ==
    /\ mode = "userspace"
    /\ lease[l] = NoRemote
    /\ Running /\ ~cancelled
    /\ \/ /\ r \in DOMAIN media
          /\ media' = [media EXCEPT ![r] = @ + 1]
          /\ lease' = [lease EXCEPT ![l] = r]
          /\ UNCHANGED <<kernel, unsure>>
       \/ /\ r \notin DOMAIN media
          /\ Cardinality(DOMAIN media) < MediaLimit
          /\ \/ /\ r = Pcscf \* the tunnel's own host route serves it
                /\ UNCHANGED <<kernel, unsure>>
             \/ /\ r # Pcscf
                /\ Adds(r, "ok")
          /\ media' = [m \in DOMAIN media \cup {r} |-> IF m = r THEN 1 ELSE media[m]]
          /\ lease' = [lease EXCEPT ![l] = r]
       \/ /\ r \notin DOMAIN media /\ r # Pcscf
          /\ Cardinality(DOMAIN media) < MediaLimit
          /\ \E res \in {"refused", "killed"} : Adds(r, res)
          /\ UNCHANGED mediaVars
    /\ UNCHANGED <<installVars, taken, plane, relayVars>>

\* The call that closes is the last one that uses the endpoint.
LastUse(r) == media[r] <= 1

Without(f, r) == [x \in DOMAIN f \ {r} |-> f[x]]

\* lease.Close: the last one removes the route; a route that could not be
\* removed keeps its entry for the tunnel's own cleanup.
CloseMediaRoute(l) ==
    /\ lease[l] # NoRemote
    /\ LET r == lease[l] IN
       \/ /\ r \notin DOMAIN media
          /\ UNCHANGED <<media, kernel, unsure>>
       \/ /\ r \in DOMAIN media /\ ~LastUse(r)
          /\ media' = [media EXCEPT ![r] = @ - 1]
          /\ UNCHANGED <<kernel, unsure>>
       \/ /\ r \in DOMAIN media /\ LastUse(r) /\ r = Pcscf
          /\ media' = Without(media, r)
          /\ UNCHANGED <<kernel, unsure>>
       \/ /\ r \in DOMAIN media /\ LastUse(r) /\ r # Pcscf
          /\ Deletes({r}, {}, {})
          /\ media' = Without(media, r)
       \/ /\ r \in DOMAIN media /\ LastUse(r) /\ r # Pcscf
          /\ media' = [media EXCEPT ![r] = @ - 1]
          /\ kernel' \in {kernel, kernel \ {r}}
          /\ unsure' = unsure \cup {r}
    /\ lease' = [lease EXCEPT ![l] = NoRemote]
    /\ UNCHANGED <<installVars, taken, plane, relayVars>>

------------------------------------------------------------------------------
(* Closing                                                                 *)

\* Session.Close, once: the child first.  The owner closes when it is told
\* of a failure, and whenever it stops Wi-Fi calling.
Close ==
    /\ Running
    /\ failure' = IF failure = "queued" THEN "taken" ELSE failure
    /\ cancelled' = TRUE
    /\ hpc' = "waiting"
    /\ UNCHANGED <<mode, recorded, unlisted, result, kernel, mediaVars, unsure, taken,
                   worker, terminal, relayVars>>

WorkersGone == \A w \in Worker : worker[w] # "run"

\* handle.wait.Wait, then the firewall's rules: those listed are deleted.  A
\* chain that cannot be listed is taken for one that is gone.
FirewallOff ==
    /\ hpc = "waiting"
    /\ WorkersGone
    /\ \/ /\ mode = "userspace" /\ "firewall" \in kernel
          /\ \/ Deletes({"firewall"}, {}, {}) /\ UNCHANGED <<unlisted, result>>
             \/ Deletes({"firewall"}, {"firewall"}, {}) /\ result' = "failed" /\ UNCHANGED unlisted
             \/ unlisted' = TRUE /\ UNCHANGED <<kernel, unsure, result>>
       \/ /\ mode = "xfrm" \/ "firewall" \notin kernel
          /\ UNCHANGED <<kernel, unsure, unlisted, result>>
    /\ hpc' = IF mode = "userspace" THEN "media-off" ELSE "routes-off"
    /\ UNCHANGED <<mode, recorded, mediaVars, taken, plane, relayVars>>

\* cleanupMediaRoutes: an entry whose route stays is kept.
MediaOff ==
    /\ hpc = "media-off"
    /\ \E fail, killed \in SUBSET (DOMAIN media \ {Pcscf}) :
           /\ Deletes(DOMAIN media \ {Pcscf}, fail, killed)
           /\ media' = [r \in fail \cup killed |-> media[r]]
    /\ hpc' = "routes-off"
    /\ UNCHANGED <<mode, recorded, unlisted, result, lease, taken, plane, relayVars>>

\* Variant: only the routes are looked for, not the policy rule.
RoutesConfirmed(k) == Private(k) \ {"rule"} = {}

\* confirmRoutingRemoved: both inventories were read and hold nothing of the
\* private table and priority.
Confirmed(k) == Private(k) = {}

\* The recorded commands in reverse; after any failure, the inventories are
\* the proof.  XFRM has no such proof and reports every failed delete.
RoutesOff ==
    /\ hpc = "routes-off"
    /\ LET ask == IF mode = "userspace" THEN ToSet(recorded) ELSE ToSet(Resources(mode)) IN
       \E fail, killed \in SUBSET ask, readable \in BOOLEAN :
           /\ Deletes(ask, fail, killed)
           /\ LET failed == fail \cup killed
                  errors == failed # {} \/ media # [r \in {} |-> 0]
                  proof == mode = "userspace" /\ readable /\ Confirmed(kernel') IN
              /\ result' = IF errors /\ ~proof THEN "failed"
                           ELSE IF result = "none" THEN "clean" ELSE result
              /\ media' = IF errors /\ proof THEN [r \in {} |-> 0] ELSE media
              /\ recorded' = IF errors /\ proof THEN <<>>
                             ELSE SelectSeq(recorded, LAMBDA r : r \in failed)
    /\ hpc' = "down"
    /\ UNCHANGED <<mode, unlisted, lease, taken, plane, relayVars>>

\* The TUN is closed, the peer is told with an IKE Delete (a failure to send
\* it is a warning), and the relay and its socket are closed.
Down ==
    /\ hpc = "down"
    /\ kernel' = WithoutLink(kernel, mode = "userspace")
    /\ relay' = "closed"
    /\ \/ UNCHANGED result
       \/ result' = "failed"
    /\ hpc' = "closed"
    /\ UNCHANGED <<mode, recorded, unlisted, mediaVars, unsure, taken, plane, queue>>

------------------------------------------------------------------------------
\* A network manager or a firewall reload removes something of the tunnel.
Taken(r) ==
    /\ r \in kernel \ {"stale"}
    /\ hpc # "failed"
    /\ Cardinality(taken) < Disturbances
    /\ LET gone == IF r = "link" THEN kernel \cap OnLink ELSE {r} IN
       /\ taken' = taken \cup gone
       /\ kernel' = kernel \ gone
    /\ UNCHANGED <<installVars, mediaVars, unsure, plane, relayVars>>

Workers == \/ \E w \in Worker : WorkerStops(w) \/ LinkLost(w)
           \/ OutFails \/ Inbound \/ InFails \/ Maintain

Closing == FirewallOff \/ MediaOff \/ RoutesOff \/ Down

Next == \/ Configure \/ FirewallOn \/ Undo
        \/ Workers
        \/ Packet \/ RelayFails
        \/ \E l \in Lease, r \in Remote : OpenMediaRoute(l, r)
        \/ \E l \in Lease : CloseMediaRoute(l)
        \/ Close \/ Closing
        \/ \E r \in kernel : Taken(r)

\* The goroutines run, and Close goes on once it is called.
Fairness == /\ \A w \in Worker : WF_vars(WorkerStops(w))
            /\ WF_vars(LinkLost("in")) /\ WF_vars(Inbound) /\ WF_vars(InFails)
            /\ WF_vars(Closing)

Spec == Init /\ [][Next]_vars /\ Fairness

------------------------------------------------------------------------------
(* Properties                                                              *)

TypeOK ==
    /\ mode \in {"userspace", "xfrm"}
    /\ hpc \in ToSet(Resources(mode)) \cup {"firewall-on", "running", "undo", "failed"}
            \cup {"waiting", "media-off", "routes-off", "down", "closed"}
    /\ kernel \subseteq ToSet(Resources(mode)) \cup Remote \cup {"firewall", "stale"}
    /\ DOMAIN media \subseteq Remote
    /\ lease \in [Lease -> Remote \cup {NoRemote}]
    /\ worker \in [Worker -> {"off", "run", "done"}]
    /\ failure \in {"empty", "queued", "taken"}
    /\ relay \in {"open", "failed", "closed"} /\ queue \in 0 .. QueueCap
    /\ result \in {"none", "clean", "failed"}

\* While the tunnel runs, an endpoint is counted once per call that holds
\* it, and a call that holds one has its route, unless a network manager took
\* it or a command on it failed: two calls that open and close the same
\* endpoint at once do not lose each other's route (media_linux.go).
MediaServed ==
    Running =>
        /\ \A r \in DOMAIN media : media[r] = Cardinality(Held(r))
        /\ \A l \in Lease :
               lease[l] \notin {NoRemote, Pcscf} => lease[l] \in kernel \cup taken \cup unsure

\* Everything the user-space plane has in the kernel is something it will
\* remove, or something a command failed on.
Owned ==
    mode = "userspace" /\ hpc \notin {"closed", "undo", "failed"} =>
        Private(kernel) \subseteq ToSet(recorded) \cup DOMAIN media \cup unsure
                                \cup (IF Creating THEN {} ELSE {"host"})

\* Close that reports no error leaves nothing in the kernel: failed deletes
\* are forgiven only when both inventories show that nothing is left
\* (userspace_linux.go 786-830).  A firewall chain that could not be listed is
\* the exception the code accepts.
CleanClose ==
    hpc = "closed" /\ result = "clean" =>
        kernel \subseteq {"stale"} \cup (IF unlisted THEN {"firewall"} ELSE {})

\* A data plane that stopped on its own told its owner, once; only the loss
\* of the interface itself is silent.
StopsReported ==
    /\ cancelled /\ ~Closed => terminal
    /\ terminal => failure # "empty"
    /\ Running /\ worker["in"] = "done" /\ mode = "userspace" => terminal \/ "link" \in taken

PlaneSound == TypeOK /\ MediaServed /\ Owned /\ CleanClose /\ StopsReported

\* A relay that ends is noticed by the data plane that reads from it: the
\* owner is told, or closes by itself, or the interface was lost.
RelayLossReported ==
    mode = "userspace" /\ Running /\ relay = "failed"
        ~> failure # "empty" \/ ~Running \/ "link" \in taken

==============================================================================
