---- MODULE MCTunnels ----
(* What runs underneath: the ESP window, the tunnel's planes, the routes    *)
(* that workers share, calls over the modem and over Wi-Fi, and the tunnel  *)
(* of the SIP domain.                                                       *)
EXTENDS Integers, EspWindow, TLC

CONSTANTS
    CallNumbers, Lease, Remote, Pcscf, MediaLimit, Disturbances, MaxCalls, Handle, Incoming,
    MaxNames,
    CellularTroubles, WifiTroubles, DomainTroubles  \* what fails at most, in one part

VARIABLES
    part,  \* the part whose behaviour this is
    mode, hpc, kernel, recorded, media, lease, unsure, taken, planeWorker, cancelled, terminal,
    failure, relay, planeQueue, unlisted, result, cellCalls, sound, home, disk, generation, pc,
    handle, others, cellTroubles, wifiCalls, wifiWorker, request, slot, stream, wire, client,
    wifiTroubles, mem, row, files, cloud, domWorker, cleaner, late, strays, made, names,
    domTroubles

Plane == INSTANCE TunnelPlane WITH
    worker <- planeWorker, queue <- planeQueue
Cell == INSTANCE CellularVoice WITH
    MaxTroubles <- CellularTroubles, Id <- CallNumbers, calls <- cellCalls, troubles <- cellTroubles
Wifi == INSTANCE WifiVoice WITH
    MaxTroubles <- WifiTroubles, calls <- wifiCalls, worker <- wifiWorker, troubles <- wifiTroubles
Dom == INSTANCE DomainTunnel WITH
    MaxTroubles <- DomainTroubles, worker <- domWorker, troubles <- domTroubles

ASSUME PlaneBounds == Plane!PlaneConstants
ASSUME CellularBounds == Cell!VoiceConstants
ASSUME WifiBounds == Wifi!VoiceStreamConstants
ASSUME DomainBounds == Dom!DomainConstants

varsPlane == <<mode, hpc, kernel, recorded, media, lease, unsure, taken, planeWorker,
        cancelled, terminal, failure, relay, planeQueue, unlisted, result>>
varsCell == <<cellCalls, sound, home, disk, generation, pc, handle, others, cellTroubles>>
varsWifi == <<wifiCalls, wifiWorker, request, slot, stream, wire, client, wifiTroubles>>
varsDom == <<mem, row, files, cloud, domWorker, cleaner, late, strays, made, names, domTroubles>>
all == <<part, vars, varsPlane, varsCell, varsWifi, varsDom>>

\* Every part is as the program finds it, and one of them goes on.
InitAll ==
    /\ part \in {"esp", "plane", "cellular", "wifi", "domain"}
    /\ Init
    /\ Plane!Init /\ (part # "plane" => mode = "xfrm" /\ kernel = {})
    /\ Cell!Init /\ (part # "cellular" => home = "none")
    /\ Wifi!Init
    /\ Dom!Init /\ (part # "domain" => cloud.dns = Dom!NoDns)

NextAll ==
    \/ part = "esp" /\ Next /\ UNCHANGED <<part, varsPlane, varsCell, varsWifi, varsDom>>
    \/ part = "plane" /\ Plane!Next /\ UNCHANGED <<part, vars, varsCell, varsWifi, varsDom>>
    \/ part = "cellular" /\ Cell!Next /\ UNCHANGED <<part, vars, varsPlane, varsWifi, varsDom>>
    \/ part = "wifi" /\ Wifi!Next /\ UNCHANGED <<part, vars, varsPlane, varsCell, varsDom>>
    \/ part = "domain" /\ Dom!Next /\ UNCHANGED <<part, vars, varsPlane, varsCell, varsWifi>>

\* The part that goes on is scheduled as its module says.
Fair ==
    \/ part = "esp"
    \/ part = "plane" /\ Plane!Fairness
    \/ part = "cellular" /\ Cell!Fairness
    \/ part = "wifi" /\ Wifi!Fairness
    \/ part = "domain" /\ Dom!Fairness

Behaviour == InitAll /\ [][NextAll]_all /\ Fair

-----------------------------------------------------------------------------
\* Media lasts as long as a call asks for it, what the kernel holds is known or in doubt, and a
\* closed plane has left nothing (TunnelPlane); a call of ours has its file, which says what the
\* user's settings were, and the microphone is off with the voice path on (CellularVoice); a
\* hang-up that reports success is true and the slot is not given away under a call (WifiVoice);
\* the row knows every tunnel and record that was made for it, and a tunnel that it names is
\* there, but for what others or abandoned requests have done (DomainTunnel).
PathsSound ==
    /\ Plane!PlaneSound
    /\ Cell!VoiceSound
    /\ Wifi!VoiceSound
    /\ Dom!TunnelSound

\* Records of others are not changed, whatever happens between the listing of the records and
\* their deletion by number; only one that was ours when it was listed may still be deleted when
\* its owner has edited it since (DomainTunnel).
ForeignSpared == Dom!ForeignSpared

\* Something to notice, recover, release or remove, in the part that goes on.
UnderWay ==
    \/ part = "plane" /\ mode = "userspace" /\ Plane!Running /\ relay = "failed"
    \/ part = "cellular" /\ disk.file = "saved" /\ pc = "none"
    \/ part = "wifi" /\ \E h \in Handle : client[h].at = "waiting"
    \/ part = "domain" /\ mem.status = "disconnecting"

Over ==
    \/ part = "plane" /\ (failure # "empty" \/ ~Plane!Running \/ "link" \in taken)
    \/ part = "cellular" /\ disk = Cell!NoFile
    \/ part = "wifi" /\ (wifiWorker = "unclean" \/ \E h \in Handle : client[h].at = "released")
    \/ part = "domain" /\ mem.status # "disconnecting"

\* A relay's end is noticed unless the interface itself is lost (RelayLossReported), a journalled
\* call is recovered (Recovered), a call that is hung up is released unless its worker ends
\* without a confirmed cleanup (HangupsEnd), and a domain that is being disconnected ends
\* disconnected or in a failure that the user can retry (DisconnectEnds).
EverythingEnds == UnderWay ~> Over
=============================================================================
