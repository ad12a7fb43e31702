---- MODULE MCCarrierCalls ----
(* Calls between SIP clients and the operator: two that go out, the calls   *)
(* of an IMS session, the tunnel it runs through, and the SIM card that     *)
(* sessions, messages and emergency look-ups share.                         *)
EXTENDS Integers, OutgoingCall

CONSTANTS
    Out, In, Killers, Shared, MaxCalls, MaxLost, MaxRefresh, Channels, Rounds, MaxTroubles,
    EapRounds, Challenges

VARIABLES
    part,  \* the part whose behaviour this is
    call, oper, killer, answer, watcher, prack, cancel, reader, mu, session, leg, down, imsLost,
    refreshes, firmware, card, basic, open, response, binding, lock, task, stage, simLost,
    interrupted, troubles, config, pc, ikeStage, attempt, tries, remote, held, mid, deleteId,
    round, aka, requests, responses, peer

\* A modem that knows every command, and one that knows the basic channel only.
Full == [cuad |-> TRUE, channels |-> TRUE]
BasicOnly == [cuad |-> FALSE, channels |-> FALSE]

\* A gateway with a second address, and one that knows the legacy proposal only.
TwoAddresses == [gateways |-> 2, fallback |-> FALSE]
OldProposal == [gateways |-> 1, fallback |-> TRUE]

Ims == INSTANCE ImsCall WITH
    lost <- imsLost
Sim == INSTANCE SimCard WITH
    Firmwares <- {Full, BasicOnly}, lost <- simLost
Ike == INSTANCE IkeTunnel WITH
    Configs <- {TwoAddresses, OldProposal}, Rounds <- EapRounds, stage <- ikeStage

\* What stands for a part whose behaviour this is not.
Off == "off"

ASSUME ImsBounds == Ims!ImsCallConstants
ASSUME CardBounds == Sim!SimConstants
ASSUME IkeBounds == Ike!IkeConstants

varsIms == <<call, oper, killer, answer, watcher, prack, cancel, reader, mu, session, leg,
        down, imsLost, refreshes>>
varsSim == <<firmware, card, basic, open, response, binding, lock, task, stage, simLost,
        interrupted, troubles>>
varsIke == <<config, pc, ikeStage, attempt, tries, remote, held, mid, deleteId, round, aka,
        requests, responses, peer>>
all == <<part, vars, varsIms, varsSim, varsIke>>

OffIms ==
    /\ call = Off /\ oper = Off /\ killer = Off /\ answer = Off /\ watcher = Off /\ prack = Off
    /\ cancel = Off /\ reader = Off /\ mu = Off /\ session = Off /\ leg = Off /\ down = Off
    /\ imsLost = Off /\ refreshes = Off
OffSim ==
    /\ firmware = Off /\ card = Off /\ basic = Off /\ open = Off /\ response = Off /\ binding = Off
    /\ lock = Off /\ task = Off /\ stage = Off /\ simLost = Off /\ interrupted = Off
    /\ troubles = Off
OffIke ==
    /\ config = Off /\ pc = Off /\ ikeStage = Off /\ attempt = Off /\ tries = Off /\ remote = Off
    /\ held = Off /\ mid = Off /\ deleteId = Off /\ round = Off /\ aka = Off /\ requests = Off
    /\ responses = Off /\ peer = Off

\* The behaviour is of one part, as the program finds it; the others are away.
InitAll ==
    /\ part \in {"outgoing", "ims", "card", "tunnel"}
    /\ Init
    /\ IF part = "ims" THEN Ims!Init ELSE OffIms
    /\ IF part = "card" THEN Sim!Init ELSE OffSim
    /\ IF part = "tunnel" THEN Ike!Init ELSE OffIke

NextAll ==
    \/ part = "outgoing" /\ Next /\ UNCHANGED <<part, varsIms, varsSim, varsIke>>
    \/ part = "ims" /\ Ims!Next /\ UNCHANGED <<part, vars, varsSim, varsIke>>
    \/ part = "card" /\ Sim!Next /\ UNCHANGED <<part, vars, varsIms, varsIke>>
    \/ part = "tunnel" /\ Ike!Next /\ UNCHANGED <<part, vars, varsIms, varsSim>>

Behaviour == InitAll /\ [][NextAll]_all

-----------------------------------------------------------------------------
\* A call of the IMS session ends once, with every leg confirmed or given up in the open
\* (ImsCall); no command reaches the card in the middle of another's, or another card than the
\* one it was meant for (SimCard); the tunnel is believed up where the gateway holds it, and it
\* is left nowhere else without its DELETE (IkeTunnel).
SessionSound ==
    /\ part = "ims" => Ims!CallsSound /\ Ims!ConfirmedEnd
    /\ part = "card" => Sim!SimSound
    /\ part = "tunnel" => Ike!TunnelSound
=============================================================================
