---- MODULE MCCalls ----
(* Calls of SIP clients in the router's tables and orders, and the buffer  *)
(* that their voice is played from.                                        *)
EXTENDS Integers, Router, TLC

CONSTANTS
    a1, a2, m1, m2

VARIABLES
    part,  \* the part whose behaviour this is
    now, sent, skew, troubles, net, j, kept, heard, late

\* Accounts and modules are interchangeable where all edits treat them alike.
Symmetry == Permutations(Accounts) \cup Permutations(Modules)

\* The accounts keep what they were given until they are deleted.
NoEdits == {}

\* Every account has all modules and one client of each is registered, so that
\* the remaining identifiers are calls.
Established ==
    /\ next = Cardinality(Accounts)
    /\ policies = [a \in Accounts |-> [modules |-> Modules, receive |-> TRUE, revision |-> 1]]
    /\ revisions = [a \in Accounts |-> 1]
    /\ \E f \in [1 .. Cardinality(Accounts) -> Accounts] :
        /\ \A a \in Accounts : \E i \in DOMAIN f : f[i] = a
        /\ registrations = [i \in Ids |-> IF i \in DOMAIN f
                THEN [revision |-> 1, account |-> f[i], live |-> TRUE] ELSE NoRegistration]
    /\ ready = [m \in Modules |-> TRUE]
    /\ calls = [id \in Ids |-> NoCall]
    /\ moduleUse = [m \in Modules |-> 0]
    /\ accountUse = [a \in Accounts |-> 0]
    /\ lastDial = [a \in Accounts |-> None]
    /\ orders = {}

Rtp == INSTANCE RtpJitter WITH
    Delay <- 1, MaxDelay <- 2, MaxLate <- 1, Window <- 4, Seen <- 4, Pause <- 4,
    LateWithin <- 4, LateLimit <- 2, JumpWithin <- 2, JumpLimit <- 2, QuietLimit <- 1,
    Stable <- 1, Between <- 1, SequenceMod <- 16, StampMod <- 32, Transit <- 1,
    MaxPackets <- 4, MaxTime <- 8, Silent <- {3, 4}, MaxTroubles <- 1, Jumps <- {-2, 6}

\* What stands for a part whose behaviour this is not.
Off == "off"

ASSUME JitterBounds == Rtp!JitterConstants

varsRtp == <<now, sent, skew, troubles, net, j, kept, heard, late>>
all == <<part, vars, varsRtp>>

OffRtp ==
    /\ now = Off /\ sent = Off /\ skew = Off /\ troubles = Off /\ net = Off /\ j = Off
    /\ kept = Off /\ heard = Off /\ late = Off

\* The behaviour is of one part, as the program finds it; the others are away.
InitAll ==
    /\ part \in {"router", "voice"}
    /\ Established
    /\ IF part = "voice" THEN Rtp!Init ELSE OffRtp

NextAll ==
    \/ part = "router" /\ Next /\ UNCHANGED <<part, varsRtp>>
    \/ part = "voice" /\ Rtp!Next /\ UNCHANGED <<part, vars>>

Behaviour == InitAll /\ [][NextAll]_all

-----------------------------------------------------------------------------
\* What is heard is heard once, in order and soon (RtpJitter).
VoiceHeard == part = "voice" => Rtp!JitterSound
=============================================================================
