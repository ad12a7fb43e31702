----------------------------- MODULE EspWindow ------------------------------
(* The user-space CHILD_SA (vowifi/ike/esp.go): one side numbers the packets, *)
(* the network loses, repeats, reorders and damages them, the session relay   *)
(* keeps a short queue and drops when it is full, and the receiver keeps the  *)
(* highest number and a bitmap of the Window numbers up to it.                *)
EXTENDS Integers, Sequences

CONSTANTS Window,         \* espReplayWindow: 64
          MaxSequence,    \* math.MaxUint32: sealing stops there
          QueueCap        \* the relay's channel: 64 packets

ASSUME EspConstants == /\ Window \in Nat \ {0}
                       /\ MaxSequence \in Nat
                       /\ QueueCap \in Nat \ {0}

VARIABLES
    sequence,   \* the last number the sender used
    queue,      \* packets between the relay's reader and the data plane
    highest,    \* replayWindow.highest
    bitmap,     \* replayWindow.bitmap: the bits that are set
    passed,     \* history: the numbers written to the TUN
    verdict     \* history: the last packet opened

vars == <<sequence, queue, highest, bitmap, passed, verdict>>

Numbers == 1..MaxSequence
Packets == [seq : Numbers, intact : BOOLEAN]

Init == /\ sequence = 0 /\ queue = <<>>
        /\ highest = 0 /\ bitmap = {}
        /\ passed = {} /\ verdict = [seq |-> 0, intact |-> FALSE, ok |-> FALSE]

\* espDirection.seal: the number is used up before the packet leaves; at the
\* last one the sender refuses rather than wrap.
Seal == /\ sequence < MaxSequence
        /\ sequence' = sequence + 1
        /\ UNCHANGED <<queue, highest, bitmap, passed, verdict>>

\* The relay's reader gets a datagram: any sealed packet, again or late, or a
\* damaged one with any number.  A full queue drops it.
Receive(p) ==
    /\ p.intact => p.seq <= sequence
    /\ queue' = IF Len(queue) < QueueCap THEN Append(queue, p) ELSE queue
    /\ UNCHANGED <<sequence, highest, bitmap, passed, verdict>>

\* Variant: what is older than the window is judged by the bitmap alone.
WouldAcceptUnbounded(s) ==
    \/ highest = 0
    \/ s > highest
    \/ highest - s \notin bitmap

\* replayWindow.wouldAccept, asked before the packet is authenticated.
WouldAccept(s) ==
    \/ highest = 0
    \/ s > highest
    \/ highest - s < Window /\ highest - s \notin bitmap

\* bitmap << by, in Window bits.
Shifted(by) == {d + by : d \in bitmap} \cap (0..Window - 1)

\* Variant: a new highest number leaves the bitmap where it was.
CommitUnshifted(s) ==
    /\ highest' = IF highest = 0 \/ s > highest THEN s ELSE highest
    /\ bitmap' = IF highest = 0 \/ s > highest THEN bitmap \cup {0}
                                               ELSE bitmap \cup {highest - s}

\* replayWindow.commit: the bitmap follows the highest number, and what leaves
\* its Window bits is forgotten.
Commit(s) ==
    IF highest = 0 \/ s > highest
    THEN /\ highest' = s
         /\ bitmap' = (IF highest = 0 THEN {} ELSE Shifted(s - highest)) \cup {0}
    ELSE /\ bitmap' = bitmap \cup {highest - s}
         /\ UNCHANGED highest

\* espDirection.open on the next packet of the queue: the window is asked, the
\* packet authenticated, and only then is the window moved.
Open ==
    /\ queue # <<>>
    /\ queue' = Tail(queue)
    /\ LET p == Head(queue)
           ok == p.intact /\ WouldAccept(p.seq)
       IN  /\ verdict' = [seq |-> p.seq, intact |-> p.intact, ok |-> ok]
           /\ passed' = IF ok THEN passed \cup {p.seq} ELSE passed
           /\ IF ok THEN Commit(p.seq) ELSE UNCHANGED <<highest, bitmap>>
    /\ UNCHANGED sequence

Next == Seal \/ Open \/ \E p \in Packets : Receive(p)

Spec == Init /\ [][Next]_vars

-----------------------------------------------------------------------------
TypeOK ==
    /\ sequence \in 0..MaxSequence
    /\ queue \in Seq(Packets)
    /\ highest \in 0..MaxSequence
    /\ bitmap \subseteq 0..Window - 1
    /\ passed \subseteq Numbers

\* highest is the newest number let through, and the bitmap says exactly which
\* of the Window numbers up to it were.
WindowExact ==
    /\ highest = 0 <=> passed = {}
    /\ highest # 0 => highest \in passed
    /\ \A t \in passed : t <= highest
    /\ \A d \in 0..Window - 1 : d \in bitmap <=> highest - d \in passed

IInv == TypeOK /\ WindowExact

\* The window forgets, yet it lets nothing through twice and refuses no packet
\* that is new and recent: it is the filter that remembers everything.
Filter == INSTANCE ReplayFilter WITH Sequences <- Numbers
ImplementsFilter == Filter!FilterSpec

=============================================================================
