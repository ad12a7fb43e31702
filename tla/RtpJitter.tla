---------------------------- MODULE RtpJitter ----------------------------
(* The playout buffer of a Wi-Fi call's voice (ims/rtp_jitter.go): packets *)
(* of PCM arrive late, twice, out of order or after the carrier moved its  *)
(* clock, and a reader takes one frame at a time.  A unit of time, and of  *)
(* the carrier's time stamps, is one frame (20 ms); a packet holds one     *)
(* frame.  Sequence numbers and time stamps wrap.                          *)
EXTENDS Integers, Sequences

CONSTANTS
    Delay,        \* frames a stream is held back at first (60 ms)
    MaxDelay,     \* ... at most, after late packets (180 ms)
    MaxLate,      \* frames a reader may be behind (120 ms)
    Window,       \* frames of the buffer (512 ms)
    Seen,         \* packets of which the arrival is remembered (64)
    Pause,        \* frames without a packet after which a stream may start anew (1 s)
    LateWithin,   \* frames in which late packets count together (500 ms)
    LateLimit,    \* late packets that make the delay grow (3)
    JumpWithin,   \* frames between the packets of a new clock (200 ms)
    JumpLimit,    \* packets that show a new clock (3)
    QuietLimit,   \* quiet frames before one may be left out (10)
    Stable,       \* frames since the last disturbance before one is (5 s)
    Between,      \* frames between two that are left out (1 s)
    SequenceMod, StampMod,         \* where the numbers of RTP wrap (2^16, 2^32)
    Transit,      \* bound: frames a packet is under way at most
    MaxPackets,   \* bound: packets sent
    MaxTime,      \* bound: frames that pass
    Silent,       \* the packets of silence
    MaxTroubles,  \* bound: packets delivered twice, stalls of the reader, moves of the clock
    Jumps         \* bound: how far the carrier's clock may be moved, once

VARIABLES
    now,          \* the time
    sent,         \* packets the carrier has sent
    skew,         \* how far its clock has been moved
    troubles,     \* such things so far
    net,          \* packets under way
    j,            \* the buffer (rtpJitter)
    kept,         \* packets the buffer took since it last started anew
    heard,        \* the packets the reader was given
    late          \* the longest time one of them had lain in the buffer

carrier == <<sent, skew, troubles, net>>
vars == <<now, sent, skew, troubles, net, j, kept, heard, late>>

JitterConstants ==
    /\ Delay \in Nat \ {0} /\ MaxDelay >= Delay /\ MaxLate \in Nat
    /\ Transit < Pause /\ 2 * Seen <= SequenceMod /\ StampMod % Window = 0

\* The difference of two wrapped numbers, as a signed one (int16, int32).
Signed(a, b, mod) ==
    LET d == (a - b) % mod IN IF 2 * d < mod THEN d ELSE d - mod

Quiet == UNCHANGED troubles
Trouble == troubles < MaxTroubles /\ troubles' = troubles + 1

NoPacket == [n |-> 0]
NoJump == [sequence |-> 0, end |-> 0, at |-> 0, count |-> 0]

Number(p) == p.n % SequenceMod

\* The stream starts (anew) with this packet.
Reset(p) ==
    [on |-> TRUE, playing |-> FALSE, sequence |-> Number(p), seen |-> {}, cursor |-> p.stamp,
     nextAt |-> now + Delay, lastAt |-> now, delay |-> Delay, lateCount |-> 0, lateSince |-> 0,
     hold |-> 0, quiet |-> 0, stableAt |-> now, reducedAt |-> now, jump |-> NoJump,
     slots |-> [i \in 0 .. Window - 1 |-> NoPacket]]

Off0 == [on |-> FALSE]

Init ==
    /\ now = 0 /\ sent = 0 /\ skew = 0 /\ troubles = 0 /\ net = {}
    /\ j = Off0 /\ kept = {} /\ heard = <<>> /\ late = 0

------------------------------------------------------------------------------
(* The carrier and the network                                             *)

\* The carrier sends a packet every frame while someone speaks; the first
\* numbers are chosen so that both wrap.
Packet(at) ==
    [n |-> SequenceMod - 1 + sent, silent |-> sent \in Silent, at |-> at,
     stamp |-> (StampMod - 2 + at + skew) % StampMod]

\* A packet that is under way for too long is lost.  A reader that does not take
\* a frame that is due stalls.
Tick(speaks) ==
    /\ now < MaxTime /\ now' = now + 1
    /\ speaks => sent < MaxPackets
    /\ LET alive == {p \in net : now + 1 - p.at <= Transit} IN
       net' = IF speaks THEN alive \cup {Packet(now + 1)} ELSE alive
    /\ sent' = IF speaks THEN sent + 1 ELSE sent
    /\ IF j.on /\ j.nextAt = now THEN Trouble ELSE Quiet
    /\ UNCHANGED <<skew, j, kept, heard, late>>

ClockMoves(d) ==
    /\ skew = 0 /\ skew' = d /\ Trouble
    /\ UNCHANGED <<now, sent, net, j, kept, heard, late>>

------------------------------------------------------------------------------
(* A packet comes in (push)                                                *)

\* A reader that stalled does not hear old speech in a burst: what is due for
\* longer than MaxLate is passed over.
\* Variant: a stalled reader catches up.
KeepsStale(r) == r
SkipStale(r) ==
    LET frames == now - r.nextAt - MaxLate IN
    IF frames <= 0 THEN r
    ELSE [r EXCEPT !.cursor = (@ + frames) % StampMod, !.nextAt = @ + frames,
                   !.quiet = 0, !.stableAt = now]

Delta(r, p) == Signed(Number(p), r.sequence, SequenceMod)
Offset(r, p) == Signed(p.stamp, r.cursor, StampMod)

\* The packet came before, or is too old for that to be known.
Duplicate(r, p) ==
    LET d == Delta(r, p) IN d <= 0 /\ (d <= -Seen \/ -d \in r.seen)

\* The first packets are put in order as long as none has been played.
Anchored(r, p) ==
    IF Offset(r, p) \in -Delay .. -1 /\ Delta(r, p) < 0 /\ ~r.playing /\ now < r.nextAt
    THEN [r EXCEPT !.cursor = p.stamp] ELSE r

Fits(r, p) == Offset(r, p) \in 0 .. Window - 1

Remember(r, p) ==
    LET d == Delta(r, p) IN
    IF d > 0
    THEN [r EXCEPT !.seen = {0} \cup {e \in 0 .. Seen - 1 : e - d \in r.seen},
                   !.sequence = Number(p)]
    ELSE [r EXCEPT !.seen = @ \cup {-d}]

\* A late packet: repeatedly late ones make the delay grow, by a frame that
\* is played twice as long and not by speech that was played already.
NoteLate(r) ==
    LET s == [r EXCEPT !.stableAt = now]
        first == r.lateCount = 0 \/ now - r.lateSince > LateWithin IN
    IF ~r.playing \/ r.delay >= MaxDelay THEN s
    ELSE IF first THEN [s EXCEPT !.lateSince = now, !.lateCount = 1]
    ELSE IF r.lateCount + 1 < LateLimit THEN [s EXCEPT !.lateCount = @ + 1]
    ELSE [s EXCEPT !.hold = @ + 1, !.delay = @ + 1, !.lateCount = 0]

\* Consecutive packets ahead of the window show that the clock was moved.
Jump(r, p) ==
    LET follows == /\ Number(p) = (r.jump.sequence + 1) % SequenceMod
                   /\ p.stamp = r.jump.end /\ now - r.jump.at <= JumpWithin
    IN  [sequence |-> Number(p), end |-> (p.stamp + 1) % StampMod, at |-> now,
         count |-> IF follows THEN r.jump.count + 1 ELSE 1]

Paused(r, p) == Delta(r, p) > 0 /\ now - r.lastAt >= Pause
Ahead(r, p) == Delta(r, p) > 0 /\ ~Paused(r, p) /\ Offset(r, p) > Window
StartsAnew(r, p) == Paused(r, p) \/ (Ahead(r, p) /\ Jump(r, p).count >= JumpLimit)

Slot(stamp) == stamp % Window
Holds(r, stamp) == r.slots[Slot(stamp)] # NoPacket /\ r.slots[Slot(stamp)].stamp = stamp

\* Variant: a frame that was passed over keeps its place.
Empty(r, p) == r.slots[Slot(p.stamp)] = NoPacket
Free(r, p) == ~Holds(r, p.stamp)
Store(r, p) ==
    LET s == [Remember(r, p) EXCEPT !.lastAt = now, !.jump = NoJump] IN
    IF Free(r, p)
    THEN [s EXCEPT !.slots[Slot(p.stamp)] = [n |-> p.n, stamp |-> p.stamp, silent |-> p.silent,
                                            came |-> now]]
    ELSE s

Arrive(p) ==
    LET s == SkipStale(IF j.on THEN j ELSE Reset(p))
        a == Anchored(s, p)
        new == ~Duplicate(s, p) IN
    /\ \/ ~new /\ j' = s /\ UNCHANGED kept
       \/ new /\ Fits(a, p) /\ j' = Store(a, p) /\ kept' = kept \cup {p}
       \/ new /\ ~Fits(a, p) /\ StartsAnew(a, p) /\ j' = Store(Reset(p), p) /\ kept' = {p}
       \/ /\ new /\ ~Fits(a, p) /\ ~StartsAnew(a, p)
          /\ j' = IF Offset(a, p) < 0 THEN NoteLate(Remember(a, p))
                  ELSE [a EXCEPT !.stableAt = now,
                                 !.jump = IF Ahead(a, p) THEN Jump(a, p) ELSE @]
          /\ UNCHANGED kept
    /\ \/ net' = net \ {p} /\ Quiet
       \/ Trouble /\ UNCHANGED net
    /\ UNCHANGED <<now, sent, skew, heard, late>>

------------------------------------------------------------------------------
(* The reader takes a frame that is due (pop)                              *)

\* Reserve is given back inside silence that was received, never by leaving
\* out speech.
Reducible(r) ==
    /\ r.delay > Delay /\ r.quiet >= QuietLimit
    /\ now - r.stableAt >= Stable /\ now - r.reducedAt >= Between
    /\ Holds(r, r.cursor) /\ r.slots[Slot(r.cursor)].silent

ReduceQuietReserve(r) ==
    IF ~Reducible(r) THEN r
    ELSE [r EXCEPT !.slots[Slot(r.cursor)] = NoPacket, !.cursor = (@ + 1) % StampMod,
                   !.delay = @ - 1, !.reducedAt = now]

Hold ==
    /\ j.on /\ LET s == SkipStale(j) IN
       /\ s.nextAt <= now /\ s.hold > 0
       /\ j' = [s EXCEPT !.quiet = 0, !.hold = @ - 1, !.nextAt = @ + 1]
    /\ UNCHANGED <<now, carrier, kept, heard, late>>

Play ==
    /\ j.on /\ LET s == SkipStale(j)
                   there == Holds(s, s.cursor)
                   frame == s.slots[Slot(s.cursor)]
                   next == [s EXCEPT !.playing = TRUE, !.cursor = (@ + 1) % StampMod,
                                     !.nextAt = @ + 1,
                                     !.slots[Slot(s.cursor)] = IF there THEN NoPacket ELSE @,
                                     !.quiet = IF there /\ frame.silent THEN @ + 1 ELSE 0]
               IN
       /\ s.nextAt <= now /\ s.hold = 0
       /\ j' = ReduceQuietReserve(next)
       /\ IF there THEN /\ heard' = Append(heard, frame.n)
                        /\ late' = IF now - frame.came > late THEN now - frame.came ELSE late
          ELSE UNCHANGED <<heard, late>>
    /\ UNCHANGED <<now, carrier, kept>>

Next ==
    \/ \E d \in Jumps : ClockMoves(d)
    \/ \E speaks \in BOOLEAN : Tick(speaks)
    \/ \E p \in net : Arrive(p)
    \/ Hold \/ Play

Spec == Init /\ [][Next]_vars

------------------------------------------------------------------------------
TypeOK ==
    /\ now \in 0 .. MaxTime /\ sent \in 0 .. MaxPackets
    /\ j.on => /\ j.cursor \in 0 .. StampMod - 1 /\ j.sequence \in 0 .. SequenceMod - 1
               /\ j.seen \subseteq 0 .. Seen - 1 /\ j.delay \in Delay .. MaxDelay
               /\ j.hold \in 0 .. MaxDelay - Delay

\* Nothing is heard twice, and, if the carrier does not move its clock back,
\* nothing after what was said later.
InOrder ==
    \A i, k \in DOMAIN heard :
        i < k => /\ heard[i] # heard[k]
                 /\ (skew >= 0 => heard[i] < heard[k])

\* Nothing is heard that has lain in the buffer for longer than the window, the
\* longest delay and a reader's stall make of it.
Prompt == late < Window + MaxDelay + MaxLate

\* A packet that was taken and whose turn has not come is in its place.
Held == \A p \in kept : Fits(j, p) => Holds(j, p.stamp)

\* Whatever the network and the carrier's clock do, a caller hears each packet
\* at most once, in the order of speaking and not long after it came, and no
\* packet that was taken is lost before its turn.
JitterSound == TypeOK /\ InOrder /\ Prompt /\ Held
=============================================================================
