---------------------------- MODULE ReplayFilter ----------------------------
(* What a receiver of ESP promises the IP stack above it: a packet is let     *)
(* through exactly when it is intact, was not let through before, and is less *)
(* than a window older than the newest one that was.                          *)
EXTENDS Integers

CONSTANTS Window, Sequences

VARIABLES passed,     \* the sequence numbers let through
          verdict     \* the last packet judged, and whether it passed

FilterInit == /\ passed = {}
              /\ verdict = [seq |-> 0, intact |-> FALSE, ok |-> FALSE]

Fresh(s) == /\ s \notin passed
            /\ \A t \in passed : t - s < Window

Judge(s, intact) ==
    LET ok == intact /\ Fresh(s)
    IN  /\ verdict' = [seq |-> s, intact |-> intact, ok |-> ok]
        /\ passed' = IF ok THEN passed \cup {s} ELSE passed

FilterNext == \E s \in Sequences, intact \in BOOLEAN : Judge(s, intact)

FilterSpec == FilterInit /\ [][FilterNext]_<<passed, verdict>>

=============================================================================
