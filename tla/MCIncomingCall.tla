--------------------------- MODULE MCIncomingCall ---------------------------
(* Two phones of one account ring for one call.                            *)
EXTENDS IncomingCall, TLC

CONSTANTS p1, p2, acct

\* The phones belong to one account and share its record; they are interchangeable.
OneAccount == [l \in Phones |-> acct]
Interchangeable == Permutations({p1, p2})

=============================================================================
