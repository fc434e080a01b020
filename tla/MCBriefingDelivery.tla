------------------------- MODULE MCBriefingDelivery -------------------------
(* Small instances of BriefingDelivery for TLC.                            *)
EXTENDS BriefingDelivery, TLC

CONSTANTS r1, r2, t1, t2, t3

\* Replicas and tokens are interchangeable (safety runs only).
Symmetry == Permutations(Replicas) \cup Permutations(Tokens)

=============================================================================
