--------------------------- MODULE MCRateLimiter ---------------------------
(* Two keys, one with a limit of two and one with a limit of one that an *)
(* older deployment left in Redis without an expiry.                      *)
EXTENDS RateLimiterProperties, TLC

CONSTANTS chat, approvals

MCLimit == [k \in Key |-> IF k = chat THEN 2 ELSE 1]

Symmetry == Permutations(Replica)
=============================================================================
