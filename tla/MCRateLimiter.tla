--------------------------- MODULE MCRateLimiter ---------------------------
(* Three Inboxes and a soft cap of one or two, so that sweeps happen.      *)
EXTENDS RateLimiter, TLC
CONSTANTS k1, k2, k3
=============================================================================
