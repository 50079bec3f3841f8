---------------------------- MODULE MCRateLimit -----------------------------
(* Two sources, two handshakes per window of three ticks.                    *)
EXTENDS RateLimitSpec
=============================================================================
