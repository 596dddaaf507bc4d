---------------------------- MODULE MCRateLimiter ----------------------------
(* RateLimiter with a short interval and a short run for TLC. *)
EXTENDS RateLimiter

=============================================================================
