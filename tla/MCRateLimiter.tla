--------------------------- MODULE MCRateLimiter ---------------------------
(* A small instance of RateLimiter for TLC.                                 *)
EXTENDS RateLimiter
============================================================================
