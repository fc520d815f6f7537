---------------------------- MODULE MCRateLimiter ----------------------------
(* RateLimiter on small instances. *)
EXTENDS RateLimiter, TLC

\* Workers and client addresses are interchangeable.
Interchangeable == Permutations(Workers) \cup Permutations(IPs)
=============================================================================
