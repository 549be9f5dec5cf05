---------------------------- MODULE MCRateLimiter ----------------------------
(* Small instances of RateLimiter for TLC. *)
EXTENDS RateLimiter, TLC

(* serve passes int(rate * 3) as the burst of its ingest limiter. *)
IngestBurst == (3 * Rate) \div Token

Symmetry == Permutations(Clients)
==============================================================================
