--------------------------- MODULE MCRateLimiter ---------------------------
(***************************************************************************)
(* TLC instance of RateLimiter.                                            *)
(***************************************************************************)
EXTENDS RateLimiter, TLC

\* No definition tells one client key from another.
Symmetry == Permutations(Keys)
=============================================================================
